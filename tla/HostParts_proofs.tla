------------------------- MODULE HostParts_proofs -------------------------
(***************************************************************************)
(* Four parts of the host, each a machine of its own.  The buffer pool,    *)
(* for any numbers of buffers and blocks, any requests and memory types,   *)
(* and any sizes and alignments that divide one another: no byte is given  *)
(* to two buffers, a flush stays inside its buffer, and what a block has   *)
(* free is exactly what is not reserved.  The digests of VAE files         *)
(* (FingerprintCache) are current, for any number of threads, paths,       *)
(* entries and writes.  Archives on disk (ArchiveFiles) are replaced as a  *)
(* whole, for any number of processes, savers and readers.  The CUDA       *)
(* transformer's scratch arena (TransformerMemory) holds what every call   *)
(* asks of it, for any formats of the weights, texts and sequences.        *)
(***************************************************************************)
EXTENDS BufferPool, FingerprintCache, ArchiveFiles, TransformerMemory, WellFoundedInduction, FiniteSetTheorems, TLAPS

-----------------------------------------------------------------------------
(* Sizes and alignments.                                                   *)

\* A product is a multiple of either factor.
LEMMA Multiple == ASSUME NEW k \in Nat, NEW a \in Nat \ {0} PROVE (k * a) % a = 0
OBVIOUS

\* Rounding up to a multiple.
LEMMA AlignsUp ==
  ASSUME NEW v \in Nat, NEW a \in Nat \ {0}
  PROVE  /\ AlignUp(v, a) \in Nat /\ v <= AlignUp(v, a) /\ AlignUp(v, a) % a = 0
         /\ v = 0 => AlignUp(v, a) = 0
<1>1. AlignUp(v, a) \in Nat /\ v <= AlignUp(v, a) /\ AlignUp(v, a) % a = 0 BY DEF AlignUp
<1>2. v = 0 => AlignUp(v, a) = 0 BY DEF AlignUp
<1>3. QED BY <1>1, <1>2

\* Rounding down to a multiple, not below a smaller multiple.
LEMMA AlignsDown ==
  ASSUME NEW v \in Nat, NEW a \in Nat \ {0}, NEW m \in Nat, m % a = 0, m <= v
  PROVE  /\ AlignDown(v, a) \in Nat /\ m <= AlignDown(v, a) /\ AlignDown(v, a) <= v
         /\ AlignDown(v, a) % a = 0
<1>1. v = (v \div a) * a + (v % a) /\ v % a \in 0 .. a - 1 /\ v \div a \in Nat OBVIOUS
<1>2. m = (m \div a) * a + (m % a) /\ m \div a \in Nat OBVIOUS
<1> DEFINE q == v \div a p == m \div a
<1>3. q \in Nat /\ p \in Nat /\ v = q * a + (v % a) /\ m = p * a /\ v % a \in 0 .. a - 1
  BY <1>1, <1>2
<1> HIDE DEF q, p
<1>4. p <= q
  <2>1. SUFFICES ASSUME q + 1 <= p PROVE FALSE BY <1>3
  <2>2. (q + 1) * a <= p * a BY <1>3, <2>1
  <2>3. (q + 1) * a = q * a + a BY <1>3
  <2>4. q * a \in Nat /\ p * a \in Nat BY <1>3
  <2>5. QED BY <1>3, <2>2, <2>3, <2>4
<1>5. p * a <= q * a /\ p * a \in Nat /\ q * a \in Nat BY <1>3, <1>4
<1>6. AlignDown(v, a) = q * a
  <2>1. AlignDown(v, a) = v - (v % a) BY DEF AlignDown
  <2>2. QED BY <1>3, <1>5, <2>1
<1>7. (q * a) % a = 0 BY <1>3, Multiple
<1>8. QED BY <1>3, <1>5, <1>6, <1>7

\* Differences of multiples are multiples.
LEMMA MultiplesDiffer ==
  ASSUME NEW a \in Nat \ {0}, NEW x \in Nat, NEW y \in Nat, x % a = 0, y % a = 0, y <= x
  PROVE  (x - y) % a = 0
<1> DEFINE p == x \div a q == y \div a
<1>1. p \in Nat /\ q \in Nat /\ x = p * a /\ y = q * a OBVIOUS
<1> HIDE DEF p, q
<1>2. q <= p
  <2>1. SUFFICES ASSUME p + 1 <= q PROVE FALSE BY <1>1
  <2>2. (p + 1) * a <= q * a BY <1>1, <2>1
  <2>3. (p + 1) * a = p * a + a /\ p * a \in Nat /\ q * a \in Nat BY <1>1
  <2>4. QED BY <1>1, <2>2, <2>3
<1>3. x - y = (p - q) * a /\ p - q \in Nat BY <1>1, <1>2
<1>4. ((p - q) * a) % a = 0 BY <1>3, Multiple
<1>5. QED BY <1>3, <1>4

\* Sums of multiples are multiples.
LEMMA MultiplesAdd ==
  ASSUME NEW a \in Nat \ {0}, NEW x \in Nat, NEW y \in Nat, x % a = 0, y % a = 0
  PROVE  (x + y) % a = 0
<1> DEFINE p == x \div a q == y \div a
<1>1. p \in Nat /\ q \in Nat /\ x = p * a /\ y = q * a OBVIOUS
<1> HIDE DEF p, q
<1>2. x + y = (p + q) * a /\ p + q \in Nat BY <1>1
<1>3. ((p + q) * a) % a = 0 BY <1>2, Multiple
<1>4. QED BY <1>2, <1>3

\* What divides a divisor divides.
LEMMA MultiplesOfMultiples ==
  ASSUME NEW a \in Nat \ {0}, NEW c \in Nat \ {0}, c % a = 0, NEW x \in Nat, x % c = 0
  PROVE  x % a = 0
<1> DEFINE p == x \div c q == c \div a
<1>1. p \in Nat /\ q \in Nat /\ x = p * c /\ c = q * a OBVIOUS
<1> HIDE DEF p, q
<1>2. x = (p * q) * a /\ p * q \in Nat BY <1>1
<1>3. ((p * q) * a) % a = 0 BY <1>2, Multiple
<1>4. QED BY <1>2, <1>3

-----------------------------------------------------------------------------
(* Lists of ranges.                                                        *)

Ranges == [offset : Nat, bytes : Nat \ {0}]
Sorted(free) == \A x, y \in DOMAIN free : x < y => End(free[x]) < free[y].offset
Apart(p, q) == \A x \in ToSet(p), y \in ToSet(q) : End(x) < y.offset
Within(free, n) == \A x \in ToSet(free) : End(x) <= n

\* A list of ranges, joined from two of which one lies before the other.
LEMMA Joining ==
  ASSUME NEW p \in Seq(Ranges), NEW q \in Seq(Ranges)
  PROVE  /\ p \o q \in Seq(Ranges) /\ ToSet(p \o q) = ToSet(p) \cup ToSet(q)
         /\ Vacant(p \o q) = Vacant(p) \cup Vacant(q)
         /\ Sorted(p) /\ Sorted(q) /\ Apart(p, q) => Sorted(p \o q)
<1> DEFINE s == p \o q
<1>1. /\ s \in Seq(Ranges) /\ Len(s) = Len(p) + Len(q) /\ Len(p) \in Nat /\ Len(q) \in Nat
      /\ DOMAIN p = 1 .. Len(p) /\ DOMAIN q = 1 .. Len(q) /\ DOMAIN s = 1 .. Len(s)
  OBVIOUS
<1>2. \A i \in 1 .. Len(p) : s[i] = p[i] /\ i \in 1 .. Len(s) OBVIOUS
<1>3. \A i \in 1 .. Len(q) : s[Len(p) + i] = q[i] /\ Len(p) + i \in 1 .. Len(s) OBVIOUS
<1> HIDE DEF s
<1>4. ASSUME NEW i \in 1 .. Len(s)
      PROVE  \/ i \in 1 .. Len(p) /\ s[i] = p[i]
             \/ i - Len(p) \in 1 .. Len(q) /\ s[i] = q[i - Len(p)]
  <2>1. CASE i <= Len(p) BY <1>1, <1>2, <2>1
  <2>2. CASE i > Len(p)
    <3>1. i - Len(p) \in 1 .. Len(q) /\ Len(p) + (i - Len(p)) = i BY <1>1, <2>2
    <3>2. QED BY <1>3, <3>1
  <2>3. QED BY <1>1, <2>1, <2>2
<1>5. ToSet(s) = ToSet(p) \cup ToSet(q)
  <2>1. \A x \in ToSet(s) : x \in ToSet(p) \cup ToSet(q) BY <1>1, <1>4 DEF ToSet
  <2>2. ToSet(p) \subseteq ToSet(s) BY <1>1, <1>2 DEF ToSet
  <2>3. ToSet(q) \subseteq ToSet(s) BY <1>1, <1>3 DEF ToSet
  <2>4. QED BY <2>1, <2>2, <2>3
<1>6. Vacant(s) = Vacant(p) \cup Vacant(q) BY <1>5 DEF Vacant
<1>7. ASSUME Sorted(p), Sorted(q), Apart(p, q) PROVE Sorted(s)
  <2>1. ASSUME NEW x \in 1 .. Len(s), NEW y \in 1 .. Len(s), x < y PROVE End(s[x]) < s[y].offset
    <3>1. CASE y \in 1 .. Len(p)
      <4>1. x \in 1 .. Len(p) BY <1>1, <2>1, <3>1
      <4>2. QED BY <1>1, <1>2, <1>7, <2>1, <3>1, <4>1 DEF Sorted
    <3>2. CASE x \in 1 .. Len(p) /\ y - Len(p) \in 1 .. Len(q) /\ s[y] = q[y - Len(p)]
      BY <1>1, <1>2, <1>7, <3>2 DEF Apart, ToSet
    <3>3. CASE /\ x - Len(p) \in 1 .. Len(q) /\ s[x] = q[x - Len(p)]
               /\ y - Len(p) \in 1 .. Len(q) /\ s[y] = q[y - Len(p)]
      <4>1. x - Len(p) < y - Len(p) BY <1>1, <2>1
      <4>2. QED BY <1>1, <1>7, <3>3, <4>1 DEF Sorted
    <3>4. QED BY <1>4, <3>1, <3>2, <3>3
  <2>2. QED BY <1>1, <2>1 DEF Sorted
<1>8. QED BY <1>1, <1>5, <1>6, <1>7 DEF s

\* A list of ranges cut in two before its element k.
LEMMA Cutting ==
  ASSUME NEW S, NEW s \in Seq(S), NEW k \in 1 .. Len(s) + 1
  PROVE  /\ SubSeq(s, 1, k - 1) \in Seq(S) /\ SubSeq(s, k, Len(s)) \in Seq(S)
         /\ Len(SubSeq(s, 1, k - 1)) = k - 1 /\ Len(SubSeq(s, k, Len(s))) = Len(s) - k + 1
         /\ \A i \in 1 .. k - 1 : SubSeq(s, 1, k - 1)[i] = s[i]
         /\ \A i \in 1 .. Len(s) - k + 1 : SubSeq(s, k, Len(s))[i] = s[k + i - 1]
         /\ ToSet(s) = ToSet(SubSeq(s, 1, k - 1)) \cup ToSet(SubSeq(s, k, Len(s)))
<1> DEFINE p == SubSeq(s, 1, k - 1) q == SubSeq(s, k, Len(s))
<1>1. Len(s) \in Nat /\ k \in Nat /\ DOMAIN s = 1 .. Len(s) OBVIOUS
<1>2. p \in Seq(S) /\ Len(p) = k - 1 /\ DOMAIN p = 1 .. k - 1 /\ \A i \in 1 .. k - 1 : p[i] = s[i]
  OBVIOUS
<1>3. /\ q \in Seq(S) /\ Len(q) = Len(s) - k + 1 /\ DOMAIN q = 1 .. Len(s) - k + 1
      /\ \A i \in 1 .. Len(s) - k + 1 : q[i] = s[k + i - 1]
  OBVIOUS
<1> HIDE DEF p, q
<1>4. ToSet(s) \subseteq ToSet(p) \cup ToSet(q)
  <2>1. ASSUME NEW i \in 1 .. Len(s) PROVE s[i] \in ToSet(p) \cup ToSet(q)
    <3>1. CASE i \in 1 .. k - 1 BY <1>2, <3>1 DEF ToSet
    <3>2. CASE i >= k
      <4>1. i - k + 1 \in 1 .. Len(s) - k + 1 /\ k + (i - k + 1) - 1 = i BY <1>1, <3>2
      <4>2. s[i] = q[i - k + 1] BY <1>3, <4>1
      <4>3. QED BY <1>3, <4>1, <4>2 DEF ToSet
    <3>3. QED BY <1>1, <3>1, <3>2
  <2>2. QED BY <1>1, <2>1 DEF ToSet
<1>5. ToSet(p) \subseteq ToSet(s)
  <2>1. \A i \in 1 .. k - 1 : i \in 1 .. Len(s) BY <1>1
  <2>2. QED BY <1>1, <1>2, <2>1 DEF ToSet
<1>6. ToSet(q) \subseteq ToSet(s)
  <2>1. \A i \in 1 .. Len(s) - k + 1 : k + i - 1 \in 1 .. Len(s) BY <1>1
  <2>2. QED BY <1>1, <1>3, <2>1 DEF ToSet
<1>7. QED BY <1>2, <1>3, <1>4, <1>5, <1>6 DEF p, q

\* Of a sorted list either part is sorted, and the first lies before the second.
LEMMA CuttingSorted ==
  ASSUME NEW s \in Seq(Ranges), Sorted(s), NEW k \in 1 .. Len(s) + 1
  PROVE  /\ Sorted(SubSeq(s, 1, k - 1)) /\ Sorted(SubSeq(s, k, Len(s)))
         /\ Apart(SubSeq(s, 1, k - 1), SubSeq(s, k, Len(s)))
         /\ Vacant(s) = Vacant(SubSeq(s, 1, k - 1)) \cup Vacant(SubSeq(s, k, Len(s)))
<1> DEFINE p == SubSeq(s, 1, k - 1) q == SubSeq(s, k, Len(s))
<1>1. Len(s) \in Nat /\ k \in Nat /\ DOMAIN s = 1 .. Len(s) OBVIOUS
<1>2. p \in Seq(Ranges) /\ Len(p) = k - 1 /\ DOMAIN p = 1 .. k - 1 /\ \A i \in 1 .. k - 1 : p[i] = s[i]
  BY Cutting
<1>3. /\ q \in Seq(Ranges) /\ Len(q) = Len(s) - k + 1 /\ DOMAIN q = 1 .. Len(s) - k + 1
      /\ \A i \in 1 .. Len(s) - k + 1 : q[i] = s[k + i - 1]
  BY Cutting
<1>4. ToSet(s) = ToSet(p) \cup ToSet(q) BY Cutting
<1> HIDE DEF p, q
<1>5. \A i \in 1 .. k - 1 : i \in 1 .. Len(s) BY <1>1
<1>6. \A i \in 1 .. Len(s) - k + 1 : k + i - 1 \in 1 .. Len(s) /\ \A j \in 1 .. k - 1 : j < k + i - 1
  BY <1>1
<1>7. Sorted(p) BY <1>1, <1>2, <1>5 DEF Sorted
<1>8. Sorted(q)
  <2>1. \A i, j \in 1 .. Len(s) - k + 1 : i < j => k + i - 1 < k + j - 1 BY <1>1
  <2>2. QED BY <1>1, <1>3, <1>6, <2>1 DEF Sorted
<1>9. Apart(p, q)
  <2>1. \A i \in 1 .. k - 1, j \in 1 .. Len(s) - k + 1 : End(p[i]) < q[j].offset
    BY <1>1, <1>2, <1>3, <1>5, <1>6 DEF Sorted
  <2>2. QED BY <1>2, <1>3, <2>1 DEF Apart, ToSet
<1>10. Vacant(s) = Vacant(p) \cup Vacant(q) BY <1>4 DEF Vacant
<1>11. QED BY <1>7, <1>8, <1>9, <1>10 DEF p, q

\* A range, and what is left of one that may be empty.
LEMMA Single ==
  ASSUME NEW x \in Ranges
  PROVE  /\ <<x>> \in Seq(Ranges) /\ Sorted(<<x>>) /\ ToSet(<<x>>) = {x} /\ Vacant(<<x>>) = Bytes(x)
<1>1. <<x>> \in Seq(Ranges) /\ DOMAIN <<x>> = {1} /\ <<x>>[1] = x OBVIOUS
<1>2. ToSet(<<x>>) = {x} BY <1>1 DEF ToSet
<1>3. Sorted(<<x>>) BY <1>1 DEF Sorted
<1>4. Vacant(<<x>>) = Bytes(x) BY <1>2 DEF Vacant
<1>5. QED BY <1>1, <1>2, <1>3, <1>4

\* A span that may be empty.
LEMMA MaybeEmpty ==
  ASSUME NEW o \in Nat, NEW n \in Nat
  PROVE  /\ NonEmpty(Span(o, n)) \in Seq(Ranges) /\ Sorted(NonEmpty(Span(o, n)))
         /\ \A x \in ToSet(NonEmpty(Span(o, n))) : x.offset = o /\ End(x) = o + n
         /\ Vacant(NonEmpty(Span(o, n))) = o .. (o + n) - 1
<1>1. Span(o, n).offset = o /\ Span(o, n).bytes = n /\ End(Span(o, n)) = o + n BY DEF Span, End
<1>2. CASE n = 0
  <2>1. NonEmpty(Span(o, n)) = <<>> BY <1>1, <1>2 DEF NonEmpty
  <2>2. ToSet(<<>>) = {} /\ <<>> \in Seq(Ranges) BY DEF ToSet
  <2>3. Sorted(<<>>) BY DEF Sorted
  <2>4. Vacant(<<>>) = {} BY <2>2 DEF Vacant
  <2>5. o .. (o + n) - 1 = {} BY <1>2
  <2>6. QED BY <2>1, <2>2, <2>3, <2>4, <2>5
<1>3. CASE n # 0
  <2>1. NonEmpty(Span(o, n)) = <<Span(o, n)>> BY <1>1, <1>3 DEF NonEmpty
  <2>2. Span(o, n) \in Ranges BY <1>3 DEF Span, Ranges
  <2>3. Bytes(Span(o, n)) = o .. (o + n) - 1 BY <1>1 DEF Bytes
  <2>4. QED BY <1>1, <2>1, <2>2, <2>3, Single
<1>4. QED BY <1>2, <1>3

-----------------------------------------------------------------------------
(* Taking a span out of a free list and putting one back.                  *)

\* The first of a set of positions is one of them.
LEMMA MinIsIn ==
  ASSUME NEW S \in SUBSET Nat, S # {}
  PROVE  Min(S) \in S /\ \A x \in S : Min(S) <= x
<1>1. IsWellFoundedOn(OpToRel(<, Nat), Nat) BY NatLessThanWellFounded
<1>2. PICK x \in S : \A y \in S : ~(<<y, x>> \in OpToRel(<, Nat)) BY <1>1, WFMin
<1>3. \A y \in S : ~(y < x) BY <1>2 DEF OpToRel
<1>4. \A y \in S : x <= y BY <1>3
<1>5. QED BY <1>4 DEF Min

\* The range that is found has room behind its alignment.
LEMMA FirstFits ==
  ASSUME NEW free \in Seq(Ranges), NEW n \in Nat, NEW a \in Nat \ {0}, FirstFit(free, n, a) # 0
  PROVE  FirstFit(free, n, a) \in 1 .. Len(free) /\ Fits(free[FirstFit(free, n, a)], n, a)
<1> DEFINE I == {i \in 1 .. Len(free) : Fits(free[i], n, a)}
<1>1. FirstFit(free, n, a) = IF I # {} THEN Min(I) ELSE 0 BY DEF FirstFit, SelectInSeq
<1>2. I \in SUBSET Nat OBVIOUS
<1>3. Min(I) \in I BY <1>1, <1>2, MinIsIn
<1>4. QED BY <1>1, <1>3

\* A span is taken whole from the list, aligned, and nothing else is.
LEMMA TakingIsExact ==
  ASSUME NEW free \in Seq(Ranges), Sorted(free), NEW limit \in Nat, Within(free, limit),
         NEW n \in Nat \ {0}, NEW a \in Nat \ {0}, FirstFit(free, n, a) # 0
  PROVE  LET taken == TakeRange(free, n, a)
             span == taken.at .. taken.at + n - 1
         IN  /\ taken.at \in Nat /\ taken.at % a = 0 /\ taken.at + n <= limit
             /\ span \subseteq Vacant(free) /\ Vacant(taken.free) = Vacant(free) \ span
             /\ taken.free \in Seq(Ranges) /\ Sorted(taken.free) /\ Within(taken.free, limit)
<1> DEFINE k == FirstFit(free, n, a)
           x == free[k]
           at == AlignUp(x.offset, a)
           before == SubSeq(free, 1, k - 1)
           after == SubSeq(free, k + 1, Len(free))
           pre == NonEmpty(Span(x.offset, at - x.offset))
           suf == NonEmpty(Span(at + n, End(x) - at - n))
           span == at .. at + n - 1
<1>1. k \in 1 .. Len(free) /\ Fits(x, n, a) /\ x \in Ranges BY FirstFits
<1>2. Len(free) \in Nat /\ k \in Nat BY <1>1
<1>3. x.offset \in Nat /\ x.bytes \in Nat \ {0} /\ End(x) \in Nat /\ End(x) = x.offset + x.bytes
  <2> HIDE DEF x, k
  <2>1. x.offset \in Nat /\ x.bytes \in Nat \ {0} /\ End(x) = x.offset + x.bytes
    BY <1>1 DEF Ranges, End
  <2>2. QED BY <2>1
<1>4. at \in Nat /\ x.offset <= at /\ at % a = 0 /\ at + n <= End(x)
  BY <1>1, <1>3, AlignsUp DEF Fits
<1>5. TakeRange(free, n, a) = [at |-> at, free |-> before \o pre \o suf \o after]
  BY DEF TakeRange, Suffix
<1>6. k \in 1 .. Len(free) + 1 /\ k + 1 \in 1 .. Len(free) + 1 /\ (k + 1) - 1 = k BY <1>1, <1>2
<1> HIDE DEF k, at
<1>7. /\ before \in Seq(Ranges) /\ Sorted(before) /\ after \in Seq(Ranges) /\ Sorted(after)
      /\ \A y \in ToSet(before) : End(y) < x.offset
      /\ \A y \in ToSet(after) : End(x) < y.offset
      /\ ToSet(before) \subseteq ToSet(free) /\ ToSet(after) \subseteq ToSet(free) /\ x \in ToSet(free)
      /\ Vacant(free) = Vacant(before) \cup Bytes(x) \cup Vacant(after)
  <2> DEFINE rest == SubSeq(free, k, Len(free)) upto == SubSeq(free, 1, (k + 1) - 1)
  <2>1. /\ before \in Seq(Ranges) /\ Sorted(before) /\ Apart(before, rest) /\ rest \in Seq(Ranges)
        /\ ToSet(free) = ToSet(before) \cup ToSet(rest)
    BY <1>6, Cutting, CuttingSorted
  <2>2. /\ after \in Seq(Ranges) /\ Sorted(after) /\ Apart(upto, after) /\ upto \in Seq(Ranges)
        /\ ToSet(free) = ToSet(upto) \cup ToSet(after)
    BY <1>6, Cutting, CuttingSorted
  <2>3. x \in ToSet(rest)
    <3>1. Len(rest) = Len(free) - k + 1 /\ \A i \in 1 .. Len(free) - k + 1 : rest[i] = free[k + i - 1]
      BY <1>6, Cutting
    <3>2. 1 \in 1 .. Len(free) - k + 1 /\ k + 1 - 1 = k BY <1>1, <1>2
    <3>3. rest[1] = x /\ 1 \in DOMAIN rest BY <2>1, <3>1, <3>2
    <3>4. QED BY <3>3 DEF ToSet
  <2>4. x \in ToSet(upto)
    <3>1. Len(upto) = k /\ \A i \in 1 .. k : upto[i] = free[i] BY <1>6, Cutting
    <3>2. upto[k] = x /\ k \in DOMAIN upto BY <1>1, <1>2, <2>2, <3>1
    <3>3. QED BY <3>2 DEF ToSet
  <2>5. ToSet(free) = ToSet(before) \cup {x} \cup ToSet(after)
    <3>1. DOMAIN free = 1 .. Len(free) /\ DOMAIN before = 1 .. k - 1 /\ DOMAIN after = 1 .. Len(free) - k
      <4>1. Len(before) = k - 1 /\ Len(after) = Len(free) - (k + 1) + 1 BY <1>6, Cutting
      <4>2. QED BY <1>2, <2>1, <2>2, <4>1
    <3>2. \A i \in 1 .. k - 1 : before[i] = free[i] BY <1>6, Cutting
    <3>3. \A i \in 1 .. Len(free) - (k + 1) + 1 : after[i] = free[(k + 1) + i - 1] BY <1>6, Cutting
    <3>4. ASSUME NEW i \in 1 .. Len(free) PROVE free[i] \in ToSet(before) \cup {x} \cup ToSet(after)
      <4>1. CASE i \in 1 .. k - 1 BY <3>1, <3>2, <4>1 DEF ToSet
      <4>2. CASE i = k BY <4>2
      <4>3. CASE i > k
        <5>1. i - k \in 1 .. Len(free) - k /\ i - k \in 1 .. Len(free) - (k + 1) + 1 /\ (k + 1) + (i - k) - 1 = i
          BY <1>2, <4>3
        <5>2. after[i - k] = free[i] BY <3>3, <5>1
        <5>3. QED BY <3>1, <5>1, <5>2 DEF ToSet
      <4>4. QED BY <1>2, <4>1, <4>2, <4>3
    <3>5. QED
      <4>1. ToSet(free) \subseteq ToSet(before) \cup {x} \cup ToSet(after) BY <3>1, <3>4 DEF ToSet
      <4>2. QED BY <2>1, <2>2, <2>3, <4>1
  <2>6. Vacant(free) = Vacant(before) \cup Bytes(x) \cup Vacant(after) BY <2>5 DEF Vacant
  <2>7. QED BY <2>1, <2>2, <2>3, <2>4, <2>5, <2>6 DEF Apart
<1> HIDE DEF before, after, x
<1>8. /\ pre \in Seq(Ranges) /\ Sorted(pre) /\ Vacant(pre) = x.offset .. at - 1
      /\ \A y \in ToSet(pre) : y.offset = x.offset /\ End(y) = at
  <2> DEFINE m == at - x.offset
  <2>1. m \in Nat /\ x.offset + m = at BY <1>3, <1>4
  <2>2. pre = NonEmpty(Span(x.offset, m)) OBVIOUS
  <2> HIDE DEF m, pre
  <2>3. QED BY <1>3, <2>1, <2>2, MaybeEmpty
<1>9. /\ suf \in Seq(Ranges) /\ Sorted(suf) /\ Vacant(suf) = at + n .. End(x) - 1
      /\ \A y \in ToSet(suf) : y.offset = at + n /\ End(y) = End(x)
  <2> DEFINE m == End(x) - at - n o == at + n
  <2>1. o \in Nat /\ m \in Nat /\ o + m = End(x)
    <3>1. \A u, v \in Nat : u + n <= v => u + n \in Nat /\ v - u - n \in Nat /\ u + n + (v - u - n) = v
      OBVIOUS
    <3>2. at \in Nat /\ End(x) \in Nat /\ at + n <= End(x) BY <1>3, <1>4, Zenon
    <3>3. QED BY <3>1, <3>2, Zenon
  <2>2. suf = NonEmpty(Span(o, m)) /\ o = at + n OBVIOUS
  <2> HIDE DEF m, o, suf
  <2>3. suf \in Seq(Ranges) /\ Sorted(suf) /\ Vacant(suf) = o .. (o + m) - 1
        /\ \A y \in ToSet(suf) : y.offset = o /\ End(y) = o + m
    BY <2>1, <2>2, MaybeEmpty
  <2>4. QED BY <2>1, <2>2, <2>3
<1> HIDE DEF pre, suf
<1>10. \A y \in Ranges : y.offset \in Nat /\ End(y) \in Nat /\ y.offset < End(y) BY DEF Ranges, End
<1>11. /\ \A y \in ToSet(before) : y \in Ranges
       /\ \A y \in ToSet(after) : y \in Ranges
  BY <1>7 DEF ToSet
<1>12. Apart(before, pre) /\ Apart(before, suf) /\ Apart(pre, suf)
  <2>1. Apart(before, pre) BY <1>7, <1>8 DEF Apart
  <2>2. Apart(before, suf)
    <3>1. \A u, v, w \in Nat : u < v /\ v <= w => u < w OBVIOUS
    <3>2. x.offset <= at + n /\ at + n \in Nat BY <1>3, <1>4
    <3>3. \A y \in ToSet(before) : End(y) \in Nat /\ End(y) < x.offset BY <1>7, <1>10, <1>11, Zenon
    <3>4. \A y \in ToSet(before) : End(y) < at + n BY <1>3, <3>1, <3>2, <3>3, Zenon
    <3>5. QED BY <1>9, <3>4 DEF Apart
  <2>3. Apart(pre, suf) BY <1>4, <1>8, <1>9 DEF Apart
  <2>4. QED BY <2>1, <2>2, <2>3
<1>13. Apart(before, after) /\ Apart(pre, after) /\ Apart(suf, after)
  <2>1. Apart(before, after) BY <1>3, <1>7, <1>10, <1>11 DEF Apart
  <2>2. Apart(pre, after) BY <1>3, <1>4, <1>7, <1>8, <1>10, <1>11 DEF Apart
  <2>3. Apart(suf, after) BY <1>7, <1>9 DEF Apart
  <2>4. QED BY <2>1, <2>2, <2>3
<1> DEFINE one == before \o pre two == one \o suf three == two \o after
<1>14. one \in Seq(Ranges) /\ ToSet(one) = ToSet(before) \cup ToSet(pre) /\ Vacant(one) = Vacant(before) \cup Vacant(pre)
       /\ Sorted(one)
  BY <1>7, <1>8, <1>12, Joining
<1> HIDE DEF one
<1>15. Apart(one, suf) /\ Apart(one, after) BY <1>12, <1>13, <1>14 DEF Apart
<1>16. two \in Seq(Ranges) /\ ToSet(two) = ToSet(one) \cup ToSet(suf) /\ Vacant(two) = Vacant(one) \cup Vacant(suf)
       /\ Sorted(two)
  BY <1>9, <1>14, <1>15, Joining
<1> HIDE DEF two
<1>17. Apart(two, after) BY <1>13, <1>15, <1>16 DEF Apart
<1>18. /\ three \in Seq(Ranges) /\ ToSet(three) = ToSet(two) \cup ToSet(after)
       /\ Vacant(three) = Vacant(two) \cup Vacant(after) /\ Sorted(three)
  BY <1>7, <1>16, <1>17, Joining
<1>19. TakeRange(free, n, a) = [at |-> at, free |-> three]
  BY <1>5 DEF at, before, after, pre, suf, one, two, x
<1> HIDE DEF three
<1>20. End(x) <= limit BY <1>7 DEF Within
<1>21. Within(three, limit)
  <2>1. \A y \in ToSet(before) \cup ToSet(after) : End(y) <= limit BY <1>7 DEF Within
  <2>2. \A y \in ToSet(pre) : End(y) <= limit BY <1>3, <1>4, <1>8, <1>20
  <2>3. \A y \in ToSet(suf) : End(y) <= limit BY <1>9, <1>20
  <2>4. QED BY <1>14, <1>16, <1>18, <2>1, <2>2, <2>3 DEF Within
<1>22. Bytes(x) = x.offset .. End(x) - 1 BY DEF Bytes
<1>23. span \subseteq Bytes(x) /\ Bytes(x) \ span = (x.offset .. at - 1) \cup (at + n .. End(x) - 1)
  <2> DEFINE o == x.offset
             to == at + n
             e == End(x)
  <2>1. o \in Nat /\ at \in Nat /\ to \in Nat /\ e \in Nat /\ at < to /\ o <= at /\ to <= e
    BY <1>3, <1>4
  <2>2. to - 1 = at + n - 1 BY <1>4
  <2> HIDE DEF o, to, e, at
  <2>3. at .. to - 1 \subseteq o .. e - 1 /\ (o .. e - 1) \ (at .. to - 1) = (o .. at - 1) \cup (to .. e - 1)
    BY <2>1
  <2>4. span = at .. to - 1 BY <2>2
  <2> HIDE DEF span
  <2>5. QED BY <1>22, <2>3, <2>4, Zenon DEF o, to, e
<1>24. Vacant(before) \cap Bytes(x) = {} /\ Vacant(after) \cap Bytes(x) = {}
  <2>1. ASSUME NEW y \in ToSet(before) PROVE Bytes(y) \cap Bytes(x) = {}
    BY <1>3, <1>7, <1>10, <1>11, <1>22, <2>1 DEF Bytes
  <2>2. ASSUME NEW y \in ToSet(after) PROVE Bytes(y) \cap Bytes(x) = {}
    BY <1>3, <1>7, <1>10, <1>11, <1>22, <2>2 DEF Bytes
  <2>3. QED BY <2>1, <2>2 DEF Vacant
<1>25. span \subseteq Vacant(free) /\ Vacant(three) = Vacant(free) \ span
  <2>1. Vacant(three) = Vacant(before) \cup (Bytes(x) \ span) \cup Vacant(after)
    BY <1>8, <1>9, <1>14, <1>16, <1>18, <1>23
  <2> HIDE DEF span
  <2>2. QED BY <1>7, <1>23, <1>24, <2>1
<1>26. at + n <= limit BY <1>3, <1>4, <1>20
<1>27. QED BY <1>4, <1>18, <1>19, <1>21, <1>25, <1>26

\* Where a range is to be inserted: those before begin earlier, those behind do not.
LEMMA LowerBoundCuts ==
  ASSUME NEW free \in Seq(Ranges), Sorted(free), NEW o \in Nat
  PROVE  /\ LowerBound(free, o) \in 1 .. Len(free) + 1
         /\ \A i \in 1 .. Len(free) : IF i < LowerBound(free, o) THEN free[i].offset < o ELSE o <= free[i].offset
<1> DEFINE I == {i \in 1 .. Len(free) : free[i].offset >= o}
           j == SelectInSeq(free, LAMBDA x : x.offset >= o)
<1>1. j = IF I # {} THEN Min(I) ELSE 0 BY DEF SelectInSeq
<1>2. LowerBound(free, o) = IF j = 0 THEN Len(free) + 1 ELSE j BY DEF LowerBound
<1>3. I \in SUBSET Nat /\ Len(free) \in Nat /\ \A i \in 1 .. Len(free) : free[i].offset \in Nat
  <2>1. \A i \in 1 .. Len(free) : free[i] \in Ranges OBVIOUS
  <2>2. I \in SUBSET Nat /\ Len(free) \in Nat OBVIOUS
  <2>3. QED BY <2>1, <2>2 DEF Ranges
<1> HIDE DEF j
<1>4. CASE I = {}
  <2>1. LowerBound(free, o) = Len(free) + 1 BY <1>1, <1>2, <1>4
  <2>2. \A i \in 1 .. Len(free) : free[i].offset < o BY <1>3, <1>4
  <2>3. QED BY <1>3, <2>1, <2>2
<1>5. CASE I # {}
  <2>1. Min(I) \in I /\ \A i \in I : Min(I) <= i BY <1>3, <1>5, MinIsIn
  <2>2. LowerBound(free, o) = Min(I) BY <1>1, <1>2, <1>5, <2>1
  <2> DEFINE k == Min(I)
  <2>3. k \in 1 .. Len(free) /\ free[k].offset >= o /\ \A i \in 1 .. Len(free) : free[i].offset >= o => k <= i
    BY <2>1
  <2> HIDE DEF k
  <2>4. ASSUME NEW i \in 1 .. Len(free), i < k PROVE free[i].offset < o BY <1>3, <2>3, <2>4
  <2>5. ASSUME NEW i \in 1 .. Len(free), ~(i < k) PROVE o <= free[i].offset
    <3>1. CASE i = k BY <1>3, <2>3, <3>1
    <3>2. CASE k < i
      <4>1. End(free[k]) < free[i].offset BY <2>3, <3>2 DEF Sorted
      <4>2. free[k].offset <= End(free[k]) /\ End(free[k]) \in Nat
        <5>1. free[k] \in Ranges BY <2>3
        <5>2. QED BY <5>1 DEF Ranges, End
      <4>3. QED BY <1>3, <2>3, <4>1, <4>2
    <3>3. QED BY <2>3, <2>5, <3>1, <3>2
  <2>6. QED BY <1>3, <2>2, <2>3, <2>4, <2>5 DEF k
<1>6. QED BY <1>4, <1>5

\* The ranges before the one inserted, without the last if that touches it.
LEMMA InsertingLeft ==
  ASSUME NEW before \in Seq(Ranges), Sorted(before), NEW range \in Ranges,
         \A x \in ToSet(before) : End(x) <= range.offset
  PROVE  LET l == before # <<>> /\ Touches(Last(before), range)
             left == IF l THEN Front(before) ELSE before
             from == IF l THEN Last(before).offset ELSE range.offset
         IN  /\ left \in Seq(Ranges) /\ Sorted(left) /\ ToSet(left) \subseteq ToSet(before)
             /\ from \in Nat /\ from <= range.offset /\ \A x \in ToSet(left) : End(x) < from
             /\ Vacant(before) = Vacant(left) \cup (from .. range.offset - 1)
<1> DEFINE l == before # <<>> /\ Touches(Last(before), range)
           left == IF l THEN Front(before) ELSE before
           from == IF l THEN Last(before).offset ELSE range.offset
           n == Len(before)
<1>1. n \in Nat /\ DOMAIN before = 1 .. n /\ (before = <<>> <=> n = 0) /\ range.offset \in Nat
  BY DEF Ranges
<1>2. \A i \in 1 .. n : before[i] \in Ranges /\ before[i] \in ToSet(before) BY <1>1 DEF ToSet
<1>3. \A y \in Ranges : y.offset \in Nat /\ End(y) \in Nat /\ y.offset < End(y) BY DEF Ranges, End
<1>4. CASE l
  <2>1. n \in 1 .. n + 1 /\ n \in 1 .. n /\ Last(before) = before[n] BY <1>1, <1>4 DEF Last
  <2> DEFINE p == SubSeq(before, 1, n - 1) q == SubSeq(before, n, n)
  <2>2. p \in Seq(Ranges) /\ q \in Seq(Ranges) /\ Len(q) = n - n + 1 /\ q[1] = before[n + 1 - 1]
        /\ ToSet(before) = ToSet(p) \cup ToSet(q)
    <3>1. 1 \in 1 .. n - n + 1 BY <1>1
    <3>2. QED BY <2>1, <3>1, Cutting
  <2>3. Sorted(p) /\ Apart(p, q) /\ Vacant(before) = Vacant(p) \cup Vacant(q) BY <2>1, CuttingSorted
  <2>4. ToSet(q) = {before[n]}
    <3>1. n - n + 1 = 1 /\ n + 1 - 1 = n BY <1>1
    <3>2. DOMAIN q = {1} /\ q[1] = before[n] BY <2>2, <3>1
    <3>3. QED BY <3>2 DEF ToSet
  <2>5. Vacant(q) = Bytes(before[n]) BY <2>4 DEF Vacant
  <2>6. End(before[n]) = range.offset BY <1>4, <2>1 DEF Touches
  <2>7. left = p /\ from = before[n].offset BY <1>4, <2>1 DEF Front
  <2>8. Bytes(before[n]) = from .. range.offset - 1 BY <2>6, <2>7 DEF Bytes
  <2>9. \A x \in ToSet(p) : End(x) < from BY <2>3, <2>4, <2>7 DEF Apart
  <2>10. from \in Nat /\ from <= range.offset BY <1>2, <1>3, <2>1, <2>6, <2>7
  <2> HIDE DEF p, q, l, left, from
  <2>11. QED BY <2>2, <2>3, <2>5, <2>7, <2>8, <2>9, <2>10 DEF l, left, from
<1>5. CASE ~l
  <2>1. left = before /\ from = range.offset BY <1>5
  <2>2. ASSUME NEW i \in 1 .. n PROVE End(before[i]) < range.offset
    <3>1. n \in 1 .. n /\ Last(before) = before[n] BY <1>1 DEF Last
    <3>2. End(before[n]) # range.offset BY <1>1, <1>5, <3>1 DEF Touches
    <3>3. End(before[n]) < range.offset BY <1>1, <1>2, <1>3, <3>1, <3>2
    <3>4. CASE i = n BY <3>3, <3>4
    <3>5. CASE i # n
      <4>1. i < n
        <5>1. n \in Nat BY <1>1
        <5> HIDE DEF n
        <5>2. QED BY <3>5, <5>1
      <4>2. End(before[i]) < before[n].offset BY <1>1, <3>1, <4>1 DEF Sorted
      <4>3. QED BY <1>1, <1>2, <1>3, <3>1, <3>3, <4>2
    <3>6. QED BY <3>4, <3>5
  <2>3. \A x \in ToSet(before) : End(x) < range.offset BY <1>1, <2>2 DEF ToSet
  <2>4. range.offset .. range.offset - 1 = {} BY <1>1
  <2> HIDE DEF l, left, from
  <2>5. QED BY <1>1, <2>1, <2>3, <2>4 DEF l, left, from
<1>6. QED BY <1>4, <1>5

\* The ranges behind the one inserted, without the first if it touches that.
LEMMA InsertingRight ==
  ASSUME NEW after \in Seq(Ranges), Sorted(after), NEW range \in Ranges, NEW limit \in Nat, Within(after, limit),
         End(range) <= limit, \A x \in ToSet(after) : End(range) <= x.offset
  PROVE  LET r == after # <<>> /\ Touches(range, Head(after))
             right == IF r THEN Tail(after) ELSE after
             to == IF r THEN End(Head(after)) ELSE End(range)
         IN  /\ right \in Seq(Ranges) /\ Sorted(right) /\ ToSet(right) \subseteq ToSet(after)
             /\ to \in Nat /\ End(range) <= to /\ to <= limit /\ \A x \in ToSet(right) : to < x.offset
             /\ Vacant(after) = Vacant(right) \cup (End(range) .. to - 1)
<1> DEFINE r == after # <<>> /\ Touches(range, Head(after))
           right == IF r THEN Tail(after) ELSE after
           to == IF r THEN End(Head(after)) ELSE End(range)
           n == Len(after)
<1>1. n \in Nat /\ DOMAIN after = 1 .. n /\ (after = <<>> <=> n = 0) OBVIOUS
<1>2. \A i \in 1 .. n : after[i] \in Ranges /\ after[i] \in ToSet(after) BY <1>1 DEF ToSet
<1>3. \A y \in Ranges : y.offset \in Nat /\ End(y) \in Nat /\ y.offset < End(y) BY DEF Ranges, End
<1>4. CASE r
  <2>1. 1 \in 1 .. n /\ Head(after) = after[1] BY <1>1, <1>4
  <2> DEFINE q == Tail(after)
  <2>2. q \in Seq(Ranges) /\ Len(q) = n - 1 /\ DOMAIN q = 1 .. n - 1 /\ \A i \in 1 .. n - 1 : q[i] = after[i + 1]
    BY <1>1, <2>1
  <2> HIDE DEF q
  <2>3. \A i \in 1 .. n - 1 : i + 1 \in 1 .. n /\ 1 < i + 1 BY <1>1
  <2>4. ToSet(after) = {after[1]} \cup ToSet(q)
    <3>1. ASSUME NEW i \in 1 .. n PROVE after[i] \in {after[1]} \cup ToSet(q)
      <4>1. CASE i = 1 BY <4>1
      <4>2. CASE i # 1
        <5>1. i - 1 \in 1 .. n - 1 /\ (i - 1) + 1 = i BY <1>1, <4>2
        <5>2. QED BY <2>2, <5>1 DEF ToSet
      <4>3. QED BY <4>1, <4>2
    <3>2. \A i \in 1 .. n - 1 : q[i] \in ToSet(after) BY <1>2, <2>2, <2>3
    <3>3. \A y \in ToSet(after) : y \in {after[1]} \cup ToSet(q) BY <1>1, <3>1 DEF ToSet
    <3>4. \A y \in ToSet(q) : y \in ToSet(after) BY <2>2, <3>2 DEF ToSet
    <3>5. after[1] \in ToSet(after) BY <1>2, <2>1
    <3>6. QED BY <3>3, <3>4, <3>5
  <2>5. Sorted(q)
    <3>1. \A i, j \in 1 .. n - 1 : i < j => i + 1 < j + 1 BY <1>1
    <3>2. QED BY <1>1, <2>2, <2>3, <3>1 DEF Sorted
  <2>6. \A x \in ToSet(q) : End(after[1]) < x.offset
    <3>1. \A i \in 1 .. n - 1 : End(after[1]) < after[i + 1].offset BY <1>1, <2>1, <2>3 DEF Sorted
    <3>2. QED BY <2>2, <3>1 DEF ToSet
  <2>7. End(range) = after[1].offset BY <1>4, <2>1 DEF Touches
  <2>8. right = q /\ to = End(after[1]) BY <1>4, <2>1 DEF q
  <2>9. Vacant(after) = Bytes(after[1]) \cup Vacant(q) BY <2>4 DEF Vacant
  <2>10. Bytes(after[1]) = End(range) .. to - 1 BY <2>7, <2>8 DEF Bytes
  <2>11. to \in Nat /\ End(range) <= to /\ to <= limit BY <1>2, <1>3, <2>1, <2>7, <2>8 DEF Within
  <2> HIDE DEF r, right, to
  <2>12. QED BY <2>2, <2>4, <2>5, <2>6, <2>8, <2>9, <2>10, <2>11 DEF r, right, to
<1>5. CASE ~r
  <2>1. right = after /\ to = End(range) BY <1>5
  <2>2. ASSUME NEW i \in 1 .. n PROVE End(range) < after[i].offset
    <3>1. 1 \in 1 .. n /\ Head(after) = after[1] BY <1>1
    <3>2. End(range) # after[1].offset BY <1>1, <1>5, <3>1 DEF Touches
    <3>3. End(range) < after[1].offset BY <1>2, <1>3, <3>1, <3>2
    <3>4. CASE i = 1 BY <3>3, <3>4
    <3>5. CASE i # 1
      <4>1. End(after[1]) < after[i].offset BY <1>1, <3>1, <3>5 DEF Sorted
      <4>2. QED BY <1>2, <1>3, <3>1, <3>3, <4>1
    <3>6. QED BY <3>4, <3>5
  <2>3. \A x \in ToSet(after) : End(range) < x.offset BY <1>1, <2>2 DEF ToSet
  <2>4. End(range) \in Nat /\ End(range) .. End(range) - 1 = {} BY <1>3
  <2>5. Vacant(after) = Vacant(right) \cup (End(range) .. to - 1) BY <2>1, <2>4
  <2>6. to \in Nat /\ End(range) <= to /\ to <= limit BY <2>1, <2>4
  <2> HIDE DEF r, right, to
  <2>7. QED BY <2>1, <2>3, <2>5, <2>6 DEF r, right, to
<1>6. QED BY <1>4, <1>5

\* A span is put back whole, merged with whichever neighbour it touches, and nothing else is.
LEMMA InsertingIsExact ==
  ASSUME NEW free \in Seq(Ranges), Sorted(free), NEW limit \in Nat, Within(free, limit),
         NEW range \in Ranges, End(range) <= limit, Bytes(range) \cap Vacant(free) = {}
  PROVE  /\ Insert(free, range) \in Seq(Ranges) /\ Sorted(Insert(free, range)) /\ Within(Insert(free, range), limit)
         /\ Vacant(Insert(free, range)) = Vacant(free) \cup Bytes(range)
<1> DEFINE k == LowerBound(free, range.offset)
           before == SubSeq(free, 1, k - 1)
           after == SubSeq(free, k, Len(free))
           l == before # <<>> /\ Touches(Last(before), range)
           r == after # <<>> /\ Touches(range, Head(after))
           left == IF l THEN Front(before) ELSE before
           right == IF r THEN Tail(after) ELSE after
           from == IF l THEN Last(before).offset ELSE range.offset
           to == IF r THEN End(Head(after)) ELSE End(range)
<1>1. Insert(free, range) = left \o <<Span(from, to - from)>> \o right BY DEF Insert
<1>2. range.offset \in Nat /\ End(range) \in Nat /\ range.offset < End(range) BY DEF Ranges, End
<1>3. \A y \in Ranges : y.offset \in Nat /\ End(y) \in Nat /\ y.offset < End(y) BY DEF Ranges, End
<1>4. /\ k \in 1 .. Len(free) + 1 /\ Len(free) \in Nat
      /\ \A i \in 1 .. Len(free) : IF i < k THEN free[i].offset < range.offset ELSE range.offset <= free[i].offset
  <2>1. Len(free) \in Nat OBVIOUS
  <2> DEFINE o == range.offset
  <2>2. o \in Nat BY <1>2
  <2>3. k = LowerBound(free, o) OBVIOUS
  <2> HIDE DEF o, k
  <2>4. /\ LowerBound(free, o) \in 1 .. Len(free) + 1
        /\ \A i \in 1 .. Len(free) : IF i < LowerBound(free, o) THEN free[i].offset < o ELSE o <= free[i].offset
    BY <2>2, LowerBoundCuts
  <2>5. QED BY <2>1, <2>3, <2>4 DEF o
<1> HIDE DEF k
<1>5. /\ before \in Seq(Ranges) /\ after \in Seq(Ranges)
      /\ ToSet(free) = ToSet(before) \cup ToSet(after)
  BY <1>4, Cutting
<1>6. Sorted(before) /\ Sorted(after) /\ Apart(before, after) /\ Vacant(free) = Vacant(before) \cup Vacant(after)
  BY <1>4, CuttingSorted
<1>7. \A x \in ToSet(before) : x.offset < range.offset
  <2>1. Len(before) = k - 1 /\ DOMAIN before = 1 .. k - 1 /\ \A i \in 1 .. k - 1 : before[i] = free[i]
    BY <1>4, <1>5, Cutting
  <2>2. \A i \in 1 .. k - 1 : i \in 1 .. Len(free) /\ i < k BY <1>4
  <2> HIDE DEF before
  <2>3. QED BY <1>4, <2>1, <2>2 DEF ToSet
<1>8. \A x \in ToSet(after) : range.offset <= x.offset
  <2>1. /\ DOMAIN after = 1 .. Len(free) - k + 1
        /\ \A i \in 1 .. Len(free) - k + 1 : after[i] = free[k + i - 1]
    <3>1. Len(after) = Len(free) - k + 1 /\ \A i \in 1 .. Len(free) - k + 1 : after[i] = free[k + i - 1]
      BY <1>4, Cutting
    <3>2. QED BY <1>5, <3>1
  <2>2. \A i \in 1 .. Len(free) - k + 1 : k + i - 1 \in 1 .. Len(free) /\ ~(k + i - 1 < k) BY <1>4
  <2> HIDE DEF after
  <2>3. QED BY <1>4, <2>1, <2>2 DEF ToSet
<1> HIDE DEF before, after
<1>9. \A x \in ToSet(free) : x \in Ranges /\ Bytes(x) \cap Bytes(range) = {} /\ End(x) <= limit
  <2>1. \A x \in ToSet(free) : x \in Ranges BY DEF ToSet
  <2>2. \A x \in ToSet(free) : Bytes(x) \cap Bytes(range) = {} BY DEF Vacant
  <2>3. QED BY <2>1, <2>2 DEF Within
<1>10. ASSUME NEW x \in ToSet(before) PROVE End(x) <= range.offset
  <2>1. x.offset < range.offset /\ x.offset \in Nat /\ End(x) \in Nat /\ Bytes(x) \cap Bytes(range) = {}
    BY <1>3, <1>5, <1>7, <1>9
  <2>2. range.offset \in Bytes(range) BY <1>2 DEF Bytes
  <2>3. range.offset \notin x.offset .. End(x) - 1 BY <2>1, <2>2 DEF Bytes
  <2>4. QED BY <1>2, <2>1, <2>3
<1>11. ASSUME NEW x \in ToSet(after) PROVE End(range) <= x.offset
  <2>1. range.offset <= x.offset /\ x.offset \in Nat /\ End(x) \in Nat /\ x.offset < End(x) /\ Bytes(x) \cap Bytes(range) = {}
    BY <1>3, <1>5, <1>8, <1>9
  <2>2. x.offset \in Bytes(x) BY <2>1 DEF Bytes
  <2>3. x.offset \notin range.offset .. End(range) - 1 BY <2>1, <2>2 DEF Bytes
  <2>4. QED BY <1>2, <2>1, <2>3
<1>12. /\ left \in Seq(Ranges) /\ Sorted(left) /\ ToSet(left) \subseteq ToSet(before)
       /\ from \in Nat /\ from <= range.offset /\ (\A x \in ToSet(left) : End(x) < from)
       /\ Vacant(before) = Vacant(left) \cup (from .. range.offset - 1)
  BY <1>5, <1>6, <1>10, InsertingLeft
<1>13. Within(after, limit) BY <1>5, <1>9 DEF Within
<1>14. /\ right \in Seq(Ranges) /\ Sorted(right) /\ ToSet(right) \subseteq ToSet(after)
       /\ to \in Nat /\ End(range) <= to /\ to <= limit /\ (\A x \in ToSet(right) : to < x.offset)
       /\ Vacant(after) = Vacant(right) \cup (End(range) .. to - 1)
  BY <1>5, <1>6, <1>11, <1>13, InsertingRight
<1> HIDE DEF left, right, from, to, l, r
<1> DEFINE m == Span(from, to - from)
<1>15. m \in Ranges /\ m.offset = from /\ End(m) = to /\ Bytes(m) = from .. to - 1
  <2>1. to - from \in Nat \ {0} /\ from + (to - from) = to BY <1>2, <1>12, <1>14
  <2>2. m \in Ranges /\ m.offset = from /\ m.bytes = to - from BY <1>12, <2>1 DEF Span, Ranges
  <2>3. End(m) = to BY <2>1, <2>2 DEF End
  <2>4. QED BY <2>2, <2>3 DEF Bytes
<1> HIDE DEF m
<1>16. <<m>> \in Seq(Ranges) /\ Sorted(<<m>>) /\ ToSet(<<m>>) = {m} /\ Vacant(<<m>>) = Bytes(m)
  BY <1>15, Single
<1>17. Apart(left, <<m>>) BY <1>12, <1>15, <1>16 DEF Apart
<1> DEFINE one == left \o <<m>>
<1>18. one \in Seq(Ranges) /\ Sorted(one) /\ ToSet(one) = ToSet(left) \cup {m} /\ Vacant(one) = Vacant(left) \cup Bytes(m)
  <2> DEFINE s == <<m>>
  <2>1. s \in Seq(Ranges) /\ Sorted(s) /\ ToSet(s) = {m} /\ Vacant(s) = Bytes(m) /\ Apart(left, s)
    BY <1>16, <1>17
  <2>2. one = left \o s OBVIOUS
  <2> HIDE DEF s, one
  <2>3. /\ left \o s \in Seq(Ranges) /\ ToSet(left \o s) = ToSet(left) \cup ToSet(s)
        /\ Vacant(left \o s) = Vacant(left) \cup Vacant(s) /\ Sorted(left \o s)
    BY <1>12, <2>1, Joining
  <2>4. QED BY <2>1, <2>2, <2>3
<1> HIDE DEF one
<1>19. Apart(one, right)
  <2>1. ASSUME NEW x \in ToSet(one), NEW y \in ToSet(right) PROVE End(x) < y.offset
    <3>1. CASE x = m BY <1>14, <1>15, <3>1
    <3>2. CASE x \in ToSet(left) BY <1>5, <1>6, <1>12, <1>14, <3>2 DEF Apart
    <3>3. QED BY <1>18, <3>1, <3>2
  <2>2. QED BY <2>1 DEF Apart
<1> DEFINE two == one \o right
<1>20. two \in Seq(Ranges) /\ Sorted(two) /\ ToSet(two) = ToSet(one) \cup ToSet(right) /\ Vacant(two) = Vacant(one) \cup Vacant(right)
  BY <1>14, <1>18, <1>19, Joining
<1>21. Insert(free, range) = two BY <1>1 DEF two, one, m
<1> HIDE DEF two
<1>22. Within(two, limit) BY <1>5, <1>9, <1>12, <1>14, <1>15, <1>18, <1>20 DEF Within
<1>23. Vacant(two) = Vacant(free) \cup Bytes(range)
  <2>1. Bytes(range) = range.offset .. End(range) - 1 BY DEF Bytes
  <2>2. from .. to - 1 = (from .. range.offset - 1) \cup Bytes(range) \cup (End(range) .. to - 1)
    <3>1. \A u, v, w, x \in Nat : u <= v /\ v < w /\ w <= x =>
            u .. x - 1 = (u .. v - 1) \cup (v .. w - 1) \cup (w .. x - 1)
      OBVIOUS
    <3>2. QED BY <1>2, <1>12, <1>14, <2>1, <3>1
  <2>3. QED BY <1>6, <1>12, <1>14, <1>15, <1>18, <1>20, <2>2
<1>24. QED BY <1>20, <1>21, <1>22, <1>23

-----------------------------------------------------------------------------
(* What a request is given.                                                *)

\* The larger and the smaller of two numbers.
LEMMA OfTwo ==
  ASSUME NEW m \in Nat, NEW n \in Nat
  PROVE  /\ Max({m, n}) \in {m, n} /\ m <= Max({m, n}) /\ n <= Max({m, n})
         /\ Min({m, n}) \in {m, n} /\ Min({m, n}) <= m /\ Min({m, n}) <= n
<1>1. \E x \in {m, n} : \A y \in {m, n} : x >= y OBVIOUS
<1>2. \E x \in {m, n} : \A y \in {m, n} : x =< y OBVIOUS
<1>3. Max({m, n}) \in {m, n} /\ \A y \in {m, n} : Max({m, n}) >= y BY <1>1 DEF Max
<1>4. Min({m, n}) \in {m, n} /\ \A y \in {m, n} : Min({m, n}) =< y BY <1>2 DEF Min
<1>5. QED BY <1>3, <1>4

\* A type that is eligible is chosen if there is one.
LEMMA TypeIsChosen ==
  ASSUME NEW r \in Requests, Eligible(r) # {}
  PROVE  ChosenType(r) \in Eligible(r) /\ ChosenType(r) \in DOMAIN MemoryTypes
<1>1. r.types \subseteq DOMAIN MemoryTypes /\ DOMAIN MemoryTypes \subseteq Nat
        /\ r.usage \in {"device", "upload", "readback"}
  BY PoolAssumption
<1>2. Eligible(r) \subseteq DOMAIN MemoryTypes BY <1>1 DEF Eligible
<1>3. ASSUME NEW i \in Eligible(r) PROVE Score(r, i) \in 0 .. 2
  <2> DEFINE P == Preferred(r.usage) I == P \cap MemoryTypes[i]
  <2>1. P \subseteq {"host_coherent", "host_cached"} BY <1>1 DEF Preferred
  <2>2. IsFiniteSet({"host_coherent"}) /\ Cardinality({"host_coherent"}) = 1 BY FS_Singleton
  <2>3. {"host_coherent", "host_cached"} = {"host_coherent"} \cup {"host_cached"} OBVIOUS
  <2>4. /\ IsFiniteSet({"host_coherent", "host_cached"})
        /\ Cardinality({"host_coherent", "host_cached"}) \in {1, 2}
    BY <2>2, <2>3, FS_AddElement
  <2>5. I \in SUBSET {"host_coherent", "host_cached"} BY <2>1
  <2> HIDE DEF I
  <2>6. IsFiniteSet(I) /\ Cardinality(I) <= Cardinality({"host_coherent", "host_cached"})
    BY <2>4, <2>5, FS_Subset
  <2>7. Cardinality(I) \in Nat BY <2>6, FS_CardinalityType
  <2>8. Cardinality(I) \in 0 .. 2 BY <2>4, <2>6, <2>7
  <2>9. QED BY <2>8 DEF Score, I
<1> DEFINE Gaps == {2 - Score(r, i) : i \in Eligible(r)}
<1>4. Gaps \in SUBSET Nat /\ Gaps # {}
  <2>1. \A i \in Eligible(r) : 2 - Score(r, i) \in Nat BY <1>3
  <2>2. QED BY <2>1
<1>5. Min(Gaps) \in Gaps /\ \A g \in Gaps : Min(Gaps) <= g BY <1>4, MinIsIn
<1>6. PICK i \in Eligible(r) : Min(Gaps) = 2 - Score(r, i) BY <1>5
<1>7. \A j \in Eligible(r) : 2 - Score(r, i) <= 2 - Score(r, j) BY <1>5, <1>6
<1>8. \A j \in Eligible(r) : Score(r, j) <= Score(r, i) BY <1>3, <1>7
<1> DEFINE Best == {k \in Eligible(r) : \A j \in Eligible(r) : Score(r, j) <= Score(r, k)}
<1>9. Best # {} /\ Best \in SUBSET Nat BY <1>1, <1>2, <1>8
<1>10. Min(Best) \in Best BY <1>9, MinIsIn
<1>11. ChosenType(r) = Min(Best) BY DEF ChosenType, MemoryTypeOf
<1>12. QED BY <1>2, <1>10, <1>11

\* The sizes and alignments of a request.
LEMMA SizesFit ==
  ASSUME NEW r \in Requests, Eligible(r) # {}
  PROVE  /\ SpanBytes(r) \in Nat \ {0} /\ r.size \in Nat \ {0} /\ r.size <= SpanBytes(r)
         /\ SpanAlignment(r) \in Nat \ {0}
         /\ \A x \in Nat : x % SpanAlignment(r) = 0 => x % r.alignment = 0
         /\ HostVisible(ChosenType(r)) =>
              SpanBytes(r) % Atom = 0 /\ \A x \in Nat : x % SpanAlignment(r) = 0 => x % Atom = 0
         /\ NewBlockBytes(r) \in Nat /\ SpanBytes(r) <= NewBlockBytes(r)
<1>1. /\ r.size \in Nat \ {0} /\ r.alignment \in Nat \ {0} /\ Atom \in Nat \ {0}
      /\ r.alignment % Atom = 0 \/ Atom % r.alignment = 0
      /\ BlockBytes \in Nat /\ HeapBytes \in Nat
  BY PoolAssumption
<1> DEFINE a == r.alignment
<1>2. AlignUp(r.size, Atom) \in Nat /\ r.size <= AlignUp(r.size, Atom) /\ AlignUp(r.size, Atom) % Atom = 0
  BY <1>1, AlignsUp
<1>3. SpanBytes(r) \in Nat \ {0} /\ r.size <= SpanBytes(r) /\ (HostVisible(ChosenType(r)) => SpanBytes(r) % Atom = 0)
  <2>1. CASE HostVisible(ChosenType(r))
    <3>1. SpanBytes(r) = AlignUp(r.size, Atom) BY <2>1 DEF SpanBytes
    <3>2. \A m, n \in Nat : m # 0 /\ m <= n => n # 0 OBVIOUS
    <3>3. QED BY <1>1, <1>2, <3>1, <3>2
  <2>2. CASE ~HostVisible(ChosenType(r))
    <3>1. SpanBytes(r) = r.size BY <2>2 DEF SpanBytes
    <3>2. QED BY <1>1, <2>2, <3>1
  <2>3. QED BY <2>1, <2>2
<1>4. /\ SpanAlignment(r) \in Nat \ {0}
      /\ \A x \in Nat : x % SpanAlignment(r) = 0 => x % a = 0
      /\ HostVisible(ChosenType(r)) => \A x \in Nat : x % SpanAlignment(r) = 0 => x % Atom = 0
  <2>1. CASE HostVisible(ChosenType(r))
    <3> DEFINE m == Max({a, Atom})
    <3>1. SpanAlignment(r) = m BY <2>1 DEF SpanAlignment
    <3>2. m \in {a, Atom} /\ a <= m /\ Atom <= m BY <1>1, OfTwo
    <3>3. m \in Nat \ {0} BY <1>1, <3>2
    <3>4. m % a = 0 /\ m % Atom = 0
      <4>1. a % a = 0 /\ Atom % Atom = 0
        <5>1. \A n \in Nat \ {0} : n % n = 0 OBVIOUS
        <5>2. QED BY <1>1, <5>1
      <4>2. \A n, k \in Nat \ {0} : n < k => n % k = n OBVIOUS
      <4>3. CASE m = a
        <5>1. CASE a % Atom = 0 BY <4>1, <4>3, <5>1
        <5>2. CASE Atom % a = 0
          <6>1. ~(Atom < a) BY <1>1, <4>2, <5>2
          <6>2. a = Atom BY <1>1, <3>2, <4>3, <6>1
          <6>3. QED BY <4>1, <4>3, <6>2
        <5>3. QED BY <1>1, <5>1, <5>2
      <4>4. CASE m = Atom
        <5>1. CASE Atom % a = 0 BY <4>1, <4>4, <5>1
        <5>2. CASE a % Atom = 0
          <6>1. ~(a < Atom) BY <1>1, <4>2, <5>2
          <6>2. a = Atom BY <1>1, <3>2, <4>4, <6>1
          <6>3. QED BY <4>1, <4>4, <6>2
        <5>3. QED BY <1>1, <5>1, <5>2
      <4>5. QED BY <3>2, <4>3, <4>4
    <3> HIDE DEF m, a
    <3>5. a \in Nat \ {0} BY <1>1 DEF a
    <3>6. \A x \in Nat : x % m = 0 => x % a = 0 BY <3>3, <3>4, <3>5, MultiplesOfMultiples
    <3>7. \A x \in Nat : x % m = 0 => x % Atom = 0 BY <1>1, <3>3, <3>4, MultiplesOfMultiples
    <3>8. QED BY <3>1, <3>3, <3>6, <3>7
  <2>2. CASE ~HostVisible(ChosenType(r))
    <3>1. SpanAlignment(r) = a BY <2>2 DEF SpanAlignment
    <3>2. QED BY <1>1, <2>2, <3>1
  <2>3. QED BY <2>1, <2>2
<1>5. NewBlockBytes(r) \in Nat /\ SpanBytes(r) <= NewBlockBytes(r)
  <2>1. CASE r.dedicated
    <3>1. NewBlockBytes(r) = SpanBytes(r) BY <2>1 DEF NewBlockBytes
    <3>2. QED BY <1>3, <3>1
  <2>2. CASE ~r.dedicated
    <3> DEFINE s == SpanBytes(r)
               h == Max({HeapBytes \div 8, s})
               c == Min({BlockBytes, h})
               e == Max({s, c})
    <3>1. HeapBytes \div 8 \in Nat /\ s \in Nat BY <1>1, <1>3
    <3>2. h \in Nat
      <4> HIDE DEF s
      <4>1. Max({HeapBytes \div 8, s}) \in {HeapBytes \div 8, s} BY <3>1, OfTwo
      <4>2. QED BY <3>1, <4>1
    <3> HIDE DEF h, s
    <3>3. c \in Nat
      <4>1. Min({BlockBytes, h}) \in {BlockBytes, h} BY <1>1, <3>2, OfTwo
      <4>2. QED BY <1>1, <3>2, <4>1
    <3> HIDE DEF c
    <3>4. e \in Nat /\ s <= e
      <4>1. Max({s, c}) \in {s, c} /\ s <= Max({s, c}) BY <3>1, <3>3, OfTwo
      <4>2. QED BY <3>1, <3>3, <4>1
    <3> HIDE DEF e
    <3>5. AlignUp(e, SpanAlignment(r)) \in Nat /\ e <= AlignUp(e, SpanAlignment(r))
      BY <1>4, <3>4, AlignsUp
    <3>6. NewBlockBytes(r) = AlignUp(e, SpanAlignment(r)) BY <2>2 DEF NewBlockBytes, e, c, h, s
    <3>7. \A u, v, w \in Nat : u <= v /\ v <= w => u <= w OBVIOUS
    <3>8. QED BY <3>1, <3>4, <3>5, <3>6, <3>7 DEF s
  <2>3. QED BY <2>1, <2>2
<1>6. QED BY <1>1, <1>3, <1>4, <1>5

-----------------------------------------------------------------------------
(* The inductive invariant.                                                *)

MemoryBlocks ==
  [bytes : Nat, type : DOMAIN MemoryTypes \cup {0}, dedicated : BOOLEAN, addressable : BOOLEAN,
   failed : BOOLEAN, used : Nat, free : Seq(Ranges)]
Places == [block : Nat, offset : Nat, bytes : Nat]

PoolTyped ==
  /\ blocks \in Seq(BlockIds)
  /\ block \in [BlockIds -> MemoryBlocks]
  /\ stage \in [Buffers -> {"none", "created", "reserved", "live", "releasing"}]
  /\ req \in [Buffers -> Requests]
  /\ place \in [Buffers -> Places]

\* A buffer holds a span of a block exactly while it is bound to it or about to be, of the size and
\* the alignment its request needs.
PlaceIsRight(b) ==
  IF stage[b] \in {"none", "created"} THEN place[b] = NoPlace
  ELSE /\ place[b].block \in ToSet(blocks) /\ Eligible(req[b]) # {}
       /\ place[b].bytes = SpanBytes(req[b]) /\ place[b].offset % SpanAlignment(req[b]) = 0

SpansApart(b, c) == place[b].block = place[c].block => Bytes(place[b]) \cap Bytes(place[c]) = {}

BlockIsExact(i) ==
  /\ block[i].used = Cardinality(Reserved(i)) /\ Reserved(i) \subseteq 0 .. block[i].bytes - 1
  /\ Sorted(block[i].free) /\ Within(block[i].free, block[i].bytes)
  /\ ~block[i].failed => Vacant(block[i].free) = (0 .. block[i].bytes - 1) \ Reserved(i)
  /\ block[i].dedicated \/ block[i].failed => block[i].used > 0

PoolInv ==
  /\ PoolTyped /\ IsInjective(blocks)
  /\ \A b \in Buffers : PlaceIsRight(b)
  /\ \A b, c \in Buffers : b # c => SpansApart(b, c)
  /\ \A i \in ToSet(blocks) : BlockIsExact(i)
  /\ \A i \in BlockIds \ ToSet(blocks) : block[i] = NoBlock

-----------------------------------------------------------------------------
(* The blocks that are kept.                                               *)

\* A set of numbers has a least one.
LEMMA LeastNatural ==
  ASSUME NEW S \in SUBSET Nat, S # {}
  PROVE  \E x \in S : \A y \in S : x <= y
<1>1. QED BY MinIsIn

\* An element put at the end of a sequence.
LEMMA Appending ==
  ASSUME NEW S, NEW s \in Seq(S), NEW e \in S
  PROVE  /\ Append(s, e) \in Seq(S) /\ ToSet(Append(s, e)) = ToSet(s) \cup {e}
         /\ IsInjective(s) /\ e \notin ToSet(s) => IsInjective(Append(s, e))
<1> DEFINE t == Append(s, e)
<1>1. /\ t \in Seq(S) /\ Len(t) = Len(s) + 1 /\ Len(s) \in Nat /\ t[Len(s) + 1] = e
      /\ DOMAIN s = 1 .. Len(s) /\ DOMAIN t = 1 .. Len(s) + 1
  OBVIOUS
<1>2. \A i \in 1 .. Len(s) : t[i] = s[i] OBVIOUS
<1> HIDE DEF t
<1>3. \A i \in 1 .. Len(s) + 1 : i \in 1 .. Len(s) \/ i = Len(s) + 1 BY <1>1
<1>4. \A i \in 1 .. Len(s) : i \in 1 .. Len(s) + 1 BY <1>1
<1>5. Len(s) + 1 \in 1 .. Len(s) + 1 BY <1>1
<1>6. ToSet(t) = ToSet(s) \cup {e}
  <2>1. \A x \in ToSet(t) : x \in ToSet(s) \cup {e} BY <1>1, <1>2, <1>3, Zenon DEF ToSet
  <2>2. \A x \in ToSet(s) : x \in ToSet(t) BY <1>1, <1>2, <1>4, Zenon DEF ToSet
  <2>3. e \in ToSet(t) BY <1>1, <1>5, Zenon DEF ToSet
  <2>4. QED BY <2>1, <2>2, <2>3
<1>7. ASSUME IsInjective(s), e \notin ToSet(s) PROVE IsInjective(t)
  <2>1. \A i \in 1 .. Len(s) : s[i] # e BY <1>1, <1>7 DEF ToSet
  <2>2. \A i, j \in 1 .. Len(s) : s[i] = s[j] => i = j BY <1>1, <1>7 DEF IsInjective
  <2>3. QED BY <1>1, <1>2, <1>3, <2>1, <2>2, Zenon DEF IsInjective
<1>8. QED BY <1>1, <1>6, <1>7 DEF t

\* f has the elements of the first n blocks that are kept.
IsKept(s, kept, n, f) ==
  /\ f \in [0 .. n -> Seq(BlockIds)] /\ f[0] = <<>>
  /\ \A i \in 1 .. n : f[i] = IF s[i] \in kept THEN Append(f[i - 1], s[i]) ELSE f[i - 1]

\* There are the beginnings of what is kept.
LEMMA KeptExist ==
  ASSUME NEW s \in Seq(BlockIds), NEW kept
  PROVE  \E f : IsKept(s, kept, Len(s), f)
<1> DEFINE Bad == {n \in 0 .. Len(s) : ~\E f : IsKept(s, kept, n, f)}
<1>1. SUFFICES ASSUME Bad # {} PROVE FALSE
  <2>1. Len(s) \in 0 .. Len(s) OBVIOUS
  <2>2. QED BY <2>1
<1>2. PICK n \in Bad : \A m \in Bad : n <= m
  <2>1. Bad \in SUBSET Nat OBVIOUS
  <2> HIDE DEF Bad
  <2>2. QED BY <1>1, <2>1, LeastNatural
<1>3. n # 0
  <2> DEFINE f == [i \in 0 .. 0 |-> <<>>]
  <2>1. f \in [0 .. 0 -> Seq(BlockIds)] /\ f[0] = <<>> /\ (1 .. 0) = {} OBVIOUS
  <2> HIDE DEF f
  <2>2. IsKept(s, kept, 0, f) BY <2>1 DEF IsKept
  <2>3. QED BY <2>2
<1>4. PICK g : IsKept(s, kept, n - 1, g) BY <1>2, <1>3
<1> DEFINE e == IF s[n] \in kept THEN Append(g[n - 1], s[n]) ELSE g[n - 1]
           f == [i \in 0 .. n |-> IF i = n THEN e ELSE g[i]]
<1>5. n \in 1 .. Len(s) /\ s[n] \in BlockIds /\ g[n - 1] \in Seq(BlockIds) /\ e \in Seq(BlockIds)
  <2>1. n \in 1 .. Len(s) /\ s[n] \in BlockIds /\ n - 1 \in 0 .. n - 1 BY <1>3
  <2>2. g[n - 1] \in Seq(BlockIds) BY <1>4, <2>1 DEF IsKept
  <2>3. QED BY <2>1, <2>2
<1> HIDE DEF e
<1>6. IsKept(s, kept, n, f)
  <2>1. f \in [0 .. n -> Seq(BlockIds)]
    <3>1. \A i \in 0 .. n : i # n => i \in 0 .. n - 1 BY <1>5
    <3>2. \A i \in 0 .. n - 1 : g[i] \in Seq(BlockIds) BY <1>4 DEF IsKept
    <3>3. \A i \in 0 .. n : (IF i = n THEN e ELSE g[i]) \in Seq(BlockIds) BY <1>5, <3>1, <3>2, Zenon
    <3>4. QED BY <3>3
  <2>2. \A i \in 0 .. n : f[i] = IF i = n THEN e ELSE g[i] OBVIOUS
  <2> HIDE DEF f
  <2>3. f[0] = <<>> BY <1>4, <1>5, <2>2 DEF IsKept
  <2>4. \A i \in 1 .. n : f[i] = IF s[i] \in kept THEN Append(f[i - 1], s[i]) ELSE f[i - 1]
    <3>1. \A i \in 1 .. n : i - 1 \in 0 .. n /\ i - 1 # n /\ i \in 0 .. n /\ (i # n => i \in 1 .. n - 1)
      BY <1>5
    <3>2. \A i \in 1 .. n - 1 : g[i] = IF s[i] \in kept THEN Append(g[i - 1], s[i]) ELSE g[i - 1]
      BY <1>4 DEF IsKept
    <3>3. ASSUME NEW i \in 1 .. n PROVE f[i] = IF s[i] \in kept THEN Append(f[i - 1], s[i]) ELSE f[i - 1]
      <4>1. f[i - 1] = g[i - 1] BY <2>2, <3>1, Zenon
      <4>2. CASE i = n BY <2>2, <3>1, <4>1, <4>2, Zenon DEF e
      <4>3. CASE i # n BY <2>2, <3>1, <3>2, <4>1, <4>3, Zenon
      <4>4. QED BY <4>2, <4>3
    <3>4. QED BY <3>3
  <2>5. QED BY <2>1, <2>3, <2>4 DEF IsKept
<1> HIDE DEF f
<1>7. QED BY <1>2, <1>6

\* Erasing blocks keeps the others, each once.
LEMMA RemainingBlocks ==
  ASSUME blocks \in Seq(BlockIds), IsInjective(blocks), NEW kept
  PROVE  /\ Remaining(kept) \in Seq(BlockIds) /\ IsInjective(Remaining(kept))
         /\ ToSet(Remaining(kept)) = ToSet(blocks) \cap kept
<1> DEFINE N == Len(blocks)
<1>1. PICK f : IsKept(blocks, kept, N, f) BY KeptExist
<1>2. N \in Nat /\ DOMAIN blocks = 1 .. N OBVIOUS
<1>3. f = [n \in 0 .. N |-> IF n = 0 THEN <<>>
                            ELSE IF blocks[n] \in kept THEN Append(f[n - 1], blocks[n]) ELSE f[n - 1]]
  <2>1. f = [n \in 0 .. N |-> f[n]] BY <1>1 DEF IsKept
  <2>2. \A n \in 0 .. N : n # 0 => n \in 1 .. N BY <1>2
  <2>3. \A n \in 0 .. N : f[n] = IF n = 0 THEN <<>>
                            ELSE IF blocks[n] \in kept THEN Append(f[n - 1], blocks[n]) ELSE f[n - 1]
    BY <1>1, <2>2, Zenon DEF IsKept
  <2>4. QED BY <2>1, <2>3
<1> DEFINE h == CHOOSE g : g = [n \in 0 .. N |-> IF n = 0 THEN <<>>
                            ELSE IF blocks[n] \in kept THEN Append(g[n - 1], blocks[n]) ELSE g[n - 1]]
<1>4. h = [n \in 0 .. N |-> IF n = 0 THEN <<>>
                            ELSE IF blocks[n] \in kept THEN Append(h[n - 1], blocks[n]) ELSE h[n - 1]]
  BY <1>3
<1>5. Remaining(kept) = h[N] BY DEF Remaining
<1> HIDE DEF h
<1>6. \A n \in 0 .. N : h[n] = IF n = 0 THEN <<>>
                            ELSE IF blocks[n] \in kept THEN Append(h[n - 1], blocks[n]) ELSE h[n - 1]
  BY <1>4
<1> DEFINE Good(n) == /\ h[n] \in Seq(BlockIds) /\ IsInjective(h[n])
                      /\ ToSet(h[n]) = {blocks[i] : i \in 1 .. n} \cap kept
           Bad == {n \in 0 .. N : ~Good(n)}
<1>7. Bad = {}
  <2>1. SUFFICES ASSUME Bad # {} PROVE FALSE OBVIOUS
  <2>2. PICK n \in Bad : \A m \in Bad : n <= m
    <3>1. Bad \in SUBSET Nat OBVIOUS
    <3> HIDE DEF Bad
    <3>2. QED BY <2>1, <3>1, LeastNatural
  <2>3. n # 0
    <3>1. 0 \in 0 .. N BY <1>2
    <3>2. h[0] = <<>> BY <1>6, <3>1
    <3>3. <<>> \in Seq(BlockIds) /\ DOMAIN <<>> = {} /\ (1 .. 0) = {} OBVIOUS
    <3>4. IsInjective(<<>>) /\ ToSet(<<>>) = {} BY <3>3 DEF IsInjective, ToSet
    <3>5. {blocks[i] : i \in 1 .. 0} = {} BY <3>3
    <3>6. Good(0) BY <3>2, <3>3, <3>4, <3>5
    <3>7. QED BY <3>6
  <2>4. n \in 1 .. N /\ n - 1 \in 0 .. N /\ ~(n <= n - 1) /\ n \in 0 .. N BY <1>2, <2>3
  <2>5. Good(n - 1)
    <3> HIDE DEF Good
    <3>1. n - 1 \notin Bad BY <2>2, <2>4, Zenon
    <3>2. QED BY <2>4, <3>1
  <2>6. blocks[n] \in BlockIds /\ blocks[n] \notin {blocks[i] : i \in 1 .. n - 1}
    BY <1>2, <2>4 DEF IsInjective
  <2>7. {blocks[i] : i \in 1 .. n} = {blocks[i] : i \in 1 .. n - 1} \cup {blocks[n]}
    <3>1. 1 .. n = (1 .. n - 1) \cup {n} BY <2>4
    <3>2. QED BY <3>1
  <2>8. Good(n)
    <3>1. CASE blocks[n] \in kept
      <4>1. h[n] = Append(h[n - 1], blocks[n]) BY <1>6, <2>3, <2>4, <3>1, Zenon
      <4>2. blocks[n] \notin ToSet(h[n - 1]) BY <2>5, <2>6, Zenon
      <4>3. /\ Append(h[n - 1], blocks[n]) \in Seq(BlockIds) /\ IsInjective(Append(h[n - 1], blocks[n]))
            /\ ToSet(Append(h[n - 1], blocks[n])) = ToSet(h[n - 1]) \cup {blocks[n]}
        <5> DEFINE s == h[n - 1]
                   e == blocks[n]
        <5>1. s \in Seq(BlockIds) /\ IsInjective(s) /\ e \in BlockIds /\ e \notin ToSet(s)
          BY <2>5, <2>6, <4>2, Zenon
        <5> HIDE DEF s, e
        <5>2. /\ Append(s, e) \in Seq(BlockIds) /\ IsInjective(Append(s, e))
              /\ ToSet(Append(s, e)) = ToSet(s) \cup {e}
          BY <5>1, Appending
        <5>3. QED BY <5>2 DEF s, e
      <4>4. ToSet(h[n]) = ToSet(h[n - 1]) \cup {blocks[n]} BY <4>1, <4>3, Zenon
      <4>5. ToSet(h[n]) = {blocks[i] : i \in 1 .. n} \cap kept BY <2>5, <2>7, <3>1, <4>4
      <4>6. QED BY <4>1, <4>3, <4>5, Zenon
    <3>2. CASE blocks[n] \notin kept
      <4>1. h[n] = h[n - 1] BY <1>6, <2>3, <2>4, <3>2, Zenon
      <4>2. QED BY <2>5, <2>7, <3>2, <4>1
    <3>3. QED BY <3>1, <3>2
  <2>9. QED
    <3> HIDE DEF Good
    <3>1. n \in Bad OBVIOUS
    <3>2. QED BY <2>8, <3>1
<1>8. Good(N)
  <2> HIDE DEF Good
  <2>1. N \in 0 .. N BY <1>2
  <2>2. QED BY <1>7, <2>1
<1>9. ToSet(blocks) = {blocks[i] : i \in 1 .. N} BY <1>2 DEF ToSet
<1>10. QED BY <1>5, <1>8, <1>9

-----------------------------------------------------------------------------
(* Steps that leave every span where it is.                                *)

\* An empty pool is sound.
LEMMA PoolStarts == PoolInit => PoolInv
<1>1. SUFFICES ASSUME PoolInit PROVE PoolInv OBVIOUS
<1>2. /\ blocks = <<>> /\ block = [i \in BlockIds |-> NoBlock] /\ stage = [b \in Buffers |-> "none"]
      /\ req = [b \in Buffers |-> NoRequest] /\ place = [b \in Buffers |-> NoPlace]
  BY <1>1 DEF PoolInit
<1>3. NoRequest \in Requests
  <2>1. Requests # {} BY PoolAssumption
  <2>2. QED BY <2>1 DEF NoRequest
<1>4. NoBlock \in MemoryBlocks BY DEF NoBlock, MemoryBlocks
<1>5. NoPlace \in Places BY DEF NoPlace, Places
<1>6. PoolTyped BY <1>2, <1>3, <1>4, <1>5 DEF PoolTyped
<1>7. ToSet(blocks) = {} /\ IsInjective(blocks) BY <1>2 DEF ToSet, IsInjective
<1>8. \A b \in Buffers : PlaceIsRight(b) BY <1>2 DEF PlaceIsRight
<1>9. \A b, c \in Buffers : SpansApart(b, c)
  <2>1. \A b \in Buffers : Bytes(place[b]) = {} BY <1>2 DEF Bytes, End, NoPlace
  <2>2. QED BY <2>1 DEF SpansApart
<1>10. QED BY <1>2, <1>6, <1>7, <1>8, <1>9 DEF PoolInv

\* What only moves buffers between stages leaves the blocks exact.
LEMMA SpansStay ==
  ASSUME PoolInv, UNCHANGED <<blocks, block, place>>,
         stage' \in [Buffers -> {"none", "created", "reserved", "live", "releasing"}],
         req' \in [Buffers -> Requests], \A b \in Buffers : PlaceIsRight(b)'
  PROVE  PoolInv'
<1>1. blocks' = blocks /\ block' = block /\ place' = place OBVIOUS
<1>2. PoolTyped' BY <1>1 DEF PoolInv, PoolTyped
<1>3. IsInjective(blocks)' BY <1>1 DEF PoolInv, IsInjective
<1>4. ToSet(blocks)' = ToSet(blocks) BY <1>1
<1>5. \A b, c \in Buffers : b # c => SpansApart(b, c)' BY <1>1 DEF PoolInv, SpansApart
<1>6. \A i : Reserved(i)' = Reserved(i) BY <1>1 DEF Reserved, Holders
<1>7. \A i \in ToSet(blocks) : BlockIsExact(i)' BY <1>1, <1>6 DEF PoolInv, BlockIsExact
<1>8. QED BY <1>1, <1>2, <1>3, <1>4, <1>5, <1>7 DEF PoolInv

\* One buffer enters another stage, or gets another request.
LEMMA StageStays ==
  ASSUME PoolInv, NEW b \in Buffers, NEW s, NEW r \in Requests,
         \/ stage[b] \in {"none", "created"} /\ s \in {"none", "created"}
         \/ stage[b] \notin {"none", "created"} /\ s \in {"reserved", "live", "releasing"} /\ r = req[b],
         stage' = [stage EXCEPT ![b] = s], req' = [req EXCEPT ![b] = r],
         UNCHANGED <<blocks, block, place>>
  PROVE  PoolInv'
<1>1. /\ stage \in [Buffers -> {"none", "created", "reserved", "live", "releasing"}]
      /\ req \in [Buffers -> Requests]
  BY DEF PoolInv, PoolTyped
<1>2. /\ stage' \in [Buffers -> {"none", "created", "reserved", "live", "releasing"}]
      /\ req' \in [Buffers -> Requests]
  BY <1>1
<1>3. blocks' = blocks /\ place' = place OBVIOUS
<1>4. ASSUME NEW c \in Buffers PROVE PlaceIsRight(c)'
  <2>1. PlaceIsRight(c) BY DEF PoolInv
  <2>2. CASE c # b
    <3>1. stage'[c] = stage[c] /\ req'[c] = req[c] BY <1>1, <2>2
    <3>2. QED BY <1>3, <2>1, <3>1 DEF PlaceIsRight
  <2>3. CASE c = b
    <3>1. stage'[b] = s /\ req'[b] = r BY <1>1
    <3>2. CASE stage[b] \in {"none", "created"} /\ s \in {"none", "created"}
      BY <1>3, <2>1, <2>3, <3>1, <3>2 DEF PlaceIsRight
    <3>3. CASE stage[b] \notin {"none", "created"} /\ s \in {"reserved", "live", "releasing"} /\ r = req[b]
      BY <1>3, <2>1, <2>3, <3>1, <3>3 DEF PlaceIsRight
    <3>4. QED BY <3>2, <3>3
  <2>4. QED BY <2>2, <2>3
<1>5. QED BY <1>2, <1>4, SpansStay

\* A new buffer holds no span yet.
LEMMA CreateKeeps == ASSUME PoolInv, NEW b \in Buffers, NEW r \in Requests, Create(b, r) PROVE PoolInv'
<1>1. /\ stage[b] = "none" /\ stage' = [stage EXCEPT ![b] = "created"] /\ req' = [req EXCEPT ![b] = r]
      /\ UNCHANGED <<blocks, block, place>>
  BY DEF Create
<1>2. QED BY <1>1, StageStays

\* A buffer given up before it holds a span leaves nothing behind.
LEMMA AbandonKeeps == ASSUME PoolInv, NEW b \in Buffers, stage[b] = "created", Abandon(b) PROVE PoolInv'
<1>1. /\ stage' = [stage EXCEPT ![b] = "none"] /\ req' = [req EXCEPT ![b] = NoRequest]
      /\ UNCHANGED <<blocks, block, place>>
  BY DEF Abandon
<1>2. NoRequest \in Requests
  <2>1. Requests # {} BY PoolAssumption
  <2>2. QED BY <2>1 DEF NoRequest
<1>3. QED BY <1>1, <1>2, StageStays

\* Binding, its failure and destruction leave the span where it is.
LEMMA BoundOnesKeep ==
  ASSUME PoolInv, NEW b \in Buffers, Bind(b) \/ Destroy(b)
  PROVE  PoolInv'
<1>1. PICK s \in {"live", "releasing"} : stage' = [stage EXCEPT ![b] = s] BY DEF Bind, Destroy
<1>2. stage[b] \in {"reserved", "live"} /\ UNCHANGED <<blocks, block, req, place>>
  BY DEF Bind, Destroy
<1>3. req \in [Buffers -> Requests] BY DEF PoolInv, PoolTyped
<1>4. req' = [req EXCEPT ![b] = req[b]] /\ req[b] \in Requests BY <1>2, <1>3
<1>5. QED BY <1>1, <1>2, <1>4, StageStays

-----------------------------------------------------------------------------
(* Steps that reserve a span.                                              *)

\* A span that was vacant adds its length to what is reserved.
LEMMA ReservingCounts ==
  ASSUME NEW R, NEW n \in Nat, NEW at \in Nat, NEW limit \in Nat, R \subseteq 0 .. limit - 1,
         R \cap (at .. at + n - 1) = {}, at + n <= limit
  PROVE  /\ Cardinality(R \cup (at .. at + n - 1)) = Cardinality(R) + n
         /\ R \cup (at .. at + n - 1) \subseteq 0 .. limit - 1
         /\ Cardinality(R) \in Nat /\ Cardinality(R) <= limit
<1> DEFINE S == at .. at + n - 1
<1>1. IsFiniteSet(0 .. limit - 1) /\ Cardinality(0 .. limit - 1) = limit
  <2>1. /\ IsFiniteSet(0 .. limit - 1)
        /\ Cardinality(0 .. limit - 1) = IF 0 > limit - 1 THEN 0 ELSE (limit - 1) - 0 + 1
    BY FS_Interval
  <2>2. QED BY <2>1
<1>2. IsFiniteSet(R) /\ Cardinality(R) <= limit BY <1>1, FS_Subset
<1>3. IsFiniteSet(S) /\ Cardinality(S) = n
  <2>1. IsFiniteSet(S) /\ Cardinality(S) = IF at > at + n - 1 THEN 0 ELSE (at + n - 1) - at + 1
    BY FS_Interval
  <2>2. QED BY <2>1
<1>4. Cardinality(R) \in Nat BY <1>2, FS_CardinalityType
<1>5. S \subseteq 0 .. limit - 1 OBVIOUS
<1> HIDE DEF S
<1>6. Cardinality(R \cup S) = Cardinality(R) + Cardinality(S) - Cardinality(R \cap S)
  BY <1>2, <1>3, FS_Union
<1>7. Cardinality(R \cap S) = 0 BY FS_EmptySet DEF S
<1>8. Cardinality(R \cup S) = Cardinality(R) + n BY <1>3, <1>4, <1>6, <1>7
<1>9. QED BY <1>2, <1>4, <1>5, <1>8 DEF S

\* Two memory blocks that differ in nothing but their bookkeeping.
SameBlock(x, y) == y.bytes = x.bytes /\ y.type = x.type /\ y.dedicated = x.dedicated /\ y.addressable = x.addressable

\* The free list is assigned.
LEMMA FreeAssigned ==
  ASSUME NEW x \in MemoryBlocks, NEW f \in Seq(Ranges)
  PROVE  /\ [x EXCEPT !.free = f] \in MemoryBlocks /\ SameBlock(x, [x EXCEPT !.free = f])
         /\ [x EXCEPT !.free = f].free = f /\ [x EXCEPT !.free = f].used = x.used
         /\ [x EXCEPT !.free = f].failed = x.failed
BY DEF MemoryBlocks, SameBlock

\* The count of reserved bytes is assigned.
LEMMA UsedAssigned ==
  ASSUME NEW x \in MemoryBlocks, NEW u \in Nat
  PROVE  /\ [x EXCEPT !.used = u] \in MemoryBlocks /\ SameBlock(x, [x EXCEPT !.used = u])
         /\ [x EXCEPT !.used = u].used = u /\ [x EXCEPT !.used = u].free = x.free
         /\ [x EXCEPT !.used = u].failed = x.failed
BY DEF MemoryBlocks, SameBlock

\* The mark of a failed free list is assigned.
LEMMA FailedAssigned ==
  ASSUME NEW x \in MemoryBlocks, NEW g \in BOOLEAN
  PROVE  /\ [x EXCEPT !.failed = g] \in MemoryBlocks /\ SameBlock(x, [x EXCEPT !.failed = g])
         /\ [x EXCEPT !.failed = g].failed = g /\ [x EXCEPT !.failed = g].used = x.used
         /\ [x EXCEPT !.failed = g].free = x.free
BY DEF MemoryBlocks, SameBlock

\* The fields of a new block are assigned, one by one.
LEMMA BytesAssigned ==
  ASSUME NEW x \in MemoryBlocks, NEW n \in Nat
  PROVE  /\ [x EXCEPT !.bytes = n] \in MemoryBlocks /\ [x EXCEPT !.bytes = n].bytes = n
         /\ [x EXCEPT !.bytes = n].failed = x.failed /\ [x EXCEPT !.bytes = n].used = x.used
BY DEF MemoryBlocks

\* Its memory type.
LEMMA TypeAssigned ==
  ASSUME NEW x \in MemoryBlocks, NEW t \in DOMAIN MemoryTypes
  PROVE  /\ [x EXCEPT !.type = t] \in MemoryBlocks /\ [x EXCEPT !.type = t].bytes = x.bytes
         /\ [x EXCEPT !.type = t].failed = x.failed /\ [x EXCEPT !.type = t].used = x.used
BY DEF MemoryBlocks

\* Whether it is dedicated.
LEMMA DedicatedAssigned ==
  ASSUME NEW x \in MemoryBlocks, NEW g \in BOOLEAN
  PROVE  /\ [x EXCEPT !.dedicated = g] \in MemoryBlocks /\ [x EXCEPT !.dedicated = g].bytes = x.bytes
         /\ [x EXCEPT !.dedicated = g].failed = x.failed /\ [x EXCEPT !.dedicated = g].used = x.used
BY DEF MemoryBlocks

\* Whether it is addressable.
LEMMA AddressableAssigned ==
  ASSUME NEW x \in MemoryBlocks, NEW g \in BOOLEAN
  PROVE  /\ [x EXCEPT !.addressable = g] \in MemoryBlocks /\ [x EXCEPT !.addressable = g].bytes = x.bytes
         /\ [x EXCEPT !.addressable = g].failed = x.failed /\ [x EXCEPT !.addressable = g].used = x.used
BY DEF MemoryBlocks

\* A span taken out of an exact block, old or new, leaves it exact, and was nobody's.
LEMMA ReserveKeeps ==
  ASSUME PoolInv, NEW b \in Buffers, stage[b] = "created", Eligible(req[b]) # {},
         NEW i \in BlockIds, NEW target \in MemoryBlocks, ~target.failed,
         target.used = Cardinality(Reserved(i)), Reserved(i) \subseteq 0 .. target.bytes - 1,
         Sorted(target.free), Within(target.free, target.bytes),
         Vacant(target.free) = (0 .. target.bytes - 1) \ Reserved(i),
         FirstFit(target.free, SpanBytes(req[b]), SpanAlignment(req[b])) # 0,
         Reserve(b, i, target), IsInjective(blocks'),
         blocks' \in Seq(BlockIds), ToSet(blocks)' = ToSet(blocks) \cup {i}
  PROVE  PoolInv'
<1> DEFINE r == req[b]
           n == SpanBytes(r)
           a == SpanAlignment(r)
           taken == TakeRange(target.free, n, a)
           at == taken.at
           span == at .. at + n - 1
           limit == target.bytes
           R == Reserved(i)
           blk == [target EXCEPT !.free = taken.free, !.used = @ + n]
<1>1. /\ blocks \in Seq(BlockIds) /\ block \in [BlockIds -> MemoryBlocks]
      /\ stage \in [Buffers -> {"none", "created", "reserved", "live", "releasing"}]
      /\ req \in [Buffers -> Requests] /\ place \in [Buffers -> Places]
  BY DEF PoolInv, PoolTyped
<1>2. r \in Requests /\ Eligible(r) # {} BY <1>1
<1>3. n \in Nat \ {0} /\ a \in Nat \ {0}
  <2> HIDE DEF r
  <2>1. QED BY <1>2, SizesFit
<1>4. limit \in Nat /\ target.free \in Seq(Ranges) /\ target.used \in Nat /\ target.type \in DOMAIN MemoryTypes \cup {0}
      /\ target.dedicated \in BOOLEAN /\ target.addressable \in BOOLEAN
  BY DEF MemoryBlocks
<1>5. /\ at \in Nat /\ at % a = 0 /\ at + n <= limit
      /\ span \subseteq Vacant(target.free) /\ Vacant(taken.free) = Vacant(target.free) \ span
      /\ taken.free \in Seq(Ranges) /\ Sorted(taken.free) /\ Within(taken.free, limit)
  <2> DEFINE free == target.free
  <2>1. /\ free \in Seq(Ranges) /\ Sorted(free) /\ Within(free, limit) /\ FirstFit(free, n, a) # 0
    BY <1>4
  <2>2. taken = TakeRange(free, n, a) /\ at = taken.at /\ span = at .. at + n - 1 OBVIOUS
  <2> HIDE DEF free, n, a, limit, taken, at, span
  <2>3. LET t == TakeRange(free, n, a)
            s == t.at .. t.at + n - 1
        IN  /\ t.at \in Nat /\ t.at % a = 0 /\ t.at + n <= limit
            /\ s \subseteq Vacant(free) /\ Vacant(t.free) = Vacant(free) \ s
            /\ t.free \in Seq(Ranges) /\ Sorted(t.free) /\ Within(t.free, limit)
    BY <1>3, <1>4, <2>1, TakingIsExact
  <2>4. QED BY <2>2, <2>3 DEF free
<1>6. /\ block' = [block EXCEPT ![i] = blk]
      /\ place' = [place EXCEPT ![b] = [block |-> i, offset |-> at, bytes |-> n]]
      /\ stage' = [stage EXCEPT ![b] = "reserved"] /\ req' = req
  BY DEF Reserve
<1>7. /\ blk.bytes = limit /\ blk.type = target.type /\ blk.dedicated = target.dedicated
      /\ blk.addressable = target.addressable /\ blk.failed = FALSE /\ blk.used = target.used + n
      /\ blk.free = taken.free /\ blk \in MemoryBlocks
  <2> DEFINE f == taken.free
             u == target.used + n
             one == [target EXCEPT !.free = f]
             two == [one EXCEPT !.used = u]
  <2>1. u \in Nat /\ f \in Seq(Ranges) BY <1>3, <1>4, <1>5
  <2> HIDE DEF taken, n, f
  <2>2. one.used = target.used BY DEF MemoryBlocks
  <2>3. blk = two BY <2>2 DEF f
  <2> HIDE DEF blk, u, limit
  <2>4. /\ one \in MemoryBlocks /\ SameBlock(target, one) /\ one.free = f /\ one.failed = target.failed
    BY <2>1, FreeAssigned
  <2> HIDE DEF one
  <2>5. /\ two \in MemoryBlocks /\ SameBlock(one, two) /\ two.used = u /\ two.free = f
        /\ two.failed = target.failed
    BY <2>1, <2>4, UsedAssigned
  <2> HIDE DEF two
  <2>6. target.failed = FALSE BY DEF MemoryBlocks
  <2>7. QED BY <2>3, <2>4, <2>5, <2>6 DEF u, f, limit, SameBlock
<1> HIDE DEF blk, taken, n, a, at, r
<1>8. block'[i] = blk /\ \A j \in BlockIds : j # i => block'[j] = block[j] BY <1>1, <1>6
<1>9. /\ place'[b] = [block |-> i, offset |-> at, bytes |-> n]
      /\ \A c \in Buffers : c # b => place'[c] = place[c]
  BY <1>1, <1>6
<1>10. Bytes(place[b]) = {} /\ place[b].block = 0 /\ place[b] = NoPlace
  <2>1. place[b] = NoPlace BY DEF PoolInv, PlaceIsRight
  <2>2. QED BY <2>1 DEF NoPlace, Bytes, End
<1>11. Bytes(place[b])' = span /\ place'[b].block = i /\ place'[b].offset = at /\ place'[b].bytes = n
  <2>1. place'[b].block = i /\ place'[b].offset = at /\ place'[b].bytes = n BY <1>9
  <2>2. Bytes(place[b])' = place'[b].offset .. (place'[b].offset + place'[b].bytes) - 1
    BY DEF Bytes, End
  <2>3. (at + n) - 1 = at + n - 1 BY <1>3, <1>5
  <2>4. QED BY <2>1, <2>2, <2>3, Zenon DEF span
<1>12. i \in Nat \ {0} /\ BlockIds \subseteq Nat \ {0} BY PoolAssumption
<1>13. \A c \in Buffers : c # b => Bytes(place[c])' = Bytes(place[c]) BY <1>9 DEF Bytes, End
<1>14. Reserved(i)' = R \cup span
  <2>1. Holders(i)' = Holders(i) \cup {b} BY <1>9, <1>11 DEF Holders
  <2>2. b \notin Holders(i) BY <1>10, <1>12 DEF Holders
  <2>3. \A c \in Holders(i) : Bytes(place[c])' = Bytes(place[c]) BY <1>13, <2>2 DEF Holders
  <2> HIDE DEF span
  <2>4. \A x : x \in Reserved(i)' <=> \E c \in Holders(i)' : x \in Bytes(place[c])' BY DEF Reserved
  <2>5. \A x : x \in R <=> \E c \in Holders(i) : x \in Bytes(place[c]) BY DEF Reserved
  <2>6. \A x : x \in Reserved(i)' <=> x \in R \/ x \in span BY <1>11, <2>1, <2>3, <2>4, <2>5, Zenon
  <2>7. QED BY <2>6
<1>15. \A j \in BlockIds : j # i => Reserved(j)' = Reserved(j)
  <2>1. SUFFICES ASSUME NEW j \in BlockIds, j # i PROVE Reserved(j)' = Reserved(j) OBVIOUS
  <2>2. b \notin Holders(j) BY <1>10, <1>12 DEF Holders
  <2>3. Holders(j)' = Holders(j) BY <1>9, <1>11, <2>1, <2>2 DEF Holders
  <2>4. \A c \in Holders(j) : Bytes(place[c])' = Bytes(place[c]) BY <1>13, <2>2 DEF Holders
  <2>5. QED BY <2>3, <2>4 DEF Reserved
<1>16. R \cap span = {} BY <1>5
<1>17. /\ Cardinality(R \cup span) = Cardinality(R) + n /\ R \cup span \subseteq 0 .. limit - 1
       /\ Cardinality(R) \in Nat
  <2> HIDE DEF R, limit
  <2>1. R \subseteq 0 .. limit - 1 BY DEF R, limit
  <2>2. n \in Nat /\ at \in Nat /\ limit \in Nat /\ at + n <= limit /\ R \cap (at .. at + n - 1) = {}
    BY <1>3, <1>4, <1>5, <1>16, Zenon
  <2>3. QED BY <2>1, <2>2, ReservingCounts
<1> HIDE DEF span
<1>18. PoolTyped'
  <2>1. [block |-> i, offset |-> at, bytes |-> n] \in Places BY <1>3, <1>5, <1>12 DEF Places
  <2>2. block' \in [BlockIds -> MemoryBlocks] /\ place' \in [Buffers -> Places]
    BY <1>1, <1>6, <1>7, <2>1
  <2>3. stage' \in [Buffers -> {"none", "created", "reserved", "live", "releasing"}] BY <1>1, <1>6
  <2>4. QED BY <1>1, <1>6, <2>2, <2>3 DEF PoolTyped
<1>19. ASSUME NEW c \in Buffers PROVE PlaceIsRight(c)'
  <2>1. CASE c = b
    <3>1. stage'[b] = "reserved" /\ req'[b] = r BY <1>1, <1>6 DEF r
    <3>2. SpanBytes(req'[b]) = n /\ SpanAlignment(req'[b]) = a BY <3>1 DEF n, a
    <3>3. i \in ToSet(blocks)' OBVIOUS
    <3>4. place'[b].offset % SpanAlignment(req'[b]) = 0 BY <1>5, <1>11, <3>2, Zenon
    <3>5. QED BY <1>2, <1>11, <2>1, <3>1, <3>2, <3>3, <3>4 DEF PlaceIsRight
  <2>2. CASE c # b
    <3>1. stage'[c] = stage[c] /\ req'[c] = req[c] /\ place'[c] = place[c] BY <1>1, <1>6, <1>9, <2>2
    <3>2. PlaceIsRight(c) BY DEF PoolInv
    <3>3. QED BY <3>1, <3>2 DEF PlaceIsRight
  <2>3. QED BY <2>1, <2>2
<1>20. ASSUME NEW c \in Buffers, c # b, place[c].block = i PROVE Bytes(place[c])' \cap span = {}
  <2>1. Bytes(place[c]) \subseteq R BY <1>20 DEF Reserved, Holders
  <2>2. QED BY <1>13, <1>16, <1>20, <2>1
<1>21. ASSUME NEW c \in Buffers, NEW d \in Buffers, c # d PROVE SpansApart(c, d)'
  <2>1. CASE c = b BY <1>9, <1>11, <1>20, <1>21, <2>1 DEF SpansApart
  <2>2. CASE d = b BY <1>9, <1>11, <1>20, <1>21, <2>2 DEF SpansApart
  <2>3. CASE c # b /\ d # b
    <3>1. SpansApart(c, d) BY <1>21 DEF PoolInv
    <3>2. QED BY <1>9, <1>13, <2>3, <3>1 DEF SpansApart
  <2>4. QED BY <2>1, <2>2, <2>3
<1>22. ASSUME NEW j \in ToSet(blocks)' PROVE BlockIsExact(j)'
  <2>1. CASE j = i
    <3>1. block'[i].used = Cardinality(Reserved(i)') /\ block'[i].used > 0
      BY <1>3, <1>7, <1>8, <1>14, <1>17
    <3>2. Vacant(block'[i].free) = (0 .. block'[i].bytes - 1) \ Reserved(i)'
      BY <1>5, <1>7, <1>8, <1>14
    <3>3. Reserved(i)' \subseteq 0 .. block'[i].bytes - 1 BY <1>7, <1>8, <1>14, <1>17
    <3>4. Sorted(block'[i].free) /\ Within(block'[i].free, block'[i].bytes) BY <1>5, <1>7, <1>8
    <3>5. QED BY <2>1, <3>1, <3>2, <3>3, <3>4 DEF BlockIsExact
  <2>2. CASE j # i
    <3>1. j \in ToSet(blocks) /\ j \in BlockIds
      <4>1. j \in ToSet(blocks) BY <1>22, <2>2
      <4>2. ToSet(blocks) \subseteq BlockIds BY <1>1 DEF ToSet
      <4>3. QED BY <4>1, <4>2
    <3>2. BlockIsExact(j) /\ block'[j] = block[j] /\ Reserved(j)' = Reserved(j)
      BY <1>8, <1>15, <2>2, <3>1 DEF PoolInv
    <3>3. QED BY <3>2 DEF BlockIsExact
  <2>3. QED BY <2>1, <2>2
<1>23. \A j \in BlockIds \ ToSet(blocks)' : block'[j] = NoBlock BY <1>8 DEF PoolInv
<1>24. QED
  <2>1. \A c \in Buffers : PlaceIsRight(c)' BY <1>19
  <2>2. \A c, d \in Buffers : c # d => SpansApart(c, d)' BY <1>21
  <2>3. \A j \in ToSet(blocks)' : BlockIsExact(j)' BY <1>22
  <2>4. IsInjective(blocks)' OBVIOUS
  <2>5. QED BY <1>18, <1>23, <2>1, <2>2, <2>3, <2>4 DEF PoolInv

\* A span is reserved in the first block that has room.
LEMMA ReserveInBlockKeeps == ASSUME PoolInv, NEW b \in Buffers, ReserveInBlock(b) PROVE PoolInv'
<1> DEFINE r == req[b]
           k == Min(Candidates(r))
           i == blocks[k]
           target == block[i]
<1>1. /\ blocks \in Seq(BlockIds) /\ block \in [BlockIds -> MemoryBlocks] /\ req \in [Buffers -> Requests]
      /\ IsInjective(blocks)
  BY DEF PoolInv, PoolTyped
<1>2. stage[b] = "created" /\ Eligible(r) # {} /\ Candidates(r) # {} /\ Reserve(b, i, target) /\ blocks' = blocks
  BY DEF ReserveInBlock
<1> HIDE DEF r
<1>3. k \in Candidates(r)
  <2>1. Candidates(r) \in SUBSET Nat BY <1>1 DEF Candidates
  <2>2. QED BY <1>2, <2>1, MinIsIn
<1>4. /\ k \in DOMAIN blocks /\ ~target.failed
      /\ FirstFit(target.free, SpanBytes(r), SpanAlignment(r)) # 0
  BY <1>3 DEF Candidates
<1> HIDE DEF k
<1>5. i \in ToSet(blocks) /\ i \in BlockIds BY <1>1, <1>4 DEF ToSet
<1> HIDE DEF i
<1>6. BlockIsExact(i) /\ target \in MemoryBlocks BY <1>1, <1>5 DEF PoolInv
<1>7. /\ target.used = Cardinality(Reserved(i)) /\ Reserved(i) \subseteq 0 .. target.bytes - 1
      /\ Sorted(target.free) /\ Within(target.free, target.bytes)
      /\ Vacant(target.free) = (0 .. target.bytes - 1) \ Reserved(i)
  BY <1>4, <1>6 DEF BlockIsExact
<1>8. blocks' \in Seq(BlockIds) /\ ToSet(blocks)' = ToSet(blocks) \cup {i} /\ IsInjective(blocks')
  <2>1. ToSet(blocks)' = ToSet(blocks) BY <1>2
  <2>2. QED BY <1>1, <1>2, <1>5, <2>1
<1> HIDE DEF target
<1>9. stage[b] = "created" /\ Eligible(req[b]) # {}
      /\ FirstFit(target.free, SpanBytes(req[b]), SpanAlignment(req[b])) # 0
  BY <1>2, <1>4 DEF r
<1>10. QED BY <1>2, <1>4, <1>5, <1>6, <1>7, <1>8, <1>9, ReserveKeeps

\* A new block has one vacant range, into which what it was made for fits.
LEMMA NewBlockFits ==
  ASSUME NEW n \in Nat \ {0}, NEW m \in Nat \ {0}, NEW a \in Nat \ {0}, m <= n
  PROVE  LET free == <<Span(0, n)>>
         IN  /\ free \in Seq(Ranges) /\ Sorted(free) /\ Within(free, n) /\ Vacant(free) = 0 .. n - 1
             /\ FirstFit(free, m, a) # 0
<1> DEFINE x == Span(0, n)
           free == <<x>>
<1>1. x \in Ranges /\ x.offset = 0 /\ End(x) = n BY DEF Span, Ranges, End
<1>2. Bytes(x) = 0 .. n - 1 BY <1>1 DEF Bytes
<1> HIDE DEF x
<1>3. free \in Seq(Ranges) /\ Sorted(free) /\ ToSet(free) = {x} /\ Vacant(free) = Bytes(x)
  BY <1>1, Single
<1>4. Within(free, n) BY <1>1, <1>3 DEF Within
<1>5. Fits(x, m, a)
  <2>1. AlignUp(0, a) = 0 BY AlignsUp
  <2>2. QED BY <1>1, <2>1 DEF Fits
<1>6. 1 \in 1 .. Len(free) /\ free[1] = x /\ DOMAIN free = 1 .. 1 OBVIOUS
<1> DEFINE hits == {j \in 1 .. Len(free) : Fits(free[j], m, a)}
<1>7. hits # {} /\ hits \in SUBSET Nat /\ 0 \notin hits BY <1>5, <1>6
<1>8. FirstFit(free, m, a) = IF hits = {} THEN 0 ELSE Min(hits) BY DEF FirstFit, SelectInSeq
<1> HIDE DEF hits
<1>9. Min(hits) \in hits BY <1>7, MinIsIn
<1>10. FirstFit(free, m, a) # 0 BY <1>7, <1>8, <1>9
<1>11. QED BY <1>2, <1>3, <1>4, <1>10 DEF x

\* A span is reserved in a block that is new.
LEMMA ReserveNewBlockKeeps == ASSUME PoolInv, NEW b \in Buffers, ReserveNewBlock(b) PROVE PoolInv'
<1> DEFINE r == req[b]
           i == Min(BlockIds \ ToSet(blocks))
           n == NewBlockBytes(r)
           type == ChosenType(r)
           free == <<Span(0, n)>>
           target == [NoBlock EXCEPT !.bytes = n, !.type = type, !.dedicated = r.dedicated,
                                     !.addressable = r.addressable, !.free = free]
<1>1. /\ blocks \in Seq(BlockIds) /\ block \in [BlockIds -> MemoryBlocks] /\ req \in [Buffers -> Requests]
      /\ IsInjective(blocks)
  BY DEF PoolInv, PoolTyped
<1>2. /\ stage[b] = "created" /\ Eligible(r) # {} /\ Reserve(b, i, target) /\ blocks' = Append(blocks, i)
      /\ BlockIds \ ToSet(blocks) # {}
  BY DEF ReserveNewBlock
<1>3. r \in Requests /\ r.dedicated \in BOOLEAN /\ r.addressable \in BOOLEAN BY <1>1, PoolAssumption
<1> HIDE DEF r
<1>4. SpanBytes(r) \in Nat \ {0} /\ SpanAlignment(r) \in Nat \ {0} /\ n \in Nat /\ SpanBytes(r) <= n
  BY <1>2, <1>3, SizesFit
<1>5. type \in DOMAIN MemoryTypes BY <1>2, <1>3, TypeIsChosen
<1>6. i \in BlockIds /\ i \notin ToSet(blocks)
  <2> DEFINE S == BlockIds \ ToSet(blocks)
  <2>1. S \in SUBSET Nat /\ S # {} BY <1>2, PoolAssumption
  <2> HIDE DEF S
  <2>2. Min(S) \in S BY <2>1, MinIsIn
  <2>3. QED BY <2>2 DEF S
<1> HIDE DEF i, n, type
<1>7. n \in Nat \ {0} BY <1>4
<1>8. /\ free \in Seq(Ranges) /\ Sorted(free) /\ Within(free, n) /\ Vacant(free) = 0 .. n - 1
      /\ FirstFit(free, SpanBytes(r), SpanAlignment(r)) # 0
  BY <1>4, <1>7, NewBlockFits
<1> HIDE DEF free
<1>9. /\ target \in MemoryBlocks /\ target.bytes = n /\ target.failed = FALSE /\ target.used = 0
      /\ target.free = free
  <2> DEFINE one == [NoBlock EXCEPT !.bytes = n]
             two == [one EXCEPT !.type = type]
             three == [two EXCEPT !.dedicated = r.dedicated]
             four == [three EXCEPT !.addressable = r.addressable]
  <2>1. target = [four EXCEPT !.free = free] OBVIOUS
  <2> HIDE DEF one, two, three, four, target
  <2>2. NoBlock \in MemoryBlocks /\ NoBlock.failed = FALSE /\ NoBlock.used = 0
    BY DEF NoBlock, MemoryBlocks
  <2>3. one \in MemoryBlocks /\ one.bytes = n /\ one.failed = FALSE /\ one.used = 0
    BY <1>7, <2>2, BytesAssigned DEF one
  <2>4. two \in MemoryBlocks /\ two.bytes = n /\ two.failed = FALSE /\ two.used = 0
    BY <1>5, <2>3, TypeAssigned DEF two
  <2>5. three \in MemoryBlocks /\ three.bytes = n /\ three.failed = FALSE /\ three.used = 0
    BY <1>3, <2>4, DedicatedAssigned DEF three
  <2>6. four \in MemoryBlocks /\ four.bytes = n /\ four.failed = FALSE /\ four.used = 0
    BY <1>3, <2>5, AddressableAssigned DEF four
  <2>7. QED BY <1>8, <2>1, <2>6, FreeAssigned DEF SameBlock
<1> HIDE DEF target
<1>10. Reserved(i) = {}
  <2>1. i # 0 BY <1>6, PoolAssumption
  <2>2. \A c \in Buffers : place[c].block # i
    <3>1. \A c \in Buffers : place[c] = NoPlace \/ place[c].block \in ToSet(blocks)
      BY DEF PoolInv, PlaceIsRight
    <3>2. NoPlace.block = 0 BY DEF NoPlace
    <3>3. QED BY <1>6, <2>1, <3>1, <3>2
  <2>3. Holders(i) = {} BY <2>2 DEF Holders
  <2>4. QED BY <2>3 DEF Reserved
<1>11. /\ target.used = Cardinality(Reserved(i)) /\ Reserved(i) \subseteq 0 .. target.bytes - 1
       /\ Sorted(target.free) /\ Within(target.free, target.bytes)
       /\ Vacant(target.free) = (0 .. target.bytes - 1) \ Reserved(i) /\ ~target.failed
  BY <1>8, <1>9, <1>10, FS_EmptySet
<1>12. blocks' \in Seq(BlockIds) /\ ToSet(blocks)' = ToSet(blocks) \cup {i} /\ IsInjective(blocks')
  <2>1. Append(blocks, i) \in Seq(BlockIds) /\ IsInjective(Append(blocks, i))
        /\ ToSet(Append(blocks, i)) = ToSet(blocks) \cup {i}
    BY <1>1, <1>6, Appending
  <2>2. QED BY <1>2, <2>1
<1>13. stage[b] = "created" /\ Eligible(req[b]) # {}
       /\ FirstFit(target.free, SpanBytes(req[b]), SpanAlignment(req[b])) # 0
  BY <1>2, <1>8, <1>9 DEF r
<1>14. QED BY <1>2, <1>6, <1>9, <1>11, <1>12, <1>13, ReserveKeeps

-----------------------------------------------------------------------------
(* Steps that give spans and blocks back.                                  *)

\* A span that was reserved takes its length from what is reserved.
LEMMA ReleasingCounts ==
  ASSUME NEW R, NEW n \in Nat, NEW at \in Nat, NEW limit \in Nat, R \subseteq 0 .. limit - 1,
         at .. at + n - 1 \subseteq R
  PROVE  /\ Cardinality(R \ (at .. at + n - 1)) = Cardinality(R) - n
         /\ Cardinality(R) \in Nat /\ n <= Cardinality(R) /\ IsFiniteSet(R)
<1> DEFINE S == at .. at + n - 1
<1>1. IsFiniteSet(R)
  <2>1. IsFiniteSet(0 .. limit - 1) BY FS_Interval
  <2>2. QED BY <2>1, FS_Subset
<1>2. IsFiniteSet(S) /\ Cardinality(S) = n
  <2>1. IsFiniteSet(S) /\ Cardinality(S) = IF at > at + n - 1 THEN 0 ELSE (at + n - 1) - at + 1
    BY FS_Interval
  <2>2. QED BY <2>1
<1>3. Cardinality(R) \in Nat BY <1>1, FS_CardinalityType
<1> HIDE DEF S
<1>4. S \subseteq R BY DEF S
<1>5. Cardinality(S) <= Cardinality(R) BY <1>1, <1>4, FS_Subset
<1>6. Cardinality(R \ S) = Cardinality(R) - Cardinality(R \cap S) BY <1>1, FS_Difference
<1>7. R \cap S = S BY <1>4
<1>8. Cardinality(R \ S) = Cardinality(R) - n BY <1>2, <1>6, <1>7
<1>9. QED BY <1>1, <1>2, <1>3, <1>5, <1>8 DEF S

\* A span is given back, and its block too if that was its last use.
LEMMA ReleaseKeeps == ASSUME PoolInv, NEW b \in Buffers, Release(b) PROVE PoolInv'
<1> DEFINE i == place[b].block
           x == block[i]
           at == place[b].offset
           n == place[b].bytes
           S == at .. at + n - 1
           R == Reserved(i)
           limit == x.bytes
           span == Span(at, n)
<1>1. /\ blocks \in Seq(BlockIds) /\ block \in [BlockIds -> MemoryBlocks] /\ IsInjective(blocks)
      /\ stage \in [Buffers -> {"none", "created", "reserved", "live", "releasing"}]
      /\ req \in [Buffers -> Requests] /\ place \in [Buffers -> Places]
  BY DEF PoolInv, PoolTyped
<1>2. PICK oom \in BOOLEAN :
        LET fails == x.failed \/ oom
            blk == [x EXCEPT !.used = @ - n, !.failed = fails,
                             !.free = IF fails THEN <<>> ELSE Insert(@, span)]
            gone == Retired(blk) /\ blk.used = 0
        IN /\ blocks' = IF gone THEN Remaining(BlockIds \ {i}) ELSE blocks
           /\ block' = [block EXCEPT ![i] = IF gone THEN NoBlock ELSE blk]
  BY Zenon DEF Release
<1> DEFINE fails == x.failed \/ oom
           u == x.used - n
           f == IF fails THEN <<>> ELSE Insert(x.free, span)
           blk == [x EXCEPT !.used = @ - n, !.failed = fails,
                            !.free = IF fails THEN <<>> ELSE Insert(@, span)]
           gone == Retired(blk) /\ blk.used = 0
<1>3. /\ blocks' = IF gone THEN Remaining(BlockIds \ {i}) ELSE blocks
      /\ block' = [block EXCEPT ![i] = IF gone THEN NoBlock ELSE blk]
  BY <1>2
<1>4. /\ stage[b] = "releasing" /\ stage' = [stage EXCEPT ![b] = "none"]
      /\ req' = [req EXCEPT ![b] = NoRequest] /\ place' = [place EXCEPT ![b] = NoPlace]
  BY DEF Release
<1> HIDE DEF gone, blk, f, fails
<1>5. NoRequest \in Requests /\ NoPlace \in Places
  <2>1. Requests # {} BY PoolAssumption
  <2>2. QED BY <2>1 DEF NoRequest, NoPlace, Places
<1>6. i \in ToSet(blocks) /\ Eligible(req[b]) # {} /\ n = SpanBytes(req[b])
  BY <1>4 DEF PoolInv, PlaceIsRight
<1>7. i \in BlockIds /\ i # 0 /\ 0 \notin BlockIds
  <2>1. ToSet(blocks) \subseteq BlockIds BY <1>1 DEF ToSet
  <2>2. QED BY <1>6, <2>1, PoolAssumption
<1>7a. PICK q \in BlockIds : q = i BY <1>7
<1>8. n \in Nat \ {0} /\ at \in Nat
  <2> DEFINE r == req[b]
  <2>1. r \in Requests /\ Eligible(r) # {} /\ n = SpanBytes(r) /\ at \in Nat
    BY <1>1, <1>6 DEF Places
  <2> HIDE DEF r
  <2>2. QED BY <2>1, SizesFit
<1>9. x \in MemoryBlocks /\ limit \in Nat /\ x.used \in Nat /\ x.free \in Seq(Ranges) /\ x.failed \in BOOLEAN
  BY <1>1, <1>7 DEF MemoryBlocks
<1>10. /\ x.used = Cardinality(R) /\ R \subseteq 0 .. limit - 1
       /\ Sorted(x.free) /\ Within(x.free, limit)
       /\ ~x.failed => Vacant(x.free) = (0 .. limit - 1) \ R
  BY <1>6 DEF PoolInv, BlockIsExact
<1>11. Bytes(place[b]) = S /\ Bytes(span) = S /\ span \in Ranges /\ End(span) = at + n
  <2>1. (at + n) - 1 = at + n - 1 BY <1>8
  <2>2. span.offset = at /\ span.bytes = n BY DEF Span
  <2>3. span \in Ranges BY <1>8 DEF Span, Ranges
  <2> HIDE DEF span
  <2>4. QED BY <2>1, <2>2, <2>3 DEF Bytes, End
<1>12. S \subseteq R
  <2>1. b \in Holders(i) BY DEF Holders
  <2>2. QED BY <1>11, <2>1 DEF Reserved
<1> HIDE DEF x, at, n, span
<1>13. /\ Cardinality(R \ S) = x.used - n /\ n <= x.used /\ at + n <= limit
  <2>1. /\ Cardinality(R \ S) = Cardinality(R) - n /\ n <= Cardinality(R)
    <3> HIDE DEF R, limit
    <3>1. R \subseteq 0 .. limit - 1 /\ at .. at + n - 1 \subseteq R BY <1>10, <1>12
    <3>2. QED BY <1>8, <1>9, <3>1, ReleasingCounts
  <2>2. at + n - 1 \in S BY <1>8
  <2>3. at + n - 1 \in 0 .. limit - 1 BY <1>10, <1>12, <2>2
  <2>4. at + n <= limit BY <1>8, <1>9, <2>3
  <2>5. QED BY <1>10, <2>1, <2>4
<1>14. /\ f \in Seq(Ranges) /\ Sorted(f) /\ Within(f, limit)
       /\ ~fails => Vacant(f) = (0 .. limit - 1) \ (R \ S)
  <2>1. CASE fails
    <3>1. f = <<>> BY <2>1 DEF f
    <3>2. <<>> \in Seq(Ranges) /\ DOMAIN <<>> = {} OBVIOUS
    <3>3. Sorted(<<>>) /\ Within(<<>>, limit) BY <3>2 DEF Sorted, Within, ToSet
    <3>4. QED BY <2>1, <3>1, <3>2, <3>3
  <2>2. CASE ~fails
    <3> DEFINE free == x.free
    <3>1. f = Insert(free, span) BY <2>2 DEF f
    <3>2. Vacant(free) = (0 .. limit - 1) \ R BY <1>10, <2>2 DEF fails
    <3>3. Bytes(span) \cap Vacant(free) = {} BY <1>11, <1>12, <3>2
    <3>4. free \in Seq(Ranges) /\ Sorted(free) /\ Within(free, limit) /\ End(span) <= limit
      BY <1>9, <1>10, <1>11, <1>13
    <3> HIDE DEF free, limit
    <3>5. /\ Insert(free, span) \in Seq(Ranges) /\ Sorted(Insert(free, span)) /\ Within(Insert(free, span), limit)
          /\ Vacant(Insert(free, span)) = Vacant(free) \cup Bytes(span)
      BY <1>9, <1>11, <3>3, <3>4, InsertingIsExact
    <3> HIDE DEF R, S
    <3>6. Vacant(free) \cup S = (0 .. limit - 1) \ (R \ S) BY <1>10, <1>12, <3>2
    <3>7. QED BY <1>11, <3>1, <3>5, <3>6
  <2>3. QED BY <2>1, <2>2
<1>15. /\ blk.bytes = limit /\ blk.used = u /\ blk.failed = fails /\ blk.free = f
       /\ blk.dedicated = x.dedicated /\ blk \in MemoryBlocks /\ u \in Nat
  <2>1. u \in Nat BY <1>8, <1>9, <1>13
  <2>2. fails \in BOOLEAN BY <1>9 DEF fails
  <2> DEFINE one == [x EXCEPT !.used = u]
             two == [one EXCEPT !.failed = fails]
             three == [two EXCEPT !.free = f]
  <2> HIDE DEF one, two, three, u, limit
  <2>3. one \in MemoryBlocks /\ SameBlock(x, one) /\ one.used = u /\ one.free = x.free
    BY <1>9, <2>1, UsedAssigned DEF one
  <2>4. two \in MemoryBlocks /\ SameBlock(one, two) /\ two.used = u /\ two.failed = fails /\ two.free = x.free
    BY <2>2, <2>3, FailedAssigned DEF two
  <2>5. three \in MemoryBlocks /\ SameBlock(two, three) /\ three.used = u /\ three.failed = fails /\ three.free = f
    BY <1>14, <2>4, FreeAssigned DEF three
  <2>6. blk = three BY <2>3, <2>4 DEF blk, one, two, three, f, u
  <2>7. QED BY <2>1, <2>3, <2>4, <2>5, <2>6 DEF SameBlock, limit
<1>16. gone <=> (x.dedicated \/ fails) /\ u = 0 BY <1>15 DEF gone, Retired
<1>17. place'[b] = NoPlace /\ \A c \in Buffers : c # b => place'[c] = place[c] BY <1>1, <1>4
<1> DEFINE after == IF gone THEN NoBlock ELSE blk
<1>18. block'[i] = after /\ \A j \in BlockIds : j # i => block'[j] = block[j]
  <2> HIDE DEF i, after
  <2>1. block' = [block EXCEPT ![i] = after] BY <1>3 DEF after
  <2>2. QED BY <1>1, <1>7, <2>1
<1>19. Bytes(place[b])' = {} /\ place'[b].block = 0
  <2>1. NoPlace.block = 0 /\ NoPlace.offset = 0 /\ NoPlace.bytes = 0 BY DEF NoPlace
  <2>2. QED BY <1>17, <2>1 DEF Bytes, End
<1>20. \A c \in Buffers : c # b => Bytes(place[c])' = Bytes(place[c]) BY <1>17 DEF Bytes, End
<1>21. ASSUME NEW c \in Buffers, c # b, place[c].block = i PROVE Bytes(place[c]) \cap S = {}
  <2>1. SpansApart(b, c) BY <1>21 DEF PoolInv
  <2>2. QED BY <1>11, <1>21, <2>1 DEF SpansApart
<1>22. Reserved(q)' = R \ S
  <2>1. Holders(q)' = Holders(q) \ {b} BY <1>7, <1>17, <1>19, <1>7a DEF Holders
  <2>2. \A c \in Holders(q) : c # b => Bytes(place[c])' = Bytes(place[c]) /\ Bytes(place[c]) \cap S = {}
    BY <1>20, <1>21, <1>7a DEF Holders
  <2>3. \A y : y \in Reserved(q)' <=> \E c \in Holders(q)' : y \in Bytes(place[c])' BY DEF Reserved
  <2>4. \A y : y \in R <=> \E c \in Holders(q) : y \in Bytes(place[c]) BY <1>7a DEF Reserved
  <2> HIDE DEF S, R
  <2>5. \A y : y \in Reserved(q)' => y \in R /\ y \notin S BY <2>1, <2>2, <2>3, <2>4
  <2>6. \A y : y \in R /\ y \notin S => y \in Reserved(q)' BY <1>11, <2>1, <2>2, <2>3, <2>4
  <2>7. QED BY <2>5, <2>6
<1>23. \A j \in BlockIds : j # i => Reserved(j)' = Reserved(j)
  <2>1. SUFFICES ASSUME NEW j \in BlockIds, j # i PROVE Reserved(j)' = Reserved(j) OBVIOUS
  <2>2. b \notin Holders(j) BY <2>1 DEF Holders
  <2>3. Holders(j)' = Holders(j) BY <1>7, <1>17, <1>19, <2>1, <2>2 DEF Holders
  <2>4. \A c \in Holders(j) : Bytes(place[c])' = Bytes(place[c]) BY <1>20, <2>2 DEF Holders
  <2>5. QED BY <2>3, <2>4 DEF Reserved
<1> HIDE DEF S, R
<1>24. blocks' \in Seq(BlockIds) /\ IsInjective(blocks') /\ ToSet(blocks)' = IF gone THEN ToSet(blocks) \ {i} ELSE ToSet(blocks)
  <2> HIDE DEF i
  <2>1. CASE gone
    <3> DEFINE kept == BlockIds \ {i}
    <3>1. blocks' = Remaining(kept) BY <1>3, <2>1
    <3>2. ToSet(blocks) \subseteq BlockIds BY <1>1 DEF ToSet
    <3>3. ToSet(blocks) \cap kept = ToSet(blocks) \ {i} BY <3>2
    <3> HIDE DEF kept
    <3>4. /\ Remaining(kept) \in Seq(BlockIds) /\ IsInjective(Remaining(kept))
          /\ ToSet(Remaining(kept)) = ToSet(blocks) \cap kept
      BY <1>1, RemainingBlocks
    <3>5. ToSet(blocks)' = ToSet(Remaining(kept)) BY <3>1
    <3>6. QED BY <2>1, <3>1, <3>3, <3>4, <3>5
  <2>2. CASE ~gone
    <3>1. blocks' = blocks BY <1>3, <2>2
    <3>2. ToSet(blocks)' = ToSet(blocks) BY <3>1
    <3>3. QED BY <1>1, <2>2, <3>1, <3>2
  <2>3. QED BY <2>1, <2>2
<1>25. gone => R \ S = {}
  <2>1. SUFFICES ASSUME gone PROVE R \ S = {} OBVIOUS
  <2>2. Cardinality(R \ S) = 0 BY <1>13, <1>16, <2>1
  <2>3. IsFiniteSet(R \ S)
    <3>1. IsFiniteSet(0 .. limit - 1)
      <4> HIDE DEF limit
      <4>1. QED BY <1>9, FS_Interval
    <3>2. R \ S \in SUBSET (0 .. limit - 1) BY <1>10
    <3>3. QED BY <3>1, <3>2, FS_Subset
  <2>4. QED BY <2>2, <2>3, FS_EmptySet
<1>26. PoolTyped'
  <2>1. NoBlock \in MemoryBlocks BY DEF NoBlock, MemoryBlocks
  <2>2. after \in MemoryBlocks BY <1>15, <2>1
  <2>3. block' \in [BlockIds -> MemoryBlocks]
    <3> HIDE DEF after, i
    <3>1. block' = [block EXCEPT ![i] = after] BY <1>3 DEF after
    <3>2. QED BY <1>1, <2>2, <3>1
  <2>4. stage' \in [Buffers -> {"none", "created", "reserved", "live", "releasing"}] BY <1>1, <1>4
  <2>5. req' \in [Buffers -> Requests] /\ place' \in [Buffers -> Places] BY <1>1, <1>4, <1>5
  <2>6. QED BY <1>24, <2>3, <2>4, <2>5 DEF PoolTyped
<1>27. ASSUME NEW c \in Buffers PROVE PlaceIsRight(c)'
  <2>1. CASE c = b
    <3>1. stage'[b] = "none" BY <1>1, <1>4
    <3>2. QED BY <1>17, <2>1, <3>1 DEF PlaceIsRight
  <2>2. CASE c # b
    <3>1. stage'[c] = stage[c] /\ req'[c] = req[c] /\ place'[c] = place[c]
      BY <1>1, <1>4, <1>17, <2>2
    <3>2. PlaceIsRight(c) BY DEF PoolInv
    <3>3. CASE stage[c] \in {"none", "created"} BY <3>1, <3>2, <3>3 DEF PlaceIsRight
    <3>4. CASE stage[c] \notin {"none", "created"}
      <4>1. /\ place[c].block \in ToSet(blocks) /\ Eligible(req[c]) # {}
            /\ place[c].bytes = SpanBytes(req[c]) /\ place[c].offset % SpanAlignment(req[c]) = 0
        BY <3>2, <3>4 DEF PlaceIsRight
      <4>2. ~(gone /\ place[c].block = i)
        <5>1. SUFFICES ASSUME gone, place[c].block = i PROVE FALSE OBVIOUS
        <5>2. place[c].offset \in Nat /\ place[c].bytes \in Nat \ {0}
          <6> DEFINE r == req[c]
          <6>1. r \in Requests /\ Eligible(r) # {} /\ place[c].bytes = SpanBytes(r) /\ place[c].offset \in Nat
            BY <1>1, <4>1 DEF Places
          <6> HIDE DEF r
          <6>2. QED BY <6>1, SizesFit
        <5>3. place[c].offset \in Bytes(place[c]) BY <5>2 DEF Bytes, End
        <5>4. c \in Holders(i) BY <5>1 DEF Holders
        <5>5. place[c].offset \in R BY <5>3, <5>4 DEF R, Reserved
        <5>6. place[c].offset \notin S BY <1>21, <2>2, <5>1, <5>3
        <5>7. QED BY <1>25, <5>1, <5>5, <5>6
      <4>3. place[c].block \in ToSet(blocks)' BY <1>24, <4>1, <4>2
      <4>4. QED BY <3>1, <3>4, <4>1, <4>3 DEF PlaceIsRight
    <3>5. QED BY <3>3, <3>4
  <2>3. QED BY <2>1, <2>2
<1>28. ASSUME NEW c \in Buffers, NEW d \in Buffers, c # d PROVE SpansApart(c, d)'
  <2>1. CASE c = b BY <1>19, <2>1 DEF SpansApart
  <2>2. CASE d = b BY <1>19, <2>2 DEF SpansApart
  <2>3. CASE c # b /\ d # b
    <3>1. SpansApart(c, d) BY <1>28 DEF PoolInv
    <3>2. QED BY <1>17, <1>20, <2>3, <3>1 DEF SpansApart
  <2>4. QED BY <2>1, <2>2, <2>3
<1>29. ASSUME NEW j \in ToSet(blocks)' PROVE BlockIsExact(j)'
  <2>0. j \in ToSet(blocks) /\ (j = i => ~gone) BY <1>24, <1>29
  <2>1. CASE j = i
    <3>1. block'[i] = blk BY <1>18, <2>0, <2>1
    <3>2. block'[i].used = Cardinality(Reserved(q)') BY <1>13, <1>15, <1>22, <3>1
    <3>3. Reserved(q)' \subseteq 0 .. block'[i].bytes - 1 BY <1>10, <1>15, <1>22, <3>1
    <3>4. Sorted(block'[i].free) /\ Within(block'[i].free, block'[i].bytes) BY <1>14, <1>15, <3>1
    <3>5. ~block'[i].failed => Vacant(block'[i].free) = (0 .. block'[i].bytes - 1) \ Reserved(q)'
      BY <1>14, <1>15, <1>22, <3>1
    <3>6. block'[i].dedicated \/ block'[i].failed => block'[i].used > 0
      <4>1. u > 0 \/ u = 0 BY <1>15
      <4>2. x.dedicated \/ fails => u > 0 BY <1>16, <2>0, <2>1, <4>1
      <4>3. QED BY <1>15, <3>1, <4>2
    <3>7. QED BY <1>7a, <2>1, <3>2, <3>3, <3>4, <3>5, <3>6 DEF BlockIsExact
  <2>2. CASE j # i
    <3>1. j \in BlockIds
      <4>1. ToSet(blocks) \subseteq BlockIds BY <1>1 DEF ToSet
      <4>2. QED BY <2>0, <4>1
    <3>2. BlockIsExact(j) /\ block'[j] = block[j] /\ Reserved(j)' = Reserved(j)
      BY <1>18, <1>23, <2>0, <2>2, <3>1 DEF PoolInv
    <3>3. QED BY <3>2 DEF BlockIsExact
  <2>3. QED BY <2>1, <2>2
<1>30. \A j \in BlockIds \ ToSet(blocks)' : block'[j] = NoBlock
  <2>1. SUFFICES ASSUME NEW j \in BlockIds, j \notin ToSet(blocks)' PROVE block'[j] = NoBlock
    OBVIOUS
  <2>2. CASE j = i
    <3>1. gone BY <1>6, <1>24, <2>1, <2>2
    <3>2. QED BY <1>18, <2>2, <3>1
  <2>3. CASE j # i
    <3>1. j \notin ToSet(blocks) BY <1>24, <2>1, <2>3
    <3>2. QED BY <1>18, <2>1, <2>3, <3>1 DEF PoolInv
  <2>4. QED BY <2>2, <2>3
<1>31. QED
  <2>1. \A c \in Buffers : PlaceIsRight(c)' BY <1>27
  <2>2. \A c, d \in Buffers : c # d => SpansApart(c, d)' BY <1>28
  <2>3. \A j \in ToSet(blocks)' : BlockIsExact(j)' BY <1>29
  <2>4. IsInjective(blocks)' BY <1>24
  <2>5. QED BY <1>26, <1>30, <2>1, <2>2, <2>3, <2>4 DEF PoolInv

\* A span that is held is not empty, lies in its block and keeps the block in use.
LEMMA SpanInBlock ==
  ASSUME PoolInv, NEW b \in Buffers, stage[b] \notin {"none", "created"}
  PROVE  LET i == place[b].block
         IN  /\ i \in ToSet(blocks) /\ i \in BlockIds /\ block[i] \in MemoryBlocks
             /\ place[b].offset \in Nat /\ place[b].bytes \in Nat \ {0}
             /\ End(place[b]) <= block[i].bytes /\ block[i].used > 0
<1> DEFINE i == place[b].block
           r == req[b]
           at == place[b].offset
           n == place[b].bytes
           R == Reserved(i)
           limit == block[i].bytes
<1>1. /\ blocks \in Seq(BlockIds) /\ block \in [BlockIds -> MemoryBlocks] /\ req \in [Buffers -> Requests]
      /\ place \in [Buffers -> Places]
  BY DEF PoolInv, PoolTyped
<1>2. i \in ToSet(blocks) /\ r \in Requests /\ Eligible(r) # {} /\ n = SpanBytes(r) /\ at \in Nat
  BY <1>1 DEF PoolInv, PlaceIsRight, Places
<1>3. n \in Nat \ {0}
  <2> HIDE DEF r, n
  <2>1. QED BY <1>2, SizesFit
<1>4. i \in BlockIds /\ block[i] \in MemoryBlocks /\ limit \in Nat
  <2>1. ToSet(blocks) \subseteq BlockIds BY <1>1 DEF ToSet
  <2>2. QED BY <1>1, <1>2, <2>1 DEF MemoryBlocks
<1>5. block[i].used = Cardinality(R) /\ R \subseteq 0 .. limit - 1 BY <1>2 DEF PoolInv, BlockIsExact
<1>6. at \in R /\ at + n - 1 \in R
  <2>1. b \in Holders(i) BY DEF Holders
  <2>2. at \in Bytes(place[b]) /\ at + n - 1 \in Bytes(place[b]) BY <1>2, <1>3 DEF Bytes, End
  <2>3. QED BY <2>1, <2>2 DEF Reserved
<1>7. at + n <= limit
  <2>1. at + n - 1 \in 0 .. limit - 1 BY <1>5, <1>6
  <2>2. QED BY <1>2, <1>3, <1>4, <2>1
<1>8. Cardinality(R) \in Nat /\ Cardinality(R) # 0
  <2> HIDE DEF R, limit
  <2>1. IsFiniteSet(R)
    <3>1. IsFiniteSet(0 .. limit - 1) BY <1>4, FS_Interval
    <3>2. QED BY <1>5, <3>1, FS_Subset
  <2>2. QED BY <1>6, <2>1, FS_CardinalityType, FS_EmptySet
<1>9. QED BY <1>2, <1>3, <1>4, <1>5, <1>7, <1>8 DEF End

\* Trimming erases blocks that nobody holds a span of.
LEMMA TrimKeeps == ASSUME PoolInv, Trim PROVE PoolInv'
<1> DEFINE kept == {i \in BlockIds : block[i].used # 0}
<1>1. /\ blocks \in Seq(BlockIds) /\ block \in [BlockIds -> MemoryBlocks] /\ IsInjective(blocks)
      /\ stage \in [Buffers -> {"none", "created", "reserved", "live", "releasing"}]
      /\ req \in [Buffers -> Requests] /\ place \in [Buffers -> Places]
  BY DEF PoolInv, PoolTyped
<1>2. /\ blocks' = Remaining(kept) /\ stage' = stage /\ req' = req /\ place' = place
      /\ block' = [i \in BlockIds |-> IF block[i].used = 0 THEN NoBlock ELSE block[i]]
  BY DEF Trim
<1>3. \A i \in BlockIds : block'[i] = IF block[i].used = 0 THEN NoBlock ELSE block[i] BY <1>2
<1>4. blocks' \in Seq(BlockIds) /\ IsInjective(blocks') /\ ToSet(blocks)' = ToSet(blocks) \cap kept
  <2>1. /\ Remaining(kept) \in Seq(BlockIds) /\ IsInjective(Remaining(kept))
        /\ ToSet(Remaining(kept)) = ToSet(blocks) \cap kept
    <3> HIDE DEF kept
    <3>1. QED BY <1>1, RemainingBlocks
  <2>2. ToSet(blocks)' = ToSet(Remaining(kept)) BY <1>2
  <2>3. QED BY <1>2, <2>1, <2>2
<1>5. \A j : Reserved(j)' = Reserved(j) BY <1>2 DEF Reserved, Holders
<1>6. PoolTyped'
  <2>1. NoBlock \in MemoryBlocks BY DEF NoBlock, MemoryBlocks
  <2>2. \A i \in BlockIds : (IF block[i].used = 0 THEN NoBlock ELSE block[i]) \in MemoryBlocks
    BY <1>1, <2>1
  <2>3. block' \in [BlockIds -> MemoryBlocks] BY <1>2, <2>2
  <2>4. QED BY <1>1, <1>2, <1>4, <2>3 DEF PoolTyped
<1>7. ASSUME NEW c \in Buffers PROVE PlaceIsRight(c)'
  <2>1. PlaceIsRight(c) BY DEF PoolInv
  <2>2. CASE stage[c] \in {"none", "created"} BY <1>2, <2>1, <2>2 DEF PlaceIsRight
  <2>3. CASE stage[c] \notin {"none", "created"}
    <3>1. /\ place[c].block \in ToSet(blocks) /\ place[c].block \in BlockIds
          /\ block[place[c].block].used > 0 /\ block[place[c].block] \in MemoryBlocks
      BY <2>3, SpanInBlock
    <3>2. block[place[c].block].used # 0 BY <3>1 DEF MemoryBlocks
    <3>3. place[c].block \in kept BY <3>1, <3>2
    <3>4. place[c].block \in ToSet(blocks)' BY <1>4, <3>1, <3>3
    <3>5. QED BY <1>2, <2>1, <2>3, <3>4 DEF PlaceIsRight
  <2>4. QED BY <2>2, <2>3
<1>8. \A c, d \in Buffers : c # d => SpansApart(c, d)' BY <1>2 DEF PoolInv, SpansApart
<1>9. ASSUME NEW j \in ToSet(blocks)' PROVE BlockIsExact(j)'
  <2>1. j \in ToSet(blocks) /\ j \in BlockIds /\ block[j].used # 0 BY <1>4, <1>9
  <2>2. BlockIsExact(j) /\ block'[j] = block[j] /\ Reserved(j)' = Reserved(j)
    BY <1>3, <1>5, <2>1 DEF PoolInv
  <2>3. QED BY <2>2 DEF BlockIsExact
<1>10. ASSUME NEW j \in BlockIds, j \notin ToSet(blocks)' PROVE block'[j] = NoBlock
  <2>1. CASE block[j].used = 0 BY <1>3, <2>1
  <2>2. CASE block[j].used # 0
    <3>1. j \notin ToSet(blocks) BY <1>4, <1>10, <2>2
    <3>2. QED BY <1>3, <3>1 DEF PoolInv
  <2>3. QED BY <2>1, <2>2
<1>11. QED
  <2>1. \A c \in Buffers : PlaceIsRight(c)' BY <1>7
  <2>2. \A j \in ToSet(blocks)' : BlockIsExact(j)' BY <1>9
  <2>3. IsInjective(blocks)' BY <1>4
  <2>4. \A j \in BlockIds \ ToSet(blocks)' : block'[j] = NoBlock BY <1>10
  <2>5. QED BY <1>6, <1>8, <2>1, <2>2, <2>3, <2>4 DEF PoolInv

\* Every step keeps the pool sound.
LEMMA PoolIsKept == PoolInv /\ [PoolNext]_poolVars => PoolInv'
<1>1. SUFFICES ASSUME PoolInv, [PoolNext]_poolVars PROVE PoolInv' OBVIOUS
<1>2. CASE UNCHANGED poolVars
  <2>1. UNCHANGED <<blocks, block, place>> /\ stage' = stage /\ req' = req BY <1>2 DEF poolVars
  <2>2. /\ stage' \in [Buffers -> {"none", "created", "reserved", "live", "releasing"}]
        /\ req' \in [Buffers -> Requests]
    BY <1>1, <2>1 DEF PoolInv, PoolTyped
  <2>3. \A b \in Buffers : PlaceIsRight(b)' BY <1>1, <2>1 DEF PoolInv, PlaceIsRight
  <2>4. QED BY <1>1, <2>1, <2>2, <2>3, SpansStay
<1>3. ASSUME NEW b \in Buffers, NEW r \in Requests, Create(b, r) PROVE PoolInv'
  BY <1>1, <1>3, CreateKeeps
<1>4. ASSUME NEW b \in Buffers, AllocationFails(b) \/ SplitFails(b) PROVE PoolInv'
  <2>1. stage[b] = "created" /\ Abandon(b) BY <1>4 DEF AllocationFails, SplitFails
  <2>2. QED BY <1>1, <2>1, AbandonKeeps
<1>5. ASSUME NEW b \in Buffers, ReserveInBlock(b) PROVE PoolInv' BY <1>1, <1>5, ReserveInBlockKeeps
<1>6. ASSUME NEW b \in Buffers, ReserveNewBlock(b) PROVE PoolInv'
  BY <1>1, <1>6, ReserveNewBlockKeeps
<1>7. ASSUME NEW b \in Buffers, Bind(b) \/ Destroy(b) PROVE PoolInv' BY <1>1, <1>7, BoundOnesKeep
<1>8. ASSUME NEW b \in Buffers, Release(b) PROVE PoolInv' BY <1>1, <1>8, ReleaseKeeps
<1>9. CASE Trim BY <1>1, <1>9, TrimKeeps
<1>10. QED BY <1>1, <1>2, <1>3, <1>4, <1>5, <1>6, <1>7, <1>8, <1>9, Zenon DEF PoolNext

-----------------------------------------------------------------------------
(* What the invariant says.                                                *)

\* No two spans share a byte, and each is aligned and inside its block.
LEMMA SpansAreDisjoint == ASSUME PoolInv PROVE SpansDisjoint
<1>1. SUFFICES ASSUME NEW b \in Buffers, place[b] # NoPlace
      PROVE  /\ place[b].offset % req[b].alignment = 0
             /\ End(place[b]) <= block[place[b].block].bytes
             /\ \A c \in Holders(place[b].block) \ {b} : Bytes(place[b]) \cap Bytes(place[c]) = {}
  BY DEF SpansDisjoint
<1>2. stage[b] \notin {"none", "created"} BY <1>1 DEF PoolInv, PlaceIsRight
<1>3. End(place[b]) <= block[place[b].block].bytes /\ place[b].offset \in Nat BY <1>2, SpanInBlock
<1>4. place[b].offset % req[b].alignment = 0
  <2> DEFINE r == req[b]
             at == place[b].offset
  <2>1. r \in Requests BY DEF PoolInv, PoolTyped
  <2>2. Eligible(r) # {} /\ at % SpanAlignment(r) = 0 /\ at \in Nat
    BY <1>2, <1>3 DEF PoolInv, PlaceIsRight
  <2> HIDE DEF r, at
  <2>3. \A v \in Nat : v % SpanAlignment(r) = 0 => v % r.alignment = 0 BY <2>1, <2>2, SizesFit
  <2>4. at % r.alignment = 0 BY <2>2, <2>3, Zenon
  <2>5. QED BY <2>4 DEF r, at
<1>5. \A c \in Holders(place[b].block) \ {b} : Bytes(place[b]) \cap Bytes(place[c]) = {}
  BY DEF PoolInv, SpansApart, Holders
<1>6. QED BY <1>3, <1>4, <1>5

\* A part of a buffer, rounded to whole atoms, stays inside the buffer.
LEMMA FlushesStayInside == ASSUME PoolInv PROVE FlushStaysInside
<1>1. SUFFICES ASSUME NEW b \in Buffers, stage[b] = "live", HostVisible(ChosenType(req[b])),
                      NEW from \in 0 .. (req[b].size - 1), NEW n \in 1 .. (req[b].size - from)
      PROVE  LET range == MappedRange(b, from, n)
             IN /\ place[b].offset <= range.offset /\ End(range) <= End(place[b])
                /\ range.offset <= place[b].offset + from /\ place[b].offset + from + n <= End(range)
                /\ range.offset % Atom = 0 /\ range.bytes % Atom = 0
  BY DEF FlushStaysInside
<1> DEFINE r == req[b]
           at == place[b].offset
           bytes == place[b].bytes
           limit == End(place[b])
           begin == AlignDown(at + from, Atom)
           up == AlignUp(at + from + n, Atom)
           end == Min({limit, up})
           range == MappedRange(b, from, n)
<1>2. /\ r \in Requests /\ Eligible(r) # {} /\ at \in Nat /\ bytes \in Nat \ {0} /\ limit = at + bytes
      /\ bytes = SpanBytes(r) /\ at % SpanAlignment(r) = 0 /\ HostVisible(ChosenType(r))
  <2>1. r \in Requests BY DEF PoolInv, PoolTyped
  <2>2. Eligible(r) # {} /\ at % SpanAlignment(r) = 0 /\ bytes = SpanBytes(r)
    BY <1>1 DEF PoolInv, PlaceIsRight
  <2>3. at \in Nat /\ bytes \in Nat \ {0} BY <1>1, SpanInBlock
  <2>4. QED BY <1>1, <2>1, <2>2, <2>3 DEF End
<1>3. from \in 0 .. r.size - 1 /\ n \in 1 .. r.size - from OBVIOUS
<1>4. range.offset = begin /\ End(range) = begin + (end - begin) /\ range.bytes = end - begin
  BY DEF MappedRange, Span, End
<1>5. Atom \in Nat \ {0} BY PoolAssumption
<1> HIDE DEF r, at, bytes, range, begin, up, end
<1>6. /\ r.size \in Nat /\ r.size <= bytes /\ bytes % Atom = 0
      /\ \A v \in Nat : v % SpanAlignment(r) = 0 => v % Atom = 0
  BY <1>2, SizesFit
<1>7. at % Atom = 0 BY <1>2, <1>6, Zenon
<1>8. from \in Nat /\ n \in Nat /\ n # 0 /\ at + from \in Nat /\ at + from + n \in Nat /\ at <= at + from
      /\ at + from + n <= at + bytes
  BY <1>2, <1>3, <1>6
<1>9. begin \in Nat /\ at <= begin /\ begin <= at + from /\ begin % Atom = 0
  BY <1>2, <1>5, <1>7, <1>8, AlignsDown DEF begin
<1>10. up \in Nat /\ at + from + n <= up /\ up % Atom = 0 BY <1>5, <1>8, AlignsUp DEF up
<1>11. limit \in Nat /\ limit % Atom = 0 /\ at + from + n <= limit
  <2>1. (at + bytes) % Atom = 0 BY <1>2, <1>5, <1>6, <1>7, MultiplesAdd
  <2>2. at + bytes \in Nat BY <1>2
  <2>3. QED BY <1>2, <1>8, <2>1, <2>2, Zenon
<1> HIDE DEF limit
<1>12. end \in {limit, up} /\ end <= limit BY <1>10, <1>11, OfTwo DEF end
<1>13. end \in Nat /\ end % Atom = 0 /\ at + from + n <= end BY <1>10, <1>11, <1>12
<1>14. begin <= end
  <2>1. begin <= at + from + n BY <1>2, <1>8, <1>9
  <2>2. \A u, v, w \in Nat : u <= v /\ v <= w => u <= w OBVIOUS
  <2>3. QED BY <1>8, <1>9, <1>13, <2>1, <2>2, Zenon
<1>15. (end - begin) % Atom = 0 BY <1>5, <1>9, <1>13, <1>14, MultiplesDiffer
<1>16. End(range) = end
  <2>1. \A u, v \in Nat : v + (u - v) = u OBVIOUS
  <2>2. QED BY <1>4, <1>9, <1>13, <2>1, Zenon
<1>17. at <= range.offset /\ End(range) <= limit /\ range.offset <= at + from
       /\ at + from + n <= End(range) /\ range.offset % Atom = 0 /\ range.bytes % Atom = 0
  BY <1>4, <1>9, <1>12, <1>13, <1>15, <1>16, Zenon
<1>18. QED BY <1>17 DEF at, range, limit

\* The free lists are exact and no dead block is kept.
LEMMA BlocksAreExact == ASSUME PoolInv PROVE FreeListExact /\ NoDeadBlocks
<1>1. blocks \in Seq(BlockIds) BY DEF PoolInv, PoolTyped
<1>2. \A k \in DOMAIN blocks : BlockIsExact(blocks[k]) BY <1>1 DEF PoolInv, ToSet
<1>3. FreeListExact BY <1>2 DEF FreeListExact, BlockIsExact, Sorted
<1>4. NoDeadBlocks BY <1>2 DEF NoDeadBlocks, BlockIsExact
<1>5. QED BY <1>3, <1>4

\* The parts of the pool are well formed.
LEMMA InvariantIsTyped == ASSUME PoolInv PROVE PoolTypeOK
<1>1. /\ blocks \in Seq(BlockIds) /\ block \in [BlockIds -> MemoryBlocks] /\ IsInjective(blocks)
      /\ stage \in [Buffers -> {"none", "created", "reserved", "live", "releasing"}]
      /\ req \in [Buffers -> Requests] /\ place \in [Buffers -> Places]
  BY DEF PoolInv, PoolTyped
<1>2. ASSUME NEW i \in BlockIds
      PROVE  /\ block[i].bytes \in Nat /\ block[i].type \in DOMAIN MemoryTypes \cup {0}
             /\ block[i].used \in 0 .. block[i].bytes
             /\ \A k \in DOMAIN block[i].free :
                  /\ block[i].free[k].offset \in Nat /\ block[i].free[k].bytes \in Nat \ {0}
                  /\ End(block[i].free[k]) <= block[i].bytes
  <2>1. CASE i \in ToSet(blocks)
    <3> DEFINE x == block[i]
               R == Reserved(i)
               limit == x.bytes
    <3>1. limit \in Nat /\ x.type \in DOMAIN MemoryTypes \cup {0} /\ x.free \in Seq(Ranges)
      BY <1>1 DEF MemoryBlocks
    <3>2. x.used = Cardinality(R) /\ R \subseteq 0 .. limit - 1 /\ Within(x.free, limit)
      BY <2>1 DEF PoolInv, BlockIsExact
    <3>3. Cardinality(R) \in Nat /\ Cardinality(R) <= limit
      <4> HIDE DEF R, limit
      <4>1. R \cap (0 .. 0 + 0 - 1) = {} /\ 0 + 0 <= limit BY <3>1
      <4>2. QED BY <3>1, <3>2, <4>1, ReservingCounts
    <3>4. \A k \in DOMAIN x.free : x.free[k] \in Ranges /\ End(x.free[k]) <= limit
      BY <3>1, <3>2 DEF Within, ToSet
    <3>5. QED BY <3>1, <3>2, <3>3, <3>4 DEF Ranges
  <2>2. CASE i \notin ToSet(blocks)
    <3>1. block[i] = NoBlock BY <2>2 DEF PoolInv
    <3>2. QED BY <3>1 DEF NoBlock
  <2>3. QED BY <2>1, <2>2
<1>3. ASSUME NEW b \in Buffers
      PROVE  IF stage[b] \in {"none", "created"} THEN place[b] = NoPlace
             ELSE place[b].block \in ToSet(blocks) /\ place[b].offset \in Nat /\ place[b].bytes \in Nat \ {0}
  <2>1. CASE stage[b] \in {"none", "created"} BY <2>1 DEF PoolInv, PlaceIsRight
  <2>2. CASE stage[b] \notin {"none", "created"} BY <2>2, SpanInBlock
  <2>3. QED BY <2>1, <2>2
<1>4. QED BY <1>1, <1>2, <1>3 DEF PoolTypeOK

-----------------------------------------------------------------------------
(* The theorems.                                                           *)

\* The invariant always holds.
LEMMA PoolInvariant == PoolSpec => []PoolInv
<1>1. QED BY PoolStarts, PoolIsKept, PTL DEF PoolSpec

\* Through any order of allocations, failures, releases and trims, no two buffers share a byte,
\* flushes stay inside their buffer, and the free list of every block is exact.
THEOREM PoolHolds == PoolSpec => []PoolIsSound
<1>1. PoolInv => PoolIsSound
  BY SpansAreDisjoint, FlushesStayInside, BlocksAreExact DEF PoolIsSound, BuffersStayApart, BlocksBalance
<1>2. QED BY <1>1, PoolInvariant, PTL

\* The pool's vector, its blocks and every buffer's span are well formed.
THEOREM PoolIsTyped == PoolSpec => []PoolTypeOK
<1>1. PoolInv => PoolTypeOK BY InvariantIsTyped
<1>2. QED BY <1>1, PoolInvariant, PTL

-----------------------------------------------------------------------------
(* Bounded sets of naturals have a greatest element, so Max is one.        *)

\* Max, of a set of naturals below a bound, is its greatest element.
LEMMA MaxIsGreatest ==
  ASSUME NEW n \in Nat, NEW S \in SUBSET (0 .. n), S # {}
  PROVE  Max(S) \in S /\ \A y \in S : y <= Max(S)
<1> DEFINE T == {n - s : s \in S}
<1>1. T \in SUBSET Nat OBVIOUS
<1>2. T # {}
  <2>1. PICK s \in S : TRUE OBVIOUS
  <2>2. n - s \in T OBVIOUS
  <2>3. QED BY <2>2
<1>3. PICK t \in T : \A u \in T : t <= u BY <1>1, <1>2, LeastNatural
<1>4. PICK x \in S : t = n - x BY <1>3
<1>5. \A y \in S : n - x <= n - y BY <1>3, <1>4
<1>6. \A y \in S : x >= y BY <1>5
<1>7. QED BY <1>6 DEF Max

-----------------------------------------------------------------------------
(* The inductive invariant of the fingerprint cache.                       *)

Digests == Nat \X Nat
Files == [parts : Digests, stamp : 0 .. MaxWrites]
Entries == [stamp : Nat \cup {Missing}, digest : Digests \cup {Missing}]
Calls == [at : {"idle", "waiting", "hashing", "returned", "failed"}, path : Paths \cup {Missing},
          stamp : Nat \cup {Missing}, read : Seq(Nat), result : Digests \cup {Missing}]

FingerprintTypes ==
  /\ vae \in [Paths -> Files]
  /\ digests \in [Paths -> Entries]
  /\ caller \in [Callers -> Calls]
  /\ seen \in [Callers -> SUBSET Digests]

\* Who hashes, of a path that has one.
Busy == {t \in Callers : caller[t].at = "hashing"}
Filled == {p \in Paths : digests[p] # NoEntry}

\* A call under way has seen what its file holds.
CallSees(t) ==
  caller[t].at # "idle" => caller[t].path \in Paths /\ Content(caller[t].path) \in seen[t]

\* What a thread has hashed is what the file holds, unless the file has had a later stamp since.
HashIsOfStamp(t) ==
  caller[t].at = "hashing" =>
    /\ Len(caller[t].read) <= 2
    /\ caller[t].stamp \in Nat /\ caller[t].stamp <= vae[caller[t].path].stamp
    /\ caller[t].stamp = vae[caller[t].path].stamp =>
         \A k \in 1 .. Len(caller[t].read) : caller[t].read[k] = Content(caller[t].path)[k]

\* An entry is of the stamp it has, which is not ahead of the file's.
EntryIsOfStamp(p) ==
  digests[p] # NoEntry =>
    /\ digests[p].stamp \in Nat /\ digests[p].stamp <= vae[p].stamp
    /\ digests[p].stamp = vae[p].stamp => digests[p].digest = Content(p)

FingerprintInv ==
  /\ FingerprintTypes
  /\ \A t \in Callers : CallSees(t) /\ HashIsOfStamp(t)
  /\ \A t \in Callers : caller[t].at = "returned" => caller[t].result \in seen[t]
  /\ \A t \in Callers : caller[t].at = "waiting" => caller[t].read = <<>>
  /\ \A p \in Paths : EntryIsOfStamp(p)

\* A write gives its path a stamp that is later than every stamp, and no other path a new one.
LEMMA WriteMakesLater ==
  ASSUME FingerprintTypes, NEW p \in Paths, Write(p)
  PROVE  /\ vae' \in [Paths -> Files]
         /\ vae'[p].stamp > vae[p].stamp
         /\ \A q \in Paths \ {p} : vae'[q] = vae[q]
         /\ vae'[p].parts \in Digests
<1> DEFINE S == {vae[q].stamp : q \in Paths}
<1>1. S \in SUBSET (0 .. MaxWrites) /\ vae[p].stamp \in S BY DEF FingerprintTypes, Files
<1>2. Clock \in 0 .. MaxWrites /\ vae[p].stamp <= Clock
  <2>1. MaxWrites \in Nat BY FingerprintAssumption
  <2>2. S # {} BY <1>1
  <2>3. QED BY <1>1, <2>1, <2>2, MaxIsGreatest DEF Clock
<1>3. PICK parts \in {<<Clock + 1, Clock + 1>>, [Content(p) EXCEPT ![1] = Clock + 1],
                      [Content(p) EXCEPT ![2] = Clock + 1]} :
        vae' = [vae EXCEPT ![p] = [parts |-> parts, stamp |-> Clock + 1]]
  BY DEF Write
<1>4. Clock + 1 \in 0 .. MaxWrites BY <1>2, FingerprintAssumption DEF Write
<1>5. parts \in Digests BY <1>2, <1>3, <1>4 DEF FingerprintTypes, Files, Digests, Content
<1>6. vae'[p] = [parts |-> parts, stamp |-> Clock + 1] /\ \A q \in Paths \ {p} : vae'[q] = vae[q]
  BY <1>3 DEF FingerprintTypes
<1>7. QED BY <1>2, <1>3, <1>4, <1>5, <1>6 DEF FingerprintTypes, Files

-----------------------------------------------------------------------------
(* The invariant holds at first, and each step keeps it.                   *)

LEMMA FingerprintInitInv == FingerprintInit => FingerprintInv
<1> SUFFICES ASSUME FingerprintInit PROVE FingerprintInv OBVIOUS
<1>1. FingerprintTypes
  BY FingerprintAssumption DEF FingerprintInit, FingerprintTypes, Files, Digests, Entries, Calls, NoEntry, NoCall
<1>2. \A t \in Callers : CallSees(t) /\ HashIsOfStamp(t)
  BY DEF FingerprintInit, CallSees, HashIsOfStamp, NoCall
<1>3. \A t \in Callers : caller[t].at = "idle" /\ caller[t].read = <<>>
  BY DEF FingerprintInit, NoCall
<1>4. \A p \in Paths : EntryIsOfStamp(p) BY DEF FingerprintInit, EntryIsOfStamp
<1>5. QED BY <1>1, <1>2, <1>3, <1>4 DEF FingerprintInv

\* A write makes what was hashed and kept of its path stale, and the callers of the path see it.
LEMMA WriteKeepsInv ==
  ASSUME FingerprintInv, NEW p \in Paths, Write(p)
  PROVE  FingerprintInv'
<1>1. /\ vae' \in [Paths -> Files]
      /\ vae'[p].stamp > vae[p].stamp
      /\ \A q \in Paths \ {p} : vae'[q] = vae[q]
      /\ vae'[p].parts \in Digests
  BY WriteMakesLater DEF FingerprintInv
<1>2. UNCHANGED <<digests, caller>> BY DEF Write
<1>3. seen' = [t \in Callers |-> IF caller[t].path = p THEN seen[t] \cup {vae'[p].parts} ELSE seen[t]]
  <2>1. PICK parts : /\ vae' = [vae EXCEPT ![p] = [parts |-> parts, stamp |-> Clock + 1]]
                     /\ seen' = [t \in Callers |-> IF caller[t].path = p THEN seen[t] \cup {parts} ELSE seen[t]]
    BY DEF Write
  <2>2. vae'[p].parts = parts BY <2>1 DEF FingerprintInv, FingerprintTypes
  <2>3. QED BY <2>1, <2>2
<1>4. FingerprintTypes' BY <1>1, <1>2, <1>3 DEF FingerprintInv, FingerprintTypes
<1>5. \A t \in Callers : seen[t] \subseteq seen'[t] BY <1>3 DEF FingerprintInv, FingerprintTypes
<1>6. ASSUME NEW t \in Callers PROVE CallSees(t)'
  BY <1>1, <1>2, <1>3 DEF FingerprintInv, FingerprintTypes, CallSees, Content
<1>7. ASSUME NEW t \in Callers PROVE HashIsOfStamp(t)'
  <2>1. SUFFICES ASSUME caller[t].at = "hashing" PROVE HashIsOfStamp(t)' BY <1>2 DEF HashIsOfStamp
  <2>2. caller[t].path \in Paths BY <2>1 DEF FingerprintInv, CallSees
  <2>3. vae[caller[t].path].stamp \in Nat /\ vae'[caller[t].path].stamp \in Nat
    BY <1>1, <2>2 DEF FingerprintInv, FingerprintTypes, Files
  <2>4. QED BY <1>1, <1>2, <2>1, <2>2, <2>3 DEF FingerprintInv, HashIsOfStamp, Content
<1>8. ASSUME NEW q \in Paths PROVE EntryIsOfStamp(q)'
  <2>1. vae[q].stamp \in Nat /\ vae'[q].stamp \in Nat
    BY <1>1 DEF FingerprintInv, FingerprintTypes, Files
  <2>2. QED BY <1>1, <1>2, <2>1 DEF FingerprintInv, EntryIsOfStamp, Content, NoEntry
<1>9. QED BY <1>2, <1>4, <1>5, <1>6, <1>7, <1>8 DEF FingerprintInv

\* A step that changes only the call of one thread, and no file or entry.
LEMMA CallStepKeepsInv ==
  ASSUME FingerprintInv, NEW t \in Callers, NEW c \in Calls, NEW s \in SUBSET Digests,
         caller' = [caller EXCEPT ![t] = c], seen' = [seen EXCEPT ![t] = s], UNCHANGED <<vae, digests>>,
         c.at # "idle" => c.path \in Paths /\ Content(c.path) \in s,
         c.at = "hashing" =>
           /\ Len(c.read) <= 2
           /\ c.stamp \in Nat /\ c.stamp <= vae[c.path].stamp
           /\ c.stamp = vae[c.path].stamp => \A k \in 1 .. Len(c.read) : c.read[k] = Content(c.path)[k],
         c.at = "returned" => c.result \in s,
         c.at = "waiting" => c.read = <<>>
  PROVE  FingerprintInv'
<1>1. caller'[t] = c /\ seen'[t] = s BY DEF FingerprintInv, FingerprintTypes
<1>2. \A u \in Callers \ {t} : caller'[u] = caller[u] /\ seen'[u] = seen[u]
  BY DEF FingerprintInv, FingerprintTypes
<1>3. FingerprintTypes' BY DEF FingerprintInv, FingerprintTypes
<1>4. \A u \in Callers : CallSees(u)' BY <1>1, <1>2 DEF FingerprintInv, CallSees, Content
<1>5. \A u \in Callers : HashIsOfStamp(u)' BY <1>1, <1>2 DEF FingerprintInv, HashIsOfStamp, Content
<1>6. \A u \in Callers : /\ caller'[u].at = "returned" => caller'[u].result \in seen'[u]
                         /\ caller'[u].at = "waiting" => caller'[u].read = <<>>
  BY <1>1, <1>2 DEF FingerprintInv
<1>7. \A p \in Paths : EntryIsOfStamp(p)' BY DEF FingerprintInv, EntryIsOfStamp, Content
<1>8. QED BY <1>3, <1>4, <1>5, <1>6, <1>7 DEF FingerprintInv

\* A fresh call, and one that has failed.
LEMMA FreshCall ==
  ASSUME NEW p \in Paths, NEW step \in {"waiting", "failed"}
  PROVE  /\ [NoCall EXCEPT !.at = step, !.path = p] \in Calls
         /\ [NoCall EXCEPT !.at = step, !.path = p].at = step
         /\ [NoCall EXCEPT !.at = step, !.path = p].path = p
         /\ [NoCall EXCEPT !.at = step, !.path = p].read = <<>>
<1>1. <<>> \in Seq(Nat) OBVIOUS
<1>2. [NoCall EXCEPT !.at = step, !.path = p]
        = [at |-> step, path |-> p, stamp |-> Missing, read |-> <<>>, result |-> Missing]
  <2>1. [NoCall EXCEPT !.at = step]
          = [at |-> step, path |-> Missing, stamp |-> Missing, read |-> <<>>, result |-> Missing]
    BY DEF NoCall
  <2>2. [[at |-> step, path |-> Missing, stamp |-> Missing, read |-> <<>>, result |-> Missing] EXCEPT !.path = p]
          = [at |-> step, path |-> p, stamp |-> Missing, read |-> <<>>, result |-> Missing]
    OBVIOUS
  <2>3. QED BY <2>1, <2>2
<1>3. [at |-> step, path |-> p, stamp |-> Missing, read |-> <<>>, result |-> Missing] \in Calls
  BY <1>1 DEF Calls
<1>4. QED BY <1>2, <1>3

LEMMA CallKeepsInv ==
  ASSUME FingerprintInv, NEW t \in Callers, NEW p \in Paths, Call(t, p)
  PROVE  FingerprintInv'
<1> DEFINE c == [NoCall EXCEPT !.at = "waiting", !.path = p]
<1>1. c \in Calls /\ c.at = "waiting" /\ c.path = p /\ c.read = <<>> BY FreshCall
<1>2. Content(p) \in Digests BY DEF FingerprintInv, FingerprintTypes, Files, Content
<1>3. caller' = [caller EXCEPT ![t] = c] /\ seen' = [seen EXCEPT ![t] = {Content(p)}] /\ UNCHANGED <<vae, digests>>
  BY DEF Call
<1> HIDE DEF c
<1>4. QED BY <1>1, <1>2, <1>3, CallStepKeepsInv

LEMMA LookupKeepsInv ==
  ASSUME FingerprintInv, NEW t \in Callers, Lookup(t)
  PROVE  FingerprintInv'
<1> DEFINE p == caller[t].path
<1>1. p \in Paths /\ Content(p) \in seen[t] /\ caller[t] \in Calls /\ caller[t].read = <<>>
  BY DEF FingerprintInv, FingerprintTypes, CallSees, Lookup
<1>2. seen[t] \in SUBSET Digests /\ seen' = [seen EXCEPT ![t] = seen[t]] /\ UNCHANGED vae
  BY DEF FingerprintInv, FingerprintTypes, Lookup
<1>3. vae[p].stamp \in Nat BY <1>1 DEF FingerprintInv, FingerprintTypes, Files
<1>4. CASE Hits(p)
  <2> DEFINE c == [caller[t] EXCEPT !.at = "returned", !.result = digests[p].digest]
  <2>1. digests[p].digest = Content(p) BY <1>1, <1>4 DEF FingerprintInv, EntryIsOfStamp, Hits
  <2>2. Content(p) \in Digests BY <1>1 DEF FingerprintInv, FingerprintTypes, Files, Content
  <2>3. c \in Calls /\ c.at = "returned" /\ c.path = p /\ c.result = Content(p)
    BY <1>1, <2>1, <2>2 DEF Calls
  <2>4. caller' = [caller EXCEPT ![t] = c] /\ UNCHANGED digests
    BY <1>4 DEF Lookup, FingerprintInv, FingerprintTypes
  <2> HIDE DEF c
  <2>5. QED BY <1>1, <1>2, <2>3, <2>4, CallStepKeepsInv
<1>5. CASE ~Hits(p)
  <2> DEFINE c == [caller[t] EXCEPT !.at = "hashing", !.stamp = vae[p].stamp]
  <2>1. c \in Calls /\ c.at = "hashing" /\ c.path = p /\ c.stamp = vae[p].stamp /\ c.read = <<>>
    BY <1>1, <1>3 DEF Calls
  <2>2. caller' = [caller EXCEPT ![t] = c] /\ digests' = [digests EXCEPT ![p] = NoEntry]
    BY <1>5 DEF Lookup, FingerprintInv, FingerprintTypes
  <2>3. NoEntry \in Entries BY DEF Entries, NoEntry
  <2> HIDE DEF c
  <2>4. FingerprintTypes' BY <1>2, <2>1, <2>2, <2>3 DEF FingerprintInv, FingerprintTypes
  <2>5. \A u \in Callers : CallSees(u)'
    BY <1>1, <1>2, <2>1, <2>2 DEF FingerprintInv, FingerprintTypes, CallSees, Content
  <2>6. caller'[t] = c /\ \A u \in Callers \ {t} : caller'[u] = caller[u]
    BY <2>2 DEF FingerprintInv, FingerprintTypes
  <2>7. \A u \in Callers : HashIsOfStamp(u)'
    BY <1>2, <1>3, <2>1, <2>6 DEF FingerprintInv, HashIsOfStamp, Content
  <2>8. \A u \in Callers : /\ caller'[u].at = "returned" => caller'[u].result \in seen'[u]
                           /\ caller'[u].at = "waiting" => caller'[u].read = <<>>
    BY <1>2, <2>1, <2>6 DEF FingerprintInv
  <2>9. \A q \in Paths : EntryIsOfStamp(q)'
    BY <1>2, <2>2 DEF FingerprintInv, FingerprintTypes, EntryIsOfStamp, Content
  <2>10. QED BY <2>4, <2>5, <2>7, <2>8, <2>9 DEF FingerprintInv
<1>6. QED BY <1>4, <1>5

LEMMA NoneOrOne ==
  ASSUME NEW r \in Seq(Nat), Len(r) < 2
  PROVE  Len(r) \in 0 .. 1
<1>1. \A n \in Nat : n < 2 => n \in 0 .. 1 OBVIOUS
<1>2. Len(r) \in Nat OBVIOUS
<1>3. QED BY <1>1, <1>2

LEMMA PartOfDigest ==
  ASSUME NEW d \in Digests, NEW n \in 0 .. 1
  PROVE  d[n + 1] \in Nat
<1>1. d[1] \in Nat /\ d[2] \in Nat BY DEF Digests
<1>2. CASE n = 0 BY <1>1, <1>2
<1>3. CASE n = 1 BY <1>1, <1>3
<1>4. QED BY <1>2, <1>3

\* A part read is the part of the file that has the stamp, or the stamp has passed.
LEMMA HashPartKeepsInv ==
  ASSUME FingerprintInv, NEW t \in Callers, HashPart(t)
  PROVE  FingerprintInv'
<1> DEFINE p == caller[t].path
           r == caller[t].read
           c == [caller[t] EXCEPT !.read = Append(r, Content(p)[Len(r) + 1])]
<1>1. p \in Paths /\ Content(p) \in seen[t] /\ caller[t] \in Calls /\ caller[t].at = "hashing"
  BY DEF FingerprintInv, FingerprintTypes, CallSees, HashPart
<1>2. r \in Seq(Nat) /\ Len(r) \in 0 .. 1
  <2>1. r \in Seq(Nat) BY <1>1 DEF Calls
  <2>2. Len(r) < 2 BY DEF HashPart
  <2>3. QED BY <2>1, <2>2, NoneOrOne
<1>3. Content(p) \in Digests BY <1>1 DEF FingerprintInv, FingerprintTypes, Files, Content
<1>4. Content(p)[Len(r) + 1] \in Nat BY <1>2, <1>3, PartOfDigest
<1>5. Append(r, Content(p)[Len(r) + 1]) \in Seq(Nat) BY <1>2, <1>4
<1>6. c \in Calls /\ c.at = "hashing" /\ c.path = p /\ c.stamp = caller[t].stamp
      /\ c.read = Append(r, Content(p)[Len(r) + 1])
  BY <1>1, <1>5 DEF Calls
<1>7. /\ caller[t].stamp \in Nat /\ caller[t].stamp <= vae[p].stamp
      /\ caller[t].stamp = vae[p].stamp => \A k \in 1 .. Len(r) : r[k] = Content(p)[k]
  BY <1>1 DEF FingerprintInv, HashIsOfStamp
<1>8. Len(c.read) <= 2
  <2> HIDE DEF r, c
  <2>1. QED BY <1>2, <1>4, <1>6
<1>9. c.stamp = vae[p].stamp => \A k \in 1 .. Len(c.read) : c.read[k] = Content(p)[k]
  <2> HIDE DEF p, r, c
  <2>1. Len(c.read) = Len(r) + 1 /\ c.read[Len(r) + 1] = Content(p)[Len(r) + 1] BY <1>2, <1>4, <1>6
  <2>2. \A k \in 1 .. Len(r) : c.read[k] = r[k] BY <1>2, <1>4, <1>6
  <2>3. QED BY <1>2, <1>6, <1>7, <2>1, <2>2
<1>10. /\ caller' = [caller EXCEPT ![t] = c]
       /\ seen[t] \in SUBSET Digests /\ seen' = [seen EXCEPT ![t] = seen[t]] /\ UNCHANGED <<vae, digests>>
  BY DEF HashPart, FingerprintInv, FingerprintTypes
<1> HIDE DEF c
<1>11. QED BY <1>1, <1>6, <1>7, <1>8, <1>9, <1>10, CallStepKeepsInv

LEMMA FailsKeepsInv ==
  ASSUME FingerprintInv, NEW t \in Callers, caller[t].at = "hashing", caller' = Fails(t), UNCHANGED <<vae, digests, seen>>
  PROVE  FingerprintInv'
<1> DEFINE c == [NoCall EXCEPT !.at = "failed", !.path = caller[t].path]
<1>1. caller[t].path \in Paths /\ Content(caller[t].path) \in seen[t]
  BY DEF FingerprintInv, CallSees
<1>2. c \in Calls /\ c.at = "failed" /\ c.path = caller[t].path BY <1>1, FreshCall
<1>3. /\ caller' = [caller EXCEPT ![t] = c]
      /\ seen[t] \in SUBSET Digests /\ seen' = [seen EXCEPT ![t] = seen[t]]
  BY DEF Fails, FingerprintInv, FingerprintTypes
<1> HIDE DEF c
<1>4. QED BY <1>1, <1>2, <1>3, CallStepKeepsInv

\* A digest is kept only when the stamp is still the one it was hashed under.
LEMMA StoreKeepsInv ==
  ASSUME FingerprintInv, NEW t \in Callers, Store(t)
  PROVE  FingerprintInv'
<1> DEFINE p == caller[t].path
           r == caller[t].read
<1>1. p \in Paths /\ Content(p) \in seen[t] /\ caller[t] \in Calls /\ caller[t].at = "hashing"
  BY DEF FingerprintInv, FingerprintTypes, CallSees, Store
<1>2. UNCHANGED <<vae, seen>> BY DEF Store
<1>3. CASE ~Still(t)
  <2>1. caller' = Fails(t) /\ UNCHANGED digests BY <1>3 DEF Store
  <2>2. QED BY <1>1, <1>2, <2>1, FailsKeepsInv
<1>4. CASE Still(t)
  <2> DEFINE c == [caller[t] EXCEPT !.at = "returned", !.result = r]
             e == [stamp |-> caller[t].stamp, digest |-> r]
  <2>1. r \in Seq(Nat) /\ Len(r) = 2 BY <1>1 DEF Store, Calls
  <2>2. Content(p) \in Digests BY <1>1 DEF FingerprintInv, FingerprintTypes, Files, Content
  <2>3. r[1] = Content(p)[1] /\ r[2] = Content(p)[2]
    BY <1>1, <1>4, <2>1 DEF FingerprintInv, HashIsOfStamp, Still
  <2>4. r = Content(p) BY <2>1, <2>2, <2>3 DEF Digests
  <2>5. c \in Calls /\ c.at = "returned" /\ c.path = p /\ c.result = Content(p)
    BY <1>1, <2>2, <2>4 DEF Calls
  <2>6. caller[t].stamp = vae[p].stamp /\ vae[p].stamp \in Nat
    BY <1>1, <1>4 DEF FingerprintInv, HashIsOfStamp, Still
  <2>7. e \in Entries /\ e.stamp = vae[p].stamp /\ e.digest = Content(p)
    BY <2>2, <2>4, <2>6 DEF Entries
  <2>8. caller' = [caller EXCEPT ![t] = c] BY <1>4 DEF Store, FingerprintInv, FingerprintTypes
  <2>9. PICK kept \in {[q \in Paths |-> NoEntry], digests} : digests' = [kept EXCEPT ![p] = e]
    BY <1>4 DEF Store
  <2>10. NoEntry \in Entries BY DEF Entries, NoEntry
  <2> HIDE DEF c, e
  <2>11. digests' \in [Paths -> Entries] /\ digests'[p] = e
    BY <1>1, <2>7, <2>9, <2>10 DEF FingerprintInv, FingerprintTypes
  <2>12. \A q \in Paths \ {p} : digests'[q] \in {NoEntry, digests[q]}
    BY <2>9 DEF FingerprintInv, FingerprintTypes
  <2>13. FingerprintTypes' BY <1>2, <2>5, <2>8, <2>11 DEF FingerprintInv, FingerprintTypes
  <2>14. caller'[t] = c /\ \A u \in Callers \ {t} : caller'[u] = caller[u]
    BY <2>8 DEF FingerprintInv, FingerprintTypes
  <2>15. \A u \in Callers : CallSees(u)' /\ HashIsOfStamp(u)'
    BY <1>1, <1>2, <2>5, <2>14 DEF FingerprintInv, CallSees, HashIsOfStamp, Content
  <2>16. \A u \in Callers : /\ caller'[u].at = "returned" => caller'[u].result \in seen'[u]
                            /\ caller'[u].at = "waiting" => caller'[u].read = <<>>
    BY <1>1, <1>2, <2>5, <2>14 DEF FingerprintInv
  <2>17. \A q \in Paths : EntryIsOfStamp(q)'
    <3> SUFFICES ASSUME NEW q \in Paths PROVE EntryIsOfStamp(q)' OBVIOUS
    <3>1. CASE q = p BY <1>2, <2>6, <2>7, <2>11, <3>1 DEF EntryIsOfStamp, Content
    <3>2. CASE q # p BY <1>2, <2>12, <3>2 DEF FingerprintInv, EntryIsOfStamp, Content
    <3>3. QED BY <3>1, <3>2
  <2>18. QED BY <2>13, <2>15, <2>16, <2>17 DEF FingerprintInv
<1>5. QED BY <1>3, <1>4

LEMMA ReturnKeepsInv ==
  ASSUME FingerprintInv, NEW t \in Callers, Return(t)
  PROVE  FingerprintInv'
<1>1. NoCall \in Calls /\ NoCall.at = "idle" BY DEF NoCall, Calls
<1>2. caller' = [caller EXCEPT ![t] = NoCall] /\ seen' = [seen EXCEPT ![t] = {}] /\ UNCHANGED <<vae, digests>>
  BY DEF Return
<1>3. QED BY <1>1, <1>2, CallStepKeepsInv

LEMMA FingerprintStepInv == FingerprintInv /\ [FingerprintNext]_fingerprintVars => FingerprintInv'
<1> SUFFICES ASSUME FingerprintInv, [FingerprintNext]_fingerprintVars PROVE FingerprintInv' OBVIOUS
<1>1. ASSUME NEW p \in Paths, Write(p) PROVE FingerprintInv' BY <1>1, WriteKeepsInv
<1>2. ASSUME NEW t \in Callers, NEW p \in Paths, Call(t, p) PROVE FingerprintInv'
  BY <1>2, CallKeepsInv
<1>3. ASSUME NEW t \in Callers, Lookup(t) PROVE FingerprintInv' BY <1>3, LookupKeepsInv
<1>4. ASSUME NEW t \in Callers, HashPart(t) PROVE FingerprintInv' BY <1>4, HashPartKeepsInv
<1>5. ASSUME NEW t \in Callers, HashFails(t) PROVE FingerprintInv'
  BY <1>5, FailsKeepsInv DEF HashFails
<1>6. ASSUME NEW t \in Callers, Store(t) PROVE FingerprintInv' BY <1>6, StoreKeepsInv
<1>7. ASSUME NEW t \in Callers, Return(t) PROVE FingerprintInv' BY <1>7, ReturnKeepsInv
<1>8. CASE UNCHANGED fingerprintVars
  BY <1>8 DEF fingerprintVars, FingerprintInv, FingerprintTypes, CallSees, HashIsOfStamp, EntryIsOfStamp, Content
<1>9. QED BY <1>1, <1>2, <1>3, <1>4, <1>5, <1>6, <1>7, <1>8 DEF FingerprintNext

\* A caller is given the digest of something the whole file held while the call ran, and an entry
\* that would be hit is the digest of what the file holds now, however many threads call
\* LcsFingerprintCache::get and however often their files are written meanwhile.
THEOREM FingerprintsAreCurrent == FingerprintSpec => []FingerprintIsCurrent
<1>1. FingerprintInv => FingerprintIsCurrent
  BY DEF FingerprintInv, FingerprintIsCurrent, EntryIsOfStamp, Hits
<1>2. QED BY <1>1, FingerprintInitInv, FingerprintStepInv, PTL DEF FingerprintSpec

-----------------------------------------------------------------------------
(* The bounds: the entries kept, and the lock.                             *)

BoundsInv ==
  /\ FingerprintInv
  /\ IsFiniteSet(Filled) /\ Cardinality(Filled) <= MaxEntries
  /\ \A t, u \in Callers : caller[t].at = "hashing" /\ caller[u].at = "hashing" => t = u

\* An entry more, where the cache was not full or has been emptied.
LEMMA StoreKeepsBound ==
  ASSUME BoundsInv, NEW t \in Callers, Store(t)
  PROVE  IsFiniteSet(Filled') /\ Cardinality(Filled') <= MaxEntries
<1> DEFINE p == caller[t].path
<1>1. p \in Paths BY DEF BoundsInv, FingerprintInv, CallSees, Store
<1>2. CASE ~Still(t)
  <2>1. Filled' = Filled BY <1>2 DEF Store, Filled
  <2>2. QED BY <2>1 DEF BoundsInv
<1>3. CASE Still(t) /\ Cardinality(Filled) >= MaxEntries
  <2>1. PICK e : digests' = [[q \in Paths |-> NoEntry] EXCEPT ![p] = e] BY <1>3 DEF Store, Filled
  <2>2. Filled' \subseteq {p} BY <2>1 DEF Filled
  <2>3. IsFiniteSet({p}) /\ Cardinality({p}) = 1 BY FS_Singleton
  <2>4. IsFiniteSet(Filled') /\ Cardinality(Filled') <= 1 BY <2>2, <2>3, FS_Subset
  <2>5. QED BY <2>4, FS_CardinalityType, FingerprintAssumption
<1>4. CASE Still(t) /\ ~(Cardinality(Filled) >= MaxEntries)
  <2>1. PICK e : digests' = [digests EXCEPT ![p] = e] BY <1>4 DEF Store, Filled
  <2>2. Filled' \subseteq Filled \cup {p}
    BY <2>1 DEF Filled, BoundsInv, FingerprintInv, FingerprintTypes
  <2>3. IsFiniteSet(Filled) /\ Cardinality(Filled) \in Nat BY FS_CardinalityType DEF BoundsInv
  <2>4. /\ IsFiniteSet(Filled \cup {p})
        /\ Cardinality(Filled \cup {p}) = Cardinality(Filled)
             \/ Cardinality(Filled \cup {p}) = Cardinality(Filled) + 1
    BY <2>3, FS_AddElement
  <2>5. Cardinality(Filled \cup {p}) <= MaxEntries BY <1>4, <2>3, <2>4, FingerprintAssumption
  <2>6. IsFiniteSet(Filled') /\ Cardinality(Filled') <= Cardinality(Filled \cup {p})
    BY <2>2, <2>4, FS_Subset
  <2>7. Cardinality(Filled') \in Nat /\ Cardinality(Filled \cup {p}) \in Nat
    BY <2>4, <2>6, FS_CardinalityType
  <2>8. QED BY <2>5, <2>6, <2>7, FingerprintAssumption
<1>5. QED BY <1>2, <1>3, <1>4

\* No other step adds an entry.
LEMMA OthersKeepBound ==
  ASSUME BoundsInv, Filled' \subseteq Filled
  PROVE  IsFiniteSet(Filled') /\ Cardinality(Filled') <= MaxEntries
<1>1. IsFiniteSet(Filled') /\ Cardinality(Filled') <= Cardinality(Filled) BY FS_Subset DEF BoundsInv
<1>2. Cardinality(Filled') \in Nat /\ Cardinality(Filled) \in Nat
  BY <1>1, FS_CardinalityType DEF BoundsInv
<1>3. QED BY <1>1, <1>2, FingerprintAssumption DEF BoundsInv

LEMMA BoundsInitInv == FingerprintInit => BoundsInv
<1> SUFFICES ASSUME FingerprintInit PROVE BoundsInv OBVIOUS
<1>1. Filled = {} BY DEF FingerprintInit, Filled
<1>2. IsFiniteSet(Filled) /\ Cardinality(Filled) = 0 BY <1>1, FS_EmptySet
<1>3. \A t \in Callers : caller[t].at = "idle" BY DEF FingerprintInit, NoCall
<1>4. QED BY <1>2, <1>3, FingerprintInitInv, FingerprintAssumption DEF BoundsInv

LEMMA BoundsStepInv == BoundsInv /\ [FingerprintNext]_fingerprintVars => BoundsInv'
<1> SUFFICES ASSUME BoundsInv, [FingerprintNext]_fingerprintVars PROVE BoundsInv' OBVIOUS
<1>1. FingerprintInv' BY FingerprintStepInv DEF BoundsInv
<1>2. IsFiniteSet(Filled') /\ Cardinality(Filled') <= MaxEntries
  <2>1. ASSUME NEW t \in Callers, Store(t) PROVE IsFiniteSet(Filled') /\ Cardinality(Filled') <= MaxEntries
    BY <2>1, StoreKeepsBound
  <2>2. ASSUME NEW t \in Callers, Lookup(t) PROVE Filled' \subseteq Filled
    <3>1. \/ UNCHANGED digests
          \/ digests' = [digests EXCEPT ![caller[t].path] = NoEntry]
      BY <2>2 DEF Lookup
    <3>2. QED BY <3>1 DEF Filled, BoundsInv, FingerprintInv, FingerprintTypes
  <2>3. \/ UNCHANGED digests
        \/ \E t \in Callers : Lookup(t) \/ Store(t)
    BY DEF FingerprintNext, Write, Call, HashPart, HashFails, Return, fingerprintVars
  <2>4. UNCHANGED digests => Filled' = Filled BY DEF Filled
  <2>5. QED BY <2>1, <2>2, <2>3, <2>4, OthersKeepBound
<1>3. ASSUME NEW t \in Callers, NEW u \in Callers, caller'[t].at = "hashing", caller'[u].at = "hashing"
      PROVE  t = u
  <2>1. caller \in [Callers -> Calls] BY DEF BoundsInv, FingerprintInv, FingerprintTypes
  <2>2. ASSUME NEW v \in Callers, Lookup(v) PROVE t = u
    <3>1. \A w \in Callers : caller[w].at # "hashing" BY <2>2 DEF Lookup, Locked
    <3>2. \A w \in Callers \ {v} : caller'[w] = caller[w] BY <2>1, <2>2 DEF Lookup
    <3>3. QED BY <1>3, <3>1, <3>2
  <2>3. ASSUME NEW v \in Callers, HashPart(v) PROVE t = u
    <3>1. \A w \in Callers : caller'[w].at = caller[w].at BY <2>1, <2>3 DEF HashPart, Calls
    <3>2. QED BY <1>3, <3>1 DEF BoundsInv
  <2>4. ASSUME NEW v \in Callers, caller'[v].at # "hashing", \A w \in Callers \ {v} : caller'[w] = caller[w]
        PROVE  t = u
    BY <1>3, <2>4 DEF BoundsInv
  <2>5. ASSUME NEW v \in Callers, NEW p \in Paths, Call(v, p) PROVE t = u
    <3>1. caller' = [caller EXCEPT ![v] = [NoCall EXCEPT !.at = "waiting", !.path = p]]
      BY <2>5 DEF Call
    <3>2. [NoCall EXCEPT !.at = "waiting", !.path = p].at = "waiting" BY FreshCall
    <3>3. caller'[v].at = "waiting" /\ \A w \in Callers \ {v} : caller'[w] = caller[w]
      BY <2>1, <3>1, <3>2
    <3>4. QED BY <2>4, <3>3
  <2>6. ASSUME NEW v \in Callers, caller' = Fails(v), caller[v].at = "hashing" PROVE t = u
    <3>1. caller[v].path \in Paths BY <2>6 DEF BoundsInv, FingerprintInv, CallSees
    <3>2. [NoCall EXCEPT !.at = "failed", !.path = caller[v].path].at = "failed" BY <3>1, FreshCall
    <3>3. caller'[v].at = "failed" /\ \A w \in Callers \ {v} : caller'[w] = caller[w]
      BY <2>1, <2>6, <3>2 DEF Fails
    <3>4. QED BY <2>4, <3>3
  <2>7. ASSUME NEW v \in Callers, Store(v) PROVE t = u
    <3>1. CASE ~Still(v) BY <2>6, <2>7, <3>1 DEF Store
    <3>2. CASE Still(v)
      <4>1. caller' = [caller EXCEPT ![v].at = "returned", ![v].result = caller[v].read]
        BY <2>7, <3>2 DEF Store
      <4>2. caller'[v].at = "returned" /\ \A w \in Callers \ {v} : caller'[w] = caller[w]
        BY <2>1, <4>1 DEF Calls
      <4>3. QED BY <2>4, <4>2
    <3>3. QED BY <3>1, <3>2
  <2>8. ASSUME NEW v \in Callers, Return(v) PROVE t = u
    <3>1. caller'[v] = NoCall /\ \A w \in Callers \ {v} : caller'[w] = caller[w]
      BY <2>1, <2>8 DEF Return
    <3>2. QED BY <2>4, <3>1 DEF NoCall
  <2>9. ASSUME UNCHANGED caller PROVE t = u BY <1>3, <2>9 DEF BoundsInv
  <2>10. QED
    BY <2>2, <2>3, <2>5, <2>6, <2>7, <2>8, <2>9 DEF FingerprintNext, Write, HashFails, fingerprintVars
<1>4. QED BY <1>1, <1>2, <1>3 DEF BoundsInv

\* No more entries are kept than the cache has room for, one thread hashes at a time, and no file
\* has a stamp beyond the clock's, for any number of threads and paths.
THEOREM FingerprintsAreBounded == FingerprintSpec => []FingerprintTypeOK
<1>1. BoundsInv => FingerprintTypeOK
  <2> SUFFICES ASSUME BoundsInv PROVE FingerprintTypeOK OBVIOUS
  <2>1. \A p \in Paths : vae[p].stamp \in 0 .. MaxWrites
    BY DEF BoundsInv, FingerprintInv, FingerprintTypes, Files
  <2>2. \A t \in Callers : caller[t].at \in {"idle", "waiting", "hashing", "returned", "failed"}
    BY DEF BoundsInv, FingerprintInv, FingerprintTypes, Calls
  <2>3. Cardinality(Busy) <= 1
    <3>1. CASE Busy = {} BY <3>1, FS_EmptySet
    <3>2. CASE Busy # {}
      <4>1. PICK t \in Busy : TRUE BY <3>2
      <4>2. Busy = {t} BY <4>1 DEF Busy, BoundsInv
      <4>3. Cardinality({t}) = 1 BY FS_Singleton
      <4>4. QED BY <4>2, <4>3
    <3>3. QED BY <3>1, <3>2
  <2>4. QED BY <2>1, <2>2, <2>3 DEF FingerprintTypeOK, BoundsInv, Filled, Busy
<1>2. QED BY <1>1, BoundsInitInv, BoundsStepInv, PTL DEF FingerprintSpec

-----------------------------------------------------------------------------
(* The inductive invariant of the archives on disk.                        *)

Archived == 1 .. MaxSaves
PartValues == Archived \cup {Blank}
DirectoryNames == StagedNames \cup {Target}
SaverStates ==
  [at : {"idle", "named", "opened", "half", "written", "cleanup"}, archive : PartValues,
   name : DirectoryNames, open : Inodes \cup {Blank}]

ArchiveTypes ==
  /\ inode \in [Inodes -> PartValues \X PartValues]
  /\ names \in [DirectoryNames -> Inodes \cup {Blank}]
  /\ serial \in [Processes -> Nat]
  /\ saver \in [ArchiveSavers -> SaverStates]
  /\ reader \in [ArchiveReaders -> [map : Inodes \cup {Blank}, got : Seq(PartValues)]]
  /\ begun \in 0 .. MaxSaves

\* A save under way has an archive and a staged name of its process, which its process has
\* counted past; two have different names.
NamesOfTheirOwn ==
  /\ \A p \in Processes : serial[p] <= begun
  /\ \A s \in ArchiveSavers : saver[s].at # "idle" =>
       /\ saver[s].archive \in Archived
       /\ saver[s].name \in StagedNames
       /\ saver[s].name[1] = ProcessOf[s] /\ saver[s].name[2] < serial[ProcessOf[s]]
  /\ \A s, t \in ArchiveSavers :
       saver[s].at # "idle" /\ saver[t].at # "idle" /\ s # t => saver[s].name # saver[t].name

\* A file has one name, and no reader maps the file of a staged name.
FilesOfTheirOwn ==
  /\ \A m, n \in DirectoryNames : names[m] # Blank /\ m # n => names[m] # names[n]
  /\ \A r \in ArchiveReaders, n \in StagedNames : names[n] # Blank => reader[r].map # names[n]

\* A file being written is behind its staged name; a file written holds its archive.
StagedFile(s) ==
  LET i == names[saver[s].name] IN
  /\ saver[s].at \in {"opened", "half"} => saver[s].open = i /\ i # Blank
  /\ saver[s].at = "half" => inode[i][1] = saver[s].archive
  /\ saver[s].at = "written" => i # Blank /\ inode[i] = <<saver[s].archive, saver[s].archive>>

\* A file of one archive.
WholeFile(i) == \E a \in Archived : inode[i] = <<a, a>>

\* The destination and what is mapped are whole, and what was read of a mapped file is of it.
WholeFiles ==
  /\ names[Target] # Blank => WholeFile(names[Target])
  /\ \A r \in ArchiveReaders :
       reader[r].map # Blank =>
         /\ WholeFile(reader[r].map)
         /\ Len(reader[r].got) <= 2
         /\ \A k \in 1 .. Len(reader[r].got) : reader[r].got[k] = inode[reader[r].map][1]

\* A reader that maps nothing has read nothing.
UnusedReads == \A r \in ArchiveReaders : reader[r].map = Blank => reader[r].got = <<>>

ArchiveInv ==
  /\ ArchiveTypes
  /\ NamesOfTheirOwn
  /\ FilesOfTheirOwn
  /\ \A s \in ArchiveSavers : StagedFile(s)
  /\ WholeFiles
  /\ UnusedReads

-----------------------------------------------------------------------------
(* Facts about the values.                                                 *)

LEMMA InodesAreNumbers == Inodes \subseteq Nat /\ Blank \notin Inodes
<1>1. Cardinality(ArchiveSavers) \in Nat /\ Cardinality(ArchiveReaders) \in Nat
  BY FS_CardinalityType, ArchiveAssumption
<1>2. QED BY <1>1, ArchiveAssumption DEF Inodes

\* No archive is a blank, and the destination is no staged name.
LEMMA ArchivesAreNoBlank ==
  /\ Blank \notin Archived
  /\ \A a \in Archived : Blank # <<a, a>>
  /\ Target \notin StagedNames
  /\ Target \in DirectoryNames /\ StagedNames \subseteq DirectoryNames
<1>1. \A p \in Processes, k \in 0 .. (MaxSaves - 1) : <<p, k>> # <<>> OBVIOUS
<1>2. QED BY <1>1, ArchiveAssumption DEF Archived, DirectoryNames, StagedNames, Target

\* The file taken for a staged name is nobody's, where there is one.
LEMMA FreshFile ==
  ASSUME Inodes \ InUse # {}
  PROVE  Min(Inodes \ InUse) \in Inodes \ InUse
<1>1. Inodes \ InUse \in SUBSET Nat BY InodesAreNumbers
<1>2. \E x \in Inodes \ InUse : \A y \in Inodes \ InUse : x <= y BY <1>1, LeastNatural
<1>3. QED BY <1>2 DEF Min

\* What a reader will have read is the file it maps.
LEMMA ViewIsOfMap == ArchiveInv => \A r \in ArchiveReaders : Viewed(r) = Stored(reader[r].map)
<1> SUFFICES ASSUME ArchiveInv, NEW r \in ArchiveReaders, reader[r].map # Blank
             PROVE  Viewed(r) = inode[reader[r].map]
  BY DEF Viewed, Stored
<1> DEFINE g == reader[r].got
           w == inode[reader[r].map]
<1>1. PICK a \in Archived : w = <<a, a>> BY DEF ArchiveInv, WholeFiles, WholeFile
<1>2. Len(g) \in Nat /\ \A k \in 1 .. Len(g) : g[k] = a
  <2>1. g \in Seq(PartValues) BY DEF ArchiveInv, ArchiveTypes
  <2>2. \A k \in 1 .. Len(g) : g[k] = w[1] BY DEF ArchiveInv, WholeFiles
  <2>3. QED BY <1>1, <2>1, <2>2
<1>3. \A k \in 1 .. 2 : (IF k <= Len(g) THEN g[k] ELSE w[k]) = a
  <2>1. \A k \in 1 .. 2 : k <= Len(g) => k \in 1 .. Len(g) BY <1>2
  <2>2. \A k \in 1 .. 2 : w[k] = a BY <1>1
  <2>3. QED BY <1>2, <2>1, <2>2
<1>4. [k \in 1 .. 2 |-> IF k <= Len(g) THEN g[k] ELSE w[k]] = [k \in 1 .. 2 |-> a] BY <1>3
<1>5. <<a, a>> = [k \in 1 .. 2 |-> a] OBVIOUS
<1>6. Viewed(r) = [k \in 1 .. 2 |-> IF k <= Len(g) THEN g[k] ELSE w[k]] BY DEF Viewed
<1>7. QED BY <1>1, <1>4, <1>5, <1>6

LEMMA NextViewIsOfMap == ArchiveInv' => (\A r \in ArchiveReaders : Viewed(r) = Stored(reader[r].map))'
BY ViewIsOfMap, PTL

LEMMA ArchiveInitInv == ArchiveInit => ArchiveInv
<1> SUFFICES ASSUME ArchiveInit PROVE ArchiveInv OBVIOUS
<1>1. <<>> \in Seq(PartValues) OBVIOUS
<1>2. ArchiveTypes
  <2>1. IdleSaver \in SaverStates /\ IdleReader \in [map : Inodes \cup {Blank}, got : Seq(PartValues)]
    BY <1>1, ArchivesAreNoBlank DEF IdleSaver, IdleReader, SaverStates, PartValues
  <2>2. begun \in 0 .. MaxSaves /\ serial \in [Processes -> Nat]
    BY ArchiveAssumption DEF ArchiveInit
  <2>3. inode \in [Inodes -> PartValues \X PartValues] /\ names \in [DirectoryNames -> Inodes \cup {Blank}]
    BY DEF ArchiveInit, PartValues, DirectoryNames
  <2>4. QED BY <2>1, <2>2, <2>3 DEF ArchiveInit, ArchiveTypes
<1>3. NamesOfTheirOwn BY DEF ArchiveInit, NamesOfTheirOwn, IdleSaver
<1>4. FilesOfTheirOwn BY DEF ArchiveInit, FilesOfTheirOwn, DirectoryNames
<1>5. \A s \in ArchiveSavers : StagedFile(s) BY DEF ArchiveInit, StagedFile, IdleSaver
<1>6. WholeFiles BY ArchivesAreNoBlank DEF ArchiveInit, WholeFiles, IdleReader, DirectoryNames
<1>7. UnusedReads BY DEF ArchiveInit, UnusedReads, IdleReader
<1>8. QED BY <1>2, <1>3, <1>4, <1>5, <1>6, <1>7 DEF ArchiveInv

-----------------------------------------------------------------------------
(* Each step keeps the invariant and is a step of AtomicArchive or is      *)
(* invisible there.                                                        *)

\* What a saver is about to save, as AtomicArchive sees it.
Pending(s) ==
  IF saver[s].at \in {"idle", "cleanup"} THEN Blank ELSE <<saver[s].archive, saver[s].archive>>

WholeStep == Whole!Next \/ UNCHANGED Whole!vars

\* The values of AtomicArchive's variables after a step, from those of the files.
LEMMA WholeVariables ==
  ASSUME ArchiveInv, ArchiveInv'
  PROVE  /\ [r \in ArchiveReaders |-> Viewed(r)] = [r \in ArchiveReaders |-> Stored(reader[r].map)]
         /\ [r \in ArchiveReaders |-> Viewed(r)]' = [r \in ArchiveReaders |-> Stored(reader[r].map)']
BY ViewIsOfMap, NextViewIsOfMap

\* A step that leaves the destination, the pending archives and the files mapped alone.
LEMMA HiddenStep ==
  ASSUME ArchiveInv, ArchiveInv',
         UNCHANGED Stored(names[Target]),
         \A s \in ArchiveSavers : UNCHANGED Pending(s),
         \A r \in ArchiveReaders : UNCHANGED Stored(reader[r].map)
  PROVE  WholeStep
BY WholeVariables DEF WholeStep, Whole!vars, Pending

\* A step that ends some saves without one, or closes what some readers mapped.
LEMMA DropStep ==
  ASSUME ArchiveInv, ArchiveInv',
         NEW S \in SUBSET ArchiveSavers, NEW R \in SUBSET ArchiveReaders,
         UNCHANGED Stored(names[Target]),
         \A s \in ArchiveSavers : Pending(s)' = IF s \in S THEN Blank ELSE Pending(s),
         \A r \in ArchiveReaders :
           Stored(reader[r].map)' = IF r \in R THEN Blank ELSE Stored(reader[r].map)
  PROVE  WholeStep
<1>1. Whole!Drop(S, R) BY WholeVariables DEF Whole!Drop, Pending
<1>2. QED BY <1>1 DEF WholeStep, Whole!Next

-----------------------------------------------------------------------------

LEMMA BeginSaveKeeps ==
  ASSUME ArchiveInv, NEW s \in ArchiveSavers, BeginSave(s)
  PROVE  ArchiveInv' /\ WholeStep
<1> DEFINE p == ProcessOf[s]
           c == [at |-> "named", archive |-> begun + 1, name |-> StagedName(s), open |-> Blank]
<1>1. p \in Processes /\ serial[p] \in Nat /\ serial[p] <= begun
  BY DEF Processes, ArchiveInv, ArchiveTypes, NamesOfTheirOwn
<1>2. begun + 1 \in Archived /\ serial[p] \in 0 .. (MaxSaves - 1)
  BY <1>1, ArchiveAssumption DEF BeginSave, ArchiveInv, ArchiveTypes, Archived
<1>3. StagedName(s) \in StagedNames /\ StagedName(s)[1] = p /\ StagedName(s)[2] = serial[p]
  BY <1>1, <1>2 DEF StagedName, StagedNames
<1>4. c \in SaverStates BY <1>2, <1>3 DEF SaverStates, PartValues, DirectoryNames
<1>5. saver' = [saver EXCEPT ![s] = c] /\ UNCHANGED <<inode, names, reader>> BY DEF BeginSave
<1>6. saver'[s] = c /\ \A t \in ArchiveSavers \ {s} : saver'[t] = saver[t]
  BY <1>5 DEF ArchiveInv, ArchiveTypes
<1>7. /\ serial'[p] = serial[p] + 1
      /\ \A q \in Processes \ {p} : serial'[q] = serial[q]
  BY <1>1 DEF BeginSave, ArchiveInv, ArchiveTypes
<1>8. begun' = begun + 1 /\ begun \in Nat BY DEF BeginSave, ArchiveInv, ArchiveTypes
<1>9. ArchiveTypes'
  <2>1. begun' \in 0 .. MaxSaves BY <1>2, <1>8 DEF Archived
  <2>2. serial' \in [Processes -> Nat] BY <1>1 DEF BeginSave, ArchiveInv, ArchiveTypes
  <2>3. QED BY <1>4, <1>5, <2>1, <2>2 DEF ArchiveInv, ArchiveTypes
<1>10. NamesOfTheirOwn'
  <2>1. \A q \in Processes : serial'[q] <= begun'
    <3>1. \A q \in Processes : serial[q] \in Nat /\ serial[q] <= begun
      BY DEF ArchiveInv, ArchiveTypes, NamesOfTheirOwn
    <3>2. QED BY <1>1, <1>7, <1>8, <3>1
  <2>2. \A t \in ArchiveSavers \ {s} : saver[t].at # "idle" =>
          /\ saver[t].archive \in Archived
          /\ saver[t].name \in StagedNames
          /\ saver[t].name[1] = ProcessOf[t] /\ saver[t].name[2] < serial[ProcessOf[t]]
    BY DEF ArchiveInv, NamesOfTheirOwn
  <2>3. \A t \in ArchiveSavers : ProcessOf[t] \in Processes BY DEF Processes
  <2>4. \A n \in StagedNames : n[2] \in Nat BY ArchiveAssumption DEF StagedNames
  <2>5. \A t \in ArchiveSavers \ {s} : saver[t].at # "idle" => saver[t].name[2] < serial'[ProcessOf[t]]
    <3>1. ASSUME NEW t \in ArchiveSavers \ {s}, saver[t].at # "idle"
          PROVE  saver[t].name[2] < serial'[ProcessOf[t]]
      <4>1. saver[t].name[2] \in Nat /\ saver[t].name[2] < serial[ProcessOf[t]] BY <2>2, <2>4, <3>1
      <4>2. serial[ProcessOf[t]] \in Nat BY <2>3, <3>1 DEF ArchiveInv, ArchiveTypes
      <4>3. CASE ProcessOf[t] = p BY <1>1, <1>7, <4>1, <4>2, <4>3
      <4>4. CASE ProcessOf[t] # p BY <1>7, <2>3, <3>1, <4>1, <4>4
      <4>5. QED BY <4>3, <4>4
    <3>2. QED BY <3>1
  <2>6. \A t \in ArchiveSavers \ {s} : saver[t].at # "idle" => saver[t].name # StagedName(s)
    <3>1. ASSUME NEW t \in ArchiveSavers \ {s}, saver[t].at # "idle", saver[t].name = StagedName(s)
          PROVE  FALSE
      <4>1. ProcessOf[t] = p /\ serial[p] < serial[p] BY <1>3, <2>2, <3>1
      <4>2. QED BY <1>1, <4>1
    <3>2. QED BY <3>1
  <2>7. serial[p] < serial'[p] BY <1>1, <1>7
  <2>8. QED BY <1>2, <1>3, <1>6, <2>1, <2>2, <2>5, <2>6, <2>7 DEF ArchiveInv, NamesOfTheirOwn
<1>11. FilesOfTheirOwn' /\ WholeFiles'
  BY <1>5 DEF ArchiveInv, FilesOfTheirOwn, WholeFiles, WholeFile
<1>12. \A t \in ArchiveSavers : StagedFile(t)' BY <1>5, <1>6 DEF ArchiveInv, StagedFile
<1>13. ArchiveInv'
  <2>1. UnusedReads' BY <1>5 DEF ArchiveInv, UnusedReads
  <2>2. QED BY <1>9, <1>10, <1>11, <1>12, <2>1 DEF ArchiveInv
<1>14. Whole!Begin(s)
  <2>1. Pending(s) = Blank /\ Pending(s)' = <<begun + 1, begun + 1>> BY <1>6 DEF BeginSave, Pending
  <2>2. \A t \in ArchiveSavers \ {s} : UNCHANGED Pending(t) BY <1>6 DEF Pending
  <2>3. <<begun + 1, begun + 1>> \in {<<a, a>> : a \in 1 .. MaxSaves} BY <1>2 DEF Archived
  <2>4. UNCHANGED Stored(names[Target]) /\ \A r \in ArchiveReaders : UNCHANGED Viewed(r)
    BY <1>5 DEF Stored, Viewed
  <2>5. [t \in ArchiveSavers |-> Pending(t)'] = [[t \in ArchiveSavers |-> Pending(t)] EXCEPT ![s] = <<begun + 1, begun + 1>>]
    BY <2>1, <2>2
  <2>6. QED BY <2>1, <2>3, <2>4, <2>5 DEF Whole!Begin, Pending
<1>15. QED BY <1>13, <1>14 DEF WholeStep, Whole!Next

\* Saves that go on under their names, or end, keep their names apart.
LEMMA NamesStay ==
  ASSUME ArchiveInv, UNCHANGED <<serial, begun>>,
         \A t \in ArchiveSavers : saver'[t].at # "idle" =>
           saver[t].at # "idle" /\ saver'[t].name = saver[t].name /\ saver'[t].archive = saver[t].archive
  PROVE  NamesOfTheirOwn'
<1>1. \A p \in Processes : serial'[p] <= begun' BY DEF ArchiveInv, NamesOfTheirOwn
<1>2. ASSUME NEW t \in ArchiveSavers, saver'[t].at # "idle"
      PROVE  /\ saver'[t].archive \in Archived
             /\ saver'[t].name \in StagedNames
             /\ saver'[t].name[1] = ProcessOf[t] /\ saver'[t].name[2] < serial'[ProcessOf[t]]
  BY <1>2 DEF ArchiveInv, NamesOfTheirOwn
<1>3. ASSUME NEW t \in ArchiveSavers, NEW u \in ArchiveSavers,
             saver'[t].at # "idle", saver'[u].at # "idle", t # u
      PROVE  saver'[t].name # saver'[u].name
  BY <1>3 DEF ArchiveInv, NamesOfTheirOwn
<1>4. QED BY <1>1, <1>2, <1>3 DEF NamesOfTheirOwn

\* Opening truncates the staged file, which is nobody else's.
LEMMA OpenStagedKeeps ==
  ASSUME ArchiveInv, NEW s \in ArchiveSavers, OpenStaged(s)
  PROVE  ArchiveInv' /\ WholeStep
<1> DEFINE n == saver[s].name
           i == IF names[n] # Blank THEN names[n] ELSE Min(Inodes \ InUse)
<1>1. n \in StagedNames /\ saver[s].archive \in Archived /\ saver[s] \in SaverStates
  BY DEF OpenStaged, ArchiveInv, ArchiveTypes, NamesOfTheirOwn
<1>2. i \in Inodes /\ names[n] \in {Blank, i} /\ (names[n] = Blank => i \notin InUse)
  BY <1>1, FreshFile, ArchivesAreNoBlank DEF OpenStaged, ArchiveInv, ArchiveTypes
<1>3. /\ inode' = [inode EXCEPT ![i] = <<Blank, Blank>>]
      /\ names' = [names EXCEPT ![n] = i]
      /\ saver' = [saver EXCEPT ![s].at = "opened", ![s].open = i]
      /\ UNCHANGED <<serial, reader, begun>>
  BY DEF OpenStaged
<1> HIDE DEF i
<1>4. names'[n] = i /\ \A m \in DirectoryNames \ {n} : names'[m] = names[m]
  BY <1>1, <1>3, ArchivesAreNoBlank DEF ArchiveInv, ArchiveTypes
<1>5. \A m \in DirectoryNames \ {n} : names[m] # i
  BY <1>1, <1>2, ArchivesAreNoBlank, InodesAreNumbers DEF InUse, ArchiveInv, FilesOfTheirOwn, DirectoryNames
<1>6. \A r \in ArchiveReaders : reader[r].map # i
  BY <1>1, <1>2, InodesAreNumbers DEF InUse, ArchiveInv, FilesOfTheirOwn
<1>7. \A j \in Inodes \ {i} : inode'[j] = inode[j] BY <1>3 DEF ArchiveInv, ArchiveTypes
<1>8. /\ saver'[s].at = "opened" /\ saver'[s].open = i
      /\ saver'[s].name = n /\ saver'[s].archive = saver[s].archive /\ saver'[s] \in SaverStates
      /\ \A t \in ArchiveSavers \ {s} : saver'[t] = saver[t]
  BY <1>1, <1>2, <1>3 DEF ArchiveInv, ArchiveTypes, SaverStates
<1>9. ArchiveTypes'
  <2>1. inode' \in [Inodes -> PartValues \X PartValues]
    BY <1>3 DEF ArchiveInv, ArchiveTypes, PartValues
  <2>2. names' \in [DirectoryNames -> Inodes \cup {Blank}]
    BY <1>2, <1>3 DEF ArchiveInv, ArchiveTypes
  <2>3. saver' \in [ArchiveSavers -> SaverStates] BY <1>3, <1>8 DEF ArchiveInv, ArchiveTypes
  <2>4. QED BY <1>3, <2>1, <2>2, <2>3 DEF ArchiveInv, ArchiveTypes
<1>10. NamesOfTheirOwn'
  <2>1. saver[s].at = "named" BY DEF OpenStaged
  <2>2. QED BY <1>3, <1>8, <2>1, NamesStay
<1>11. FilesOfTheirOwn'
  BY <1>1, <1>3, <1>4, <1>5, <1>6, ArchivesAreNoBlank DEF ArchiveInv, FilesOfTheirOwn
<1>12. ASSUME NEW t \in ArchiveSavers PROVE StagedFile(t)'
  <2>1. CASE t = s BY <1>2, <1>4, <1>8, <2>1, InodesAreNumbers DEF StagedFile
  <2>2. CASE t # s /\ saver[t].at \in {"opened", "half", "written"}
    <3>1. saver[t].name \in DirectoryNames \ {n} /\ saver'[t] = saver[t]
      BY <1>1, <1>8, <2>2, ArchivesAreNoBlank DEF OpenStaged, ArchiveInv, NamesOfTheirOwn
    <3>2. names'[saver[t].name] = names[saver[t].name] /\ names[saver[t].name] # Blank
      BY <1>4, <2>2, <3>1 DEF ArchiveInv, StagedFile
    <3>3. names[saver[t].name] \in Inodes \ {i} BY <1>5, <3>1, <3>2 DEF ArchiveInv, ArchiveTypes
    <3>4. QED BY <1>7, <2>2, <3>1, <3>2, <3>3 DEF ArchiveInv, StagedFile
  <2>3. CASE t # s /\ saver[t].at \notin {"opened", "half", "written"} BY <1>8, <2>3 DEF StagedFile
  <2>4. QED BY <2>1, <2>2, <2>3
<1>13. Target \in DirectoryNames \ {n} /\ names'[Target] = names[Target]
  BY <1>1, <1>4, ArchivesAreNoBlank
<1>14. names[Target] # Blank => inode'[names[Target]] = inode[names[Target]]
  BY <1>5, <1>7, <1>13 DEF ArchiveInv, ArchiveTypes
<1>15. \A r \in ArchiveReaders : reader[r].map # Blank => inode'[reader[r].map] = inode[reader[r].map]
  BY <1>6, <1>7 DEF ArchiveInv, ArchiveTypes
<1>16. WholeFiles' BY <1>3, <1>13, <1>14, <1>15 DEF ArchiveInv, WholeFiles, WholeFile
<1>17. ArchiveInv'
  <2>1. UnusedReads' BY <1>3 DEF ArchiveInv, UnusedReads
  <2>2. QED BY <1>9, <1>10, <1>11, <1>12, <1>16, <2>1 DEF ArchiveInv
<1>18. WholeStep
  <2>1. \A t \in ArchiveSavers : UNCHANGED Pending(t)
    <3>1. saver[s].at = "named" BY DEF OpenStaged
    <3>2. UNCHANGED Pending(s) BY <1>8, <3>1 DEF Pending
    <3>3. QED BY <1>8, <3>2 DEF Pending
  <2>2. UNCHANGED Stored(names[Target]) /\ \A r \in ArchiveReaders : UNCHANGED Stored(reader[r].map)
    BY <1>3, <1>13, <1>14, <1>15 DEF Stored
  <2>3. QED BY <1>17, <2>1, <2>2, HiddenStep
<1>19. QED BY <1>17, <1>18

\* Writing changes the file behind the staged name alone.
LEMMA WritePartKeeps ==
  ASSUME ArchiveInv, NEW s \in ArchiveSavers, WriteHeader(s) \/ WriteTensors(s)
  PROVE  ArchiveInv' /\ WholeStep
<1> DEFINE n == saver[s].name
           i == saver[s].open
           a == saver[s].archive
<1>1. n \in StagedNames /\ a \in Archived /\ saver[s] \in SaverStates
  BY DEF WriteHeader, WriteTensors, WritePart, ArchiveInv, ArchiveTypes, NamesOfTheirOwn
<1>2. i \in Inodes /\ names[n] = i /\ i # Blank
  BY <1>1 DEF WriteHeader, WriteTensors, WritePart, ArchiveInv, ArchiveTypes, StagedFile, SaverStates
<1>3. inode[i] \in PartValues \X PartValues BY <1>2 DEF ArchiveInv, ArchiveTypes
<1>4. UNCHANGED <<names, serial, reader, begun>> BY DEF WriteHeader, WriteTensors, WritePart
<1>5. /\ inode'[i] \in PartValues \X PartValues
      /\ \/ saver[s].at = "opened" /\ saver'[s] = [saver[s] EXCEPT !.at = "half"] /\ inode'[i][1] = a
         \/ /\ saver[s].at = "half" /\ saver'[s] = [saver[s] EXCEPT !.at = "written", !.open = Blank]
            /\ inode'[i] = <<a, a>>
  <2>1. CASE WriteHeader(s)
    <3>1. inode'[i] = [inode[i] EXCEPT ![1] = a]
      BY <1>2, <2>1 DEF WriteHeader, WritePart, ArchiveInv, ArchiveTypes
    <3>2. saver'[s] = [saver[s] EXCEPT !.at = "half"]
      BY <1>1, <2>1 DEF WriteHeader, WritePart, ArchiveInv, ArchiveTypes, SaverStates
    <3>3. inode'[i][1] = a /\ inode'[i] \in PartValues \X PartValues
      BY <1>1, <1>3, <3>1 DEF PartValues
    <3>4. QED BY <2>1, <3>2, <3>3 DEF WriteHeader, WritePart
  <2>2. CASE WriteTensors(s)
    <3>1. inode'[i] = [inode[i] EXCEPT ![2] = a]
      BY <1>2, <2>2 DEF WriteTensors, WritePart, ArchiveInv, ArchiveTypes
    <3>2. saver'[s] = [saver[s] EXCEPT !.at = "written", !.open = Blank]
      BY <1>1, <2>2 DEF WriteTensors, WritePart, ArchiveInv, ArchiveTypes, SaverStates
    <3>3. inode[i][1] = a BY <1>2, <2>2 DEF WriteTensors, WritePart, ArchiveInv, StagedFile
    <3>4. inode'[i] = <<a, a>> BY <1>3, <3>1, <3>3
    <3>5. <<a, a>> \in PartValues \X PartValues BY <1>1 DEF PartValues
    <3>6. saver[s].at = "half" BY <2>2 DEF WriteTensors, WritePart
    <3> HIDE DEF n, i, a
    <3>7. QED BY <3>2, <3>4, <3>5, <3>6
  <2>3. QED BY <2>1, <2>2
<1>6. /\ inode' \in [Inodes -> PartValues \X PartValues]
      /\ \A j \in Inodes \ {i} : inode'[j] = inode[j]
      /\ \A t \in ArchiveSavers \ {s} : saver'[t] = saver[t]
      /\ saver' = [saver EXCEPT ![s] = saver'[s]]
  <2>1. PICK part \in {1, 2} : inode' = [inode EXCEPT ![i][part] = a]
    BY DEF WriteHeader, WriteTensors, WritePart
  <2>2. inode' = [inode EXCEPT ![i] = inode'[i]] /\ \A j \in Inodes \ {i} : inode'[j] = inode[j]
    BY <1>2, <2>1 DEF ArchiveInv, ArchiveTypes
  <2>3. inode' \in [Inodes -> PartValues \X PartValues]
    BY <1>2, <1>5, <2>2 DEF ArchiveInv, ArchiveTypes
  <2>4. \A t \in ArchiveSavers \ {s} : saver'[t] = saver[t]
    BY DEF WriteHeader, WriteTensors, WritePart, ArchiveInv, ArchiveTypes
  <2>5. saver' = [saver EXCEPT ![s] = saver'[s]]
    BY DEF WriteHeader, WriteTensors, WritePart, ArchiveInv, ArchiveTypes
  <2>6. QED BY <2>2, <2>3, <2>4, <2>5
<1>7. /\ saver'[s].name = n /\ saver'[s].archive = a /\ saver'[s] \in SaverStates
      /\ saver'[s].at \in {"half", "written"} /\ (saver'[s].at = "half" => saver'[s].open = i)
  BY <1>1, <1>5 DEF SaverStates
<1>8. ArchiveTypes' BY <1>4, <1>6, <1>7 DEF ArchiveInv, ArchiveTypes
<1>9. saver[s].at # "idle" BY <1>5
<1>10. NamesOfTheirOwn' BY <1>4, <1>6, <1>7, <1>9, NamesStay
<1>11. FilesOfTheirOwn' BY <1>4 DEF ArchiveInv, FilesOfTheirOwn
<1>12. ASSUME NEW t \in ArchiveSavers PROVE StagedFile(t)'
  <2>1. CASE t = s
    <3>1. saver'[s].at = "half" => inode'[i][1] = a BY <1>1, <1>5 DEF SaverStates
    <3>2. saver'[s].at = "written" => inode'[i] = <<a, a>> BY <1>1, <1>5 DEF SaverStates
    <3>3. QED BY <1>2, <1>4, <1>7, <2>1, <3>1, <3>2 DEF StagedFile
  <2>2. CASE t # s /\ saver[t].at \in {"opened", "half", "written"}
    <3>1. saver[t].name \in DirectoryNames \ {n} /\ saver'[t] = saver[t]
      BY <1>1, <1>6, <1>9, <2>2, ArchivesAreNoBlank DEF ArchiveInv, NamesOfTheirOwn
    <3>2. names[saver[t].name] # Blank BY <2>2, <3>1 DEF ArchiveInv, StagedFile
    <3>3. names[saver[t].name] \in Inodes \ {i}
      BY <1>1, <1>2, <3>1, <3>2, ArchivesAreNoBlank DEF ArchiveInv, ArchiveTypes, FilesOfTheirOwn
    <3>4. QED BY <1>4, <1>6, <2>2, <3>1, <3>2, <3>3 DEF ArchiveInv, StagedFile
  <2>3. CASE t # s /\ saver[t].at \notin {"opened", "half", "written"} BY <1>6, <2>3 DEF StagedFile
  <2>4. QED BY <2>1, <2>2, <2>3
<1>13. names[Target] # Blank => names[Target] \in Inodes \ {i}
  BY <1>1, <1>2, ArchivesAreNoBlank DEF ArchiveInv, ArchiveTypes, FilesOfTheirOwn
<1>14. \A r \in ArchiveReaders : reader[r].map # Blank => reader[r].map \in Inodes \ {i}
  BY <1>1, <1>2 DEF ArchiveInv, ArchiveTypes, FilesOfTheirOwn
<1>15. WholeFiles' BY <1>4, <1>6, <1>13, <1>14 DEF ArchiveInv, WholeFiles, WholeFile
<1>16. ArchiveInv'
  <2>1. UnusedReads' BY <1>4 DEF ArchiveInv, UnusedReads
  <2>2. QED BY <1>8, <1>10, <1>11, <1>12, <1>15, <2>1 DEF ArchiveInv
<1>17. WholeStep
  <2>1. \A t \in ArchiveSavers : UNCHANGED Pending(t) BY <1>5, <1>6, <1>7 DEF Pending
  <2>2. UNCHANGED Stored(names[Target]) /\ \A r \in ArchiveReaders : UNCHANGED Stored(reader[r].map)
    BY <1>4, <1>6, <1>13, <1>14 DEF Stored
  <2>3. QED BY <1>16, <2>1, <2>2, HiddenStep
<1>18. QED BY <1>16, <1>17

\* A step of one saver that is still at its save, or is through with it, and touches no file:
\* it fails, or it was renamed in vain.
LEMMA GiveUpKeeps ==
  ASSUME ArchiveInv, NEW s \in ArchiveSavers, SaveFails(s) \/ RenameFails(s)
  PROVE  ArchiveInv' /\ WholeStep
<1>1. UNCHANGED <<inode, names, serial, reader, begun>> BY DEF SaveFails, RenameFails
<1>2. /\ saver[s].at # "idle"
      /\ saver'[s].at = "cleanup" /\ saver'[s].name = saver[s].name
      /\ saver'[s].archive = saver[s].archive /\ saver'[s] \in SaverStates
      /\ \A t \in ArchiveSavers \ {s} : saver'[t] = saver[t]
  <2>1. saver \in [ArchiveSavers -> SaverStates] /\ saver[s] \in SaverStates
    BY DEF ArchiveInv, ArchiveTypes
  <2>2. CASE SaveFails(s) BY <2>1, <2>2 DEF SaveFails, SaverStates
  <2>3. CASE RenameFails(s) BY <2>1, <2>3 DEF RenameFails, SaverStates
  <2>4. QED BY <2>2, <2>3
<1>3. saver' = [t \in ArchiveSavers |-> saver'[t]]
  BY DEF SaveFails, RenameFails, ArchiveInv, ArchiveTypes
<1>4. ArchiveTypes' BY <1>1, <1>2, <1>3 DEF ArchiveInv, ArchiveTypes
<1>5. NamesOfTheirOwn' BY <1>1, <1>2, NamesStay
<1>6. FilesOfTheirOwn' /\ WholeFiles' BY <1>1 DEF ArchiveInv, FilesOfTheirOwn, WholeFiles, WholeFile
<1>7. \A t \in ArchiveSavers : StagedFile(t)' BY <1>1, <1>2 DEF ArchiveInv, StagedFile
<1>8. ArchiveInv'
  <2>1. UnusedReads' BY <1>1 DEF ArchiveInv, UnusedReads
  <2>2. QED BY <1>4, <1>5, <1>6, <1>7, <2>1 DEF ArchiveInv
<1>9. WholeStep
  <2>1. \A t \in ArchiveSavers : Pending(t)' = IF t \in {s} THEN Blank ELSE Pending(t)
    BY <1>2 DEF Pending
  <2>2. \A r \in ArchiveReaders : Stored(reader[r].map)' = IF r \in {} THEN Blank ELSE Stored(reader[r].map)
    BY <1>1 DEF Stored
  <2>3. UNCHANGED Stored(names[Target]) BY <1>1 DEF Stored
  <2>4. QED
    BY <1>8, <2>1, <2>2, <2>3, DropStep, {s} \in SUBSET ArchiveSavers, {} \in SUBSET ArchiveReaders
<1>10. QED BY <1>8, <1>9

\* The rename moves the file written to the destination: the one step that changes the archive.
LEMMA RenameKeeps ==
  ASSUME ArchiveInv, NEW s \in ArchiveSavers, Rename(s)
  PROVE  ArchiveInv' /\ WholeStep
<1> DEFINE n == saver[s].name
           i == names[n]
           a == saver[s].archive
<1>1. n \in StagedNames /\ a \in Archived /\ n \in DirectoryNames /\ n # Target
  BY ArchivesAreNoBlank DEF Rename, ArchiveInv, ArchiveTypes, NamesOfTheirOwn
<1>2. i \in Inodes /\ i # Blank /\ inode[i] = <<a, a>>
  BY <1>1, InodesAreNumbers DEF Rename, ArchiveInv, ArchiveTypes, StagedFile
<1>3. UNCHANGED <<inode, serial, reader, begun>> BY DEF Rename
<1>4. /\ names' \in [DirectoryNames -> Inodes \cup {Blank}]
      /\ names'[Target] = i /\ names'[n] = Blank
      /\ \A m \in DirectoryNames \ {n, Target} : names'[m] = names[m]
  BY <1>1, <1>2, ArchivesAreNoBlank DEF Rename, ArchiveInv, ArchiveTypes
<1>5. /\ saver[s].at = "written"
      /\ saver'[s].at = "cleanup" /\ saver'[s].name = n
      /\ saver'[s].archive = a /\ saver'[s] \in SaverStates
      /\ \A t \in ArchiveSavers \ {s} : saver'[t] = saver[t]
  BY DEF Rename, ArchiveInv, ArchiveTypes, SaverStates
<1>6. saver' = [t \in ArchiveSavers |-> saver'[t]] BY DEF Rename, ArchiveInv, ArchiveTypes
<1>7. ArchiveTypes'
  <2>1. saver' \in [ArchiveSavers -> SaverStates] BY <1>5, <1>6 DEF ArchiveInv, ArchiveTypes
  <2>2. QED BY <1>3, <1>4, <2>1 DEF ArchiveInv, ArchiveTypes
<1>8. NamesOfTheirOwn' BY <1>3, <1>5, NamesStay
<1>9. FilesOfTheirOwn'
  <2>1. ASSUME NEW m \in DirectoryNames, NEW o \in DirectoryNames, names'[m] # Blank, m # o
        PROVE  names'[m] # names'[o]
    BY <1>1, <1>2, <1>4, <2>1 DEF ArchiveInv, FilesOfTheirOwn
  <2>2. ASSUME NEW r \in ArchiveReaders, NEW m \in StagedNames, names'[m] # Blank
        PROVE  reader[r].map # names'[m]
    BY <1>4, <2>2, ArchivesAreNoBlank DEF ArchiveInv, FilesOfTheirOwn
  <2>3. QED BY <1>3, <2>1, <2>2 DEF FilesOfTheirOwn
<1>10. ASSUME NEW t \in ArchiveSavers PROVE StagedFile(t)'
  <2>1. CASE t = s BY <1>5, <2>1 DEF StagedFile
  <2>2. CASE t # s /\ saver[t].at \in {"opened", "half", "written"}
    <3>1. saver[t].name \in DirectoryNames \ {n, Target} /\ saver'[t] = saver[t]
      BY <1>1, <1>5, <2>2, ArchivesAreNoBlank DEF ArchiveInv, NamesOfTheirOwn
    <3>2. QED BY <1>3, <1>4, <2>2, <3>1 DEF ArchiveInv, StagedFile
  <2>3. CASE t # s /\ saver[t].at \notin {"opened", "half", "written"} BY <1>5, <2>3 DEF StagedFile
  <2>4. QED BY <2>1, <2>2, <2>3
<1>11. WholeFiles' BY <1>1, <1>2, <1>3, <1>4 DEF ArchiveInv, WholeFiles, WholeFile
<1>12. ArchiveInv'
  <2>1. UnusedReads' BY <1>3 DEF ArchiveInv, UnusedReads
  <2>2. QED BY <1>7, <1>8, <1>9, <1>10, <1>11, <2>1 DEF ArchiveInv
<1>13. Whole!Commit(s)
  <2>1. Pending(s) = <<a, a>> /\ Pending(s) # Blank /\ Pending(s)' = Blank
    BY <1>1, <1>5, ArchivesAreNoBlank DEF Pending
  <2>2. \A t \in ArchiveSavers \ {s} : UNCHANGED Pending(t) BY <1>5 DEF Pending
  <2>3. Stored(names[Target])' = <<a, a>> BY <1>2, <1>3, <1>4 DEF Stored
  <2>4. \A r \in ArchiveReaders : Viewed(r)' = Viewed(r) BY <1>3 DEF Viewed
  <2>5. [t \in ArchiveSavers |-> Pending(t)'] = [[t \in ArchiveSavers |-> Pending(t)] EXCEPT ![s] = Blank]
    <3>1. \A t \in ArchiveSavers : Pending(t)' = IF t = s THEN Blank ELSE Pending(t) BY <2>1, <2>2
    <3>2. QED BY <3>1
  <2>6. QED BY <2>1, <2>3, <2>4, <2>5 DEF Whole!Commit, Pending
<1>14. QED BY <1>12, <1>13 DEF WholeStep, Whole!Next

\* ~Cleanup removes a name that nobody else has.
LEMMA RemoveStagedKeeps ==
  ASSUME ArchiveInv, NEW s \in ArchiveSavers, RemoveStaged(s)
  PROVE  ArchiveInv' /\ WholeStep
<1> DEFINE n == saver[s].name
<1>1. n \in StagedNames /\ n \in DirectoryNames /\ n # Target /\ saver[s].at = "cleanup"
  BY ArchivesAreNoBlank DEF RemoveStaged, ArchiveInv, ArchiveTypes, NamesOfTheirOwn
<1>2. UNCHANGED <<inode, serial, reader, begun>> BY DEF RemoveStaged
<1>3. /\ names' \in [DirectoryNames -> Inodes \cup {Blank}]
      /\ names'[n] = Blank /\ \A m \in DirectoryNames \ {n} : names'[m] = names[m]
  BY <1>1 DEF RemoveStaged, ArchiveInv, ArchiveTypes
<1>4. IdleSaver \in SaverStates /\ IdleSaver.at = "idle"
  BY ArchivesAreNoBlank DEF IdleSaver, SaverStates, PartValues
<1>5. /\ saver' \in [ArchiveSavers -> SaverStates]
      /\ saver'[s].at = "idle" /\ \A t \in ArchiveSavers \ {s} : saver'[t] = saver[t]
  BY <1>4 DEF RemoveStaged, ArchiveInv, ArchiveTypes
<1>6. ArchiveTypes' BY <1>2, <1>3, <1>5 DEF ArchiveInv, ArchiveTypes
<1>7. NamesOfTheirOwn' BY <1>2, <1>5, NamesStay
<1>8. FilesOfTheirOwn' BY <1>2, <1>3, ArchivesAreNoBlank DEF ArchiveInv, FilesOfTheirOwn
<1>9. ASSUME NEW t \in ArchiveSavers PROVE StagedFile(t)'
  <2>1. CASE t # s /\ saver[t].at \in {"opened", "half", "written"}
    <3>1. saver[t].name \in DirectoryNames \ {n} /\ saver'[t] = saver[t]
      BY <1>1, <1>5, <2>1, ArchivesAreNoBlank DEF ArchiveInv, NamesOfTheirOwn
    <3>2. QED BY <1>2, <1>3, <2>1, <3>1 DEF ArchiveInv, StagedFile
  <2>2. CASE t = s \/ saver[t].at \notin {"opened", "half", "written"} BY <1>5, <2>2 DEF StagedFile
  <2>3. QED BY <2>1, <2>2
<1>10. names'[Target] = names[Target] BY <1>1, <1>3, ArchivesAreNoBlank
<1>11. WholeFiles' BY <1>2, <1>10 DEF ArchiveInv, WholeFiles, WholeFile
<1>12. ArchiveInv'
  <2>1. UnusedReads' BY <1>2 DEF ArchiveInv, UnusedReads
  <2>2. QED BY <1>6, <1>7, <1>8, <1>9, <1>11, <2>1 DEF ArchiveInv
<1>13. WholeStep
  <2>1. \A t \in ArchiveSavers : UNCHANGED Pending(t) BY <1>1, <1>5 DEF Pending
  <2>2. UNCHANGED Stored(names[Target]) /\ \A r \in ArchiveReaders : UNCHANGED Stored(reader[r].map)
    BY <1>2, <1>10 DEF Stored
  <2>3. QED BY <1>12, <2>1, <2>2, HiddenStep
<1>14. QED BY <1>12, <1>13

\* What a reader maps is the whole archive of the destination, and stays it.
LEMMA OpenArchiveKeeps ==
  ASSUME ArchiveInv, NEW r \in ArchiveReaders, OpenArchive(r)
  PROVE  ArchiveInv' /\ WholeStep
<1> DEFINE i == names[Target]
<1>1. i \in Inodes /\ i # Blank /\ WholeFile(i)
  BY InodesAreNumbers, ArchivesAreNoBlank DEF OpenArchive, ArchiveInv, ArchiveTypes, WholeFiles
<1>2. UNCHANGED <<inode, names, serial, saver, begun>> BY DEF OpenArchive
<1>3. /\ reader' \in [ArchiveReaders -> [map : Inodes \cup {Blank}, got : Seq(PartValues)]]
      /\ reader[r].map = Blank /\ reader'[r].map = i /\ reader'[r].got = reader[r].got
      /\ \A q \in ArchiveReaders \ {r} : reader'[q] = reader[q]
  BY <1>1 DEF OpenArchive, ArchiveInv, ArchiveTypes
<1>4. reader[r].got = <<>> BY <1>3 DEF ArchiveInv, UnusedReads
<1>5. ArchiveTypes' BY <1>2, <1>3 DEF ArchiveInv, ArchiveTypes
<1>6. NamesOfTheirOwn' /\ (\A s \in ArchiveSavers : StagedFile(s)')
  BY <1>2 DEF ArchiveInv, NamesOfTheirOwn, StagedFile
<1>7. FilesOfTheirOwn' BY <1>1, <1>2, <1>3, ArchivesAreNoBlank DEF ArchiveInv, FilesOfTheirOwn
<1>8. WholeFiles'
  <2>1. ASSUME NEW q \in ArchiveReaders, reader'[q].map # Blank
        PROVE  /\ WholeFile(reader'[q].map)
               /\ Len(reader'[q].got) <= 2
               /\ \A k \in 1 .. Len(reader'[q].got) : reader'[q].got[k] = inode[reader'[q].map][1]
    <3>1. CASE q = r
      <4>1. Len(<<>>) = 0 /\ 1 .. 0 = {} OBVIOUS
      <4>2. QED BY <1>1, <1>3, <1>4, <3>1, <4>1
    <3>2. CASE q # r BY <1>3, <2>1, <3>2 DEF ArchiveInv, WholeFiles
    <3>3. QED BY <3>1, <3>2
  <2>2. QED BY <1>2, <2>1 DEF ArchiveInv, WholeFiles, WholeFile
<1>9. UnusedReads' BY <1>1, <1>3 DEF ArchiveInv, UnusedReads
<1>10. ArchiveInv' BY <1>5, <1>6, <1>7, <1>8, <1>9 DEF ArchiveInv
<1>11. Whole!Open(r)
  <2>1. Viewed(r) = Blank /\ Viewed(r)' = inode[i]
    BY <1>1, <1>2, <1>3, <1>10, NextViewIsOfMap DEF Viewed, Stored
  <2>2. Stored(i) = inode[i] /\ inode[i] # Blank /\ UNCHANGED Stored(names[Target])
    BY <1>1, <1>2, ArchivesAreNoBlank DEF Stored, WholeFile
  <2>3. \A q \in ArchiveReaders \ {r} : Viewed(q)' = Viewed(q) BY <1>2, <1>3 DEF Viewed
  <2>4. [q \in ArchiveReaders |-> Viewed(q)'] = [[q \in ArchiveReaders |-> Viewed(q)] EXCEPT ![r] = inode[i]]
    <3>1. \A q \in ArchiveReaders : Viewed(q)' = IF q = r THEN inode[i] ELSE Viewed(q) BY <2>1, <2>3
    <3>2. QED BY <3>1
  <2>5. QED BY <1>2, <2>1, <2>2, <2>4 DEF Whole!Open
<1>12. QED BY <1>10, <1>11 DEF WholeStep, Whole!Next

LEMMA ReadPartKeeps ==
  ASSUME ArchiveInv, NEW r \in ArchiveReaders, ReadPart(r)
  PROVE  ArchiveInv' /\ WholeStep
<1> DEFINE i == reader[r].map
           g == reader[r].got
           h == Append(g, inode[i][Len(g) + 1])
<1>1. i \in Inodes /\ i # Blank /\ g \in Seq(PartValues) /\ Len(g) < 2
  BY InodesAreNumbers DEF ReadPart, ArchiveInv, ArchiveTypes
<1>2. PICK a \in Archived : inode[i] = <<a, a>> BY <1>1 DEF ArchiveInv, WholeFiles, WholeFile
<1>3. \A k \in 1 .. Len(g) : g[k] = a
  <2>1. \A k \in 1 .. Len(g) : g[k] = inode[i][1] BY <1>1 DEF ArchiveInv, WholeFiles
  <2>2. QED BY <1>2, <2>1
<1>4. inode[i][Len(g) + 1] = a /\ a \in PartValues
  <2>1. Len(g) \in Nat /\ \A m \in Nat : m < 2 => m + 1 = 1 \/ m + 1 = 2 BY <1>1
  <2>2. Len(g) + 1 = 1 \/ Len(g) + 1 = 2 BY <1>1, <2>1
  <2>3. inode[i][1] = a /\ inode[i][2] = a BY <1>2
  <2>4. QED BY <2>2, <2>3 DEF PartValues
<1>5. h \in Seq(PartValues) /\ Len(h) <= 2 /\ \A k \in 1 .. Len(h) : h[k] = a
  <2> HIDE DEF g
  <2>1. h = Append(g, a) BY <1>4
  <2>2. QED BY <1>1, <1>3, <1>4, <2>1
<1>6. UNCHANGED <<inode, names, serial, saver, begun>> BY DEF ReadPart
<1>7. /\ reader' \in [ArchiveReaders -> [map : Inodes \cup {Blank}, got : Seq(PartValues)]]
      /\ reader'[r].map = i /\ reader'[r].got = h
      /\ \A q \in ArchiveReaders \ {r} : reader'[q] = reader[q]
  BY <1>1, <1>5 DEF ReadPart, ArchiveInv, ArchiveTypes
<1>8. ArchiveTypes' BY <1>6, <1>7 DEF ArchiveInv, ArchiveTypes
<1>9. NamesOfTheirOwn' /\ (\A s \in ArchiveSavers : StagedFile(s)')
  BY <1>6 DEF ArchiveInv, NamesOfTheirOwn, StagedFile
<1>10. FilesOfTheirOwn' BY <1>6, <1>7 DEF ArchiveInv, FilesOfTheirOwn
<1> HIDE DEF g, h
<1>11. WholeFiles'
  <2>1. ASSUME NEW q \in ArchiveReaders, reader'[q].map # Blank
        PROVE  /\ WholeFile(reader'[q].map)
               /\ Len(reader'[q].got) <= 2
               /\ \A k \in 1 .. Len(reader'[q].got) : reader'[q].got[k] = inode[reader'[q].map][1]
    <3>1. CASE q = r
      <4>1. inode[i][1] = a /\ WholeFile(i) BY <1>2 DEF WholeFile
      <4>2. QED BY <1>5, <1>7, <3>1, <4>1
    <3>2. CASE q # r BY <1>7, <2>1, <3>2 DEF ArchiveInv, WholeFiles
    <3>3. QED BY <3>1, <3>2
  <2>2. QED BY <1>6, <2>1 DEF ArchiveInv, WholeFiles, WholeFile
<1>12. UnusedReads' BY <1>1, <1>7 DEF ArchiveInv, UnusedReads
<1>13. ArchiveInv' BY <1>8, <1>9, <1>10, <1>11, <1>12 DEF ArchiveInv
<1>14. WholeStep
  <2>1. \A s \in ArchiveSavers : UNCHANGED Pending(s) BY <1>6 DEF Pending
  <2>2. UNCHANGED Stored(names[Target]) /\ \A q \in ArchiveReaders : UNCHANGED Stored(reader[q].map)
    BY <1>6, <1>7 DEF Stored
  <2>3. QED BY <1>13, <2>1, <2>2, HiddenStep
<1>15. QED BY <1>13, <1>14

\* Readers that close and savers that are gone, alone or with their process.
LEMMA LeaveKeeps ==
  ASSUME ArchiveInv, NEW S \in SUBSET ArchiveSavers, NEW R \in SUBSET ArchiveReaders,
         UNCHANGED <<inode, names, begun>>,
         saver' = [s \in ArchiveSavers |-> IF s \in S THEN IdleSaver ELSE saver[s]],
         reader' = [r \in ArchiveReaders |-> IF r \in R THEN IdleReader ELSE reader[r]],
         serial' \in [Processes -> Nat],
         \A p \in Processes : serial'[p] = serial[p] \/ (serial'[p] = 0 /\ \A s \in ArchiveSavers : ProcessOf[s] = p => s \in S)
  PROVE  ArchiveInv' /\ WholeStep
<1>1. /\ IdleSaver \in SaverStates /\ IdleSaver.at = "idle"
      /\ IdleReader \in [map : Inodes \cup {Blank}, got : Seq(PartValues)]
      /\ IdleReader.map = Blank /\ IdleReader.got = <<>>
  <2>1. <<>> \in Seq(PartValues) OBVIOUS
  <2>2. QED BY <2>1, ArchivesAreNoBlank DEF IdleSaver, IdleReader, SaverStates, PartValues
<1>2. ArchiveTypes' BY <1>1 DEF ArchiveInv, ArchiveTypes
<1>3. NamesOfTheirOwn'
  <2>1. \A p \in Processes : serial'[p] <= begun'
    <3>1. begun \in Nat /\ begun' = begun /\ \A p \in Processes : serial[p] <= begun
      BY DEF ArchiveInv, ArchiveTypes, NamesOfTheirOwn
    <3>2. QED BY <3>1
  <2>2. \A t \in ArchiveSavers : saver'[t].at # "idle" => t \notin S /\ saver'[t] = saver[t] BY <1>1
  <2>3. \A t \in ArchiveSavers : t \notin S => serial'[ProcessOf[t]] = serial[ProcessOf[t]]
    BY DEF Processes
  <2>4. QED BY <2>1, <2>2, <2>3 DEF ArchiveInv, NamesOfTheirOwn
<1>4. FilesOfTheirOwn' BY <1>1 DEF ArchiveInv, FilesOfTheirOwn
<1>5. \A s \in ArchiveSavers : StagedFile(s)' BY <1>1 DEF ArchiveInv, StagedFile
<1>6. WholeFiles' BY <1>1 DEF ArchiveInv, WholeFiles, WholeFile
<1>7. UnusedReads' BY <1>1 DEF ArchiveInv, UnusedReads
<1>8. ArchiveInv' BY <1>2, <1>3, <1>4, <1>5, <1>6, <1>7 DEF ArchiveInv
<1>9. WholeStep
  <2>1. \A s \in ArchiveSavers : Pending(s)' = IF s \in S THEN Blank ELSE Pending(s)
    BY <1>1 DEF Pending
  <2>2. \A r \in ArchiveReaders : Stored(reader[r].map)' = IF r \in R THEN Blank ELSE Stored(reader[r].map)
    BY <1>1 DEF Stored
  <2>3. UNCHANGED Stored(names[Target]) BY DEF Stored
  <2>4. QED BY <1>8, <2>1, <2>2, <2>3, DropStep
<1>10. QED BY <1>8, <1>9

LEMMA CloseArchiveKeeps ==
  ASSUME ArchiveInv, NEW r \in ArchiveReaders, CloseArchive(r)
  PROVE  ArchiveInv' /\ WholeStep
<1>1. reader' = [q \in ArchiveReaders |-> IF q \in {r} THEN IdleReader ELSE reader[q]]
  BY DEF CloseArchive, ArchiveInv, ArchiveTypes
<1>2. saver' = [s \in ArchiveSavers |-> IF s \in {} THEN IdleSaver ELSE saver[s]]
  BY DEF CloseArchive, ArchiveInv, ArchiveTypes
<1>3. UNCHANGED <<inode, names, begun, serial>> /\ serial' \in [Processes -> Nat]
  BY DEF CloseArchive, ArchiveInv, ArchiveTypes
<1>4. QED
  BY <1>1, <1>2, <1>3, LeaveKeeps, {} \in SUBSET ArchiveSavers, {r} \in SUBSET ArchiveReaders

\* A process that dies takes its savers and readers with it and forgets its counter.
LEMMA DiesKeeps ==
  ASSUME ArchiveInv, NEW p \in Processes, Dies(p)
  PROVE  ArchiveInv' /\ WholeStep
<1> DEFINE S == {s \in ArchiveSavers : ProcessOf[s] = p}
           R == {r \in ArchiveReaders : ProcessOf[r] = p}
<1>1. saver' = [s \in ArchiveSavers |-> IF s \in S THEN IdleSaver ELSE saver[s]] BY DEF Dies
<1>2. reader' = [r \in ArchiveReaders |-> IF r \in R THEN IdleReader ELSE reader[r]] BY DEF Dies
<1>3. UNCHANGED <<inode, names, begun>> /\ serial' \in [Processes -> Nat]
  BY DEF Dies, ArchiveInv, ArchiveTypes
<1>4. \A q \in Processes : serial'[q] = serial[q] \/ (serial'[q] = 0 /\ \A s \in ArchiveSavers : ProcessOf[s] = q => s \in S)
  BY DEF Dies, ArchiveInv, ArchiveTypes
<1>5. S \in SUBSET ArchiveSavers /\ R \in SUBSET ArchiveReaders OBVIOUS
<1> HIDE DEF S, R
<1>6. QED BY <1>1, <1>2, <1>3, <1>4, <1>5, LeaveKeeps

-----------------------------------------------------------------------------

\* Every step keeps the invariant and is one of AtomicArchive or none.
LEMMA ArchiveStep == ArchiveInv /\ [ArchiveNext]_archiveVars => ArchiveInv' /\ WholeStep
<1> SUFFICES ASSUME ArchiveInv, [ArchiveNext]_archiveVars PROVE ArchiveInv' /\ WholeStep OBVIOUS
<1>1. ASSUME NEW s \in ArchiveSavers,
             \/ BeginSave(s) \/ OpenStaged(s) \/ WriteHeader(s) \/ WriteTensors(s) \/ SaveFails(s)
             \/ Rename(s) \/ RenameFails(s) \/ RemoveStaged(s)
      PROVE  ArchiveInv' /\ WholeStep
  BY <1>1, BeginSaveKeeps, OpenStagedKeeps, WritePartKeeps, GiveUpKeeps, RenameKeeps, RemoveStagedKeeps
<1>2. ASSUME NEW r \in ArchiveReaders, OpenArchive(r) \/ ReadPart(r) \/ CloseArchive(r)
      PROVE  ArchiveInv' /\ WholeStep
  BY <1>2, OpenArchiveKeeps, ReadPartKeeps, CloseArchiveKeeps
<1>3. ASSUME NEW p \in Processes, Dies(p) PROVE ArchiveInv' /\ WholeStep BY <1>3, DiesKeeps
<1>4. CASE UNCHANGED archiveVars
  <2>1. UNCHANGED <<inode, names, serial, saver, reader, begun>> BY <1>4 DEF archiveVars
  <2>2. ArchiveInv'
    BY <2>1 DEF ArchiveInv, ArchiveTypes, NamesOfTheirOwn, FilesOfTheirOwn, StagedFile, WholeFiles, WholeFile,
                UnusedReads
  <2>3. /\ UNCHANGED Stored(names[Target])
        /\ \A s \in ArchiveSavers : UNCHANGED Pending(s)
        /\ \A r \in ArchiveReaders : UNCHANGED Stored(reader[r].map)
    BY <2>1 DEF Stored, Pending
  <2>4. QED BY <2>2, <2>3, HiddenStep
<1>5. QED BY <1>1, <1>2, <1>3, <1>4 DEF ArchiveNext

\* The archive at the destination is replaced as a whole or not at all, and a reader keeps what
\* it opened (include/slopfab/safetensors_write.h:26), for any number of processes, savers and
\* readers, through failures at every step and processes that die and meet the files they left.
THEOREM ArchivesAreAtomic == ArchiveSpec => ReplacesAtomically
<1>1. ArchiveInit => Whole!Init
  <2> SUFFICES ASSUME ArchiveInit PROVE Whole!Init OBVIOUS
  <2>1. names[Target] = Blank /\ \A s \in ArchiveSavers : saver[s].at = "idle"
    BY ArchivesAreNoBlank DEF ArchiveInit, IdleSaver, DirectoryNames
  <2>2. \A r \in ArchiveReaders : Viewed(r) = Blank BY DEF ArchiveInit, IdleReader, Viewed
  <2>3. QED BY <2>1, <2>2 DEF Whole!Init, Stored
<1>2. QED
  BY <1>1, ArchiveInitInv, ArchiveStep, PTL DEF ArchiveSpec, ReplacesAtomically, Whole!Spec, WholeStep

-----------------------------------------------------------------------------
(* The transformer's scratch arena.                                        *)

\* A quotient of numbers, by what it leaves.
LEMMA QuotientBounds ==
  ASSUME NEW a \in Nat, NEW b \in Nat \ {0}
  PROVE  a \div b \in Nat /\ (a \div b) * b <= a /\ a < (a \div b) * b + b
<1>1. a \div b \in Int /\ a % b \in 0 .. b - 1 /\ a = b * (a \div b) + (a % b) BY SMTT(30)
<1> DEFINE q == a \div b
           r == a % b
<1> HIDE DEF q, r
<1>2. q \in Int /\ r \in 0 .. b - 1 /\ a = b * q + r BY <1>1 DEF q, r
<1>3. q >= 0
  <2>1. q < 0 => b * q <= -b BY <1>2
  <2>2. QED BY <1>2, <2>1
<1>4. q \in Nat /\ q * b <= a /\ a < q * b + b BY <1>2, <1>3
<1>5. QED BY <1>4 DEF q

\* What a piece is rounded up to.
LEMMA PaddedIs ==
  ASSUME NEW n \in Nat
  PROVE  Padded(n) \in Nat /\ n <= Padded(n) /\ Padded(n) < n + ScratchAlign
<1>1. ScratchAlign \in Nat \ {0} BY MemoryAssumption
<1> DEFINE a == n + ScratchAlign - 1
           p == (a \div ScratchAlign) * ScratchAlign
<1>2. a \in Nat BY <1>1
<1> HIDE DEF a
<1>3. a \div ScratchAlign \in Nat /\ p <= a /\ a < p + ScratchAlign BY <1>1, <1>2, QuotientBounds
<1>4. p \in Nat BY <1>1, <1>3
<1> HIDE DEF p
<1>5. p \in Nat /\ n <= p /\ p < n + ScratchAlign BY <1>1, <1>3, <1>4 DEF a
<1>6. Padded(n) = p BY DEF Padded, p, a
<1>7. QED BY <1>5, <1>6

\* More is never rounded to less.
LEMMA PaddedGrows ==
  ASSUME NEW m \in Nat, NEW n \in Nat, m <= n
  PROVE  Padded(m) <= Padded(n)
<1>1. ScratchAlign \in Nat \ {0} BY MemoryAssumption
<1> DEFINE a == m + ScratchAlign - 1
           b == n + ScratchAlign - 1
           p == a \div ScratchAlign
           q == b \div ScratchAlign
<1>2. a \in Nat /\ b \in Nat /\ a <= b BY <1>1
<1> HIDE DEF a, b
<1>3. p \in Nat /\ p * ScratchAlign <= a /\ q \in Nat /\ b < q * ScratchAlign + ScratchAlign
  BY <1>1, <1>2, QuotientBounds
<1> HIDE DEF p, q
<1>4. p <= q
  <2>1. ASSUME q + 1 <= p PROVE FALSE
    <3>1. (q + 1) * ScratchAlign <= p * ScratchAlign BY <1>1, <1>3, <2>1
    <3>2. (q + 1) * ScratchAlign = q * ScratchAlign + ScratchAlign BY <1>1, <1>3
    <3>3. QED BY <1>1, <1>2, <1>3, <3>1, <3>2
  <2>2. QED BY <1>3, <2>1
<1>5. p * ScratchAlign <= q * ScratchAlign BY <1>1, <1>3, <1>4
<1>6. QED BY <1>5 DEF Padded, p, q, a, b

\* The larger of some numbers, and of 0.
LEMMA LargerIs ==
  ASSUME NEW n \in Nat, NEW S \in SUBSET (-n .. n)
  PROVE  /\ Larger(S) \in Nat /\ Larger(S) \in S \cup {0}
         /\ \A y \in S : y <= Larger(S)
<1> DEFINE U == S \cup {0}
           T == {n - s : s \in U}
<1>0. U \subseteq Int /\ 0 \in U /\ \A s \in U : n - s \in Nat OBVIOUS
<1>1. T \in SUBSET Nat BY <1>0
<1>2. n - 0 \in T BY <1>0
<1>3. PICK t \in T : \A u \in T : t <= u BY <1>1, <1>2, LeastNatural
<1>4. PICK x \in U : t = n - x BY <1>3
<1>5. \A y \in U : n - x <= n - y BY <1>3, <1>4
<1>6. \A y \in U : x >= y BY <1>0, <1>5
<1>7. Max(U) \in U /\ \A y \in U : y <= Max(U)
  <2> HIDE DEF U
  <2>1. QED BY <1>0, <1>6 DEF Max
<1>8. Max(U) \in Nat
  <2> HIDE DEF U, T
  <2>1. Max(U) \in Int /\ 0 <= Max(U) BY <1>0, <1>7
  <2>2. QED BY <2>1
<1>9. Larger(S) = Max(U) BY DEF Larger
<1>10. QED
  <2> HIDE DEF T
  <2>1. QED BY <1>7, <1>8, <1>9

\* Of two.
LEMMA LargerOfTwo ==
  ASSUME NEW a \in Nat, NEW b \in Nat
  PROVE  Larger({a, b}) = IF a >= b THEN a ELSE b
<1>1. {a, b} \in SUBSET (-(a + b) .. a + b) /\ a + b \in Nat OBVIOUS
<1>2. /\ Larger({a, b}) \in Nat /\ Larger({a, b}) \in {a, b} \cup {0}
      /\ \A y \in {a, b} : y <= Larger({a, b})
  BY ONLY <1>1, LargerIs
<1>3. QED BY <1>2

\* Of one, which may be negative.
LEMMA LargerOfOne ==
  ASSUME NEW a \in Int
  PROVE  Larger({a}) = IF a >= 0 THEN a ELSE 0
<1> DEFINE n == IF a >= 0 THEN a ELSE -a
<1>1. {a} \in SUBSET (-n .. n) /\ n \in Nat OBVIOUS
<1> HIDE DEF n
<1>2. /\ Larger({a}) \in Nat /\ Larger({a}) \in {a} \cup {0}
      /\ \A y \in {a} : y <= Larger({a})
  BY ONLY <1>1, LargerIs
<1>3. QED BY <1>2

\* Of five.
LEMMA LargerOfFive ==
  ASSUME NEW a \in Nat, NEW b \in Nat, NEW c \in Nat, NEW d \in Nat, NEW e \in Nat
  PROVE  LET m == Larger({a, b, c, d, e})
         IN m \in Nat /\ a <= m /\ b <= m /\ c <= m /\ d <= m /\ e <= m /\ m \in {a, b, c, d, e}
<1> DEFINE S == {a, b, c, d, e}
           n == a + b + c + d + e
<1>1. S \in SUBSET (-n .. n) /\ n \in Nat OBVIOUS
<1>0. a \in S OBVIOUS
<1>2. Larger(S) \in Nat /\ Larger(S) \in S \cup {0} /\ \A y \in S : y <= Larger(S)
  <2> HIDE DEF S, n
  <2>1. QED BY ONLY <1>1, LargerIs
<1> DEFINE m == Larger(S)
<1> HIDE DEF m
<1>3. m \in Nat /\ m \in S \cup {0} /\ \A y \in S : y <= m BY <1>2 DEF m
<1>4. m \in S BY <1>0, <1>3
<1>5. QED BY <1>3, <1>4 DEF m

\* Chunks have some rows, and no more than a loop takes at once.
LEMMA ChunkIs ==
  ASSUME NEW rows \in Nat
  PROVE  Chunk(rows) \in 1 .. RowChunk /\ (rows > Chunk(rows) => Chunk(rows) = RowChunk)
<1> DEFINE x == Larger({rows, 1})
<1>1. x \in Nat \ {0} /\ (x > rows => x = 1) /\ x >= rows BY LargerOfTwo
<1> HIDE DEF x
<1>2. RowChunk \in Nat \ {0} BY MemoryAssumption
<1>3. Min({RowChunk, x}) = IF RowChunk <= x THEN RowChunk ELSE x BY <1>1, <1>2 DEF Min
<1>4. QED BY <1>1, <1>2, <1>3 DEF Chunk, x

\* No larger than a bound of all.
LEMMA LargerAtMost ==
  ASSUME NEW n \in Nat, NEW S \in SUBSET (0 .. n)
  PROVE  Larger(S) \in 0 .. n
<1>1. S \in SUBSET (-n .. n) OBVIOUS
<1>2. Larger(S) \in Nat /\ Larger(S) \in S \cup {0} BY ONLY <1>1, LargerIs
<1>3. QED BY <1>2

\* The rows a pass of the native product takes.
LEMMA NativePassIs ==
  ASSUME NEW rows \in Nat
  PROVE  Min({rows, NativeRows}) \in 0 .. rows
<1>1. NativeRows \in Nat BY MemoryAssumption
<1>2. Min({rows, NativeRows}) = IF rows <= NativeRows THEN rows ELSE NativeRows BY <1>1 DEF Min
<1>3. QED BY <1>1, <1>2

\* Factors of products in order.
LEMMA ProductGrows ==
  ASSUME NEW a \in Nat, NEW b \in Nat, NEW c \in Nat, NEW d \in Nat, a <= c, b <= d
  PROVE  a * b \in Nat /\ c * d \in Nat /\ a * b <= c * d
<1>1. a * b <= c * b BY SMTT(30)
<1>2. c * b <= c * d BY SMTT(30)
<1>3. a * b \in Nat /\ c * d \in Nat /\ c * b \in Nat OBVIOUS
<1>4. QED BY <1>1, <1>2, <1>3

\* The widths are numbers, far apart.
LEMMA Widths ==
  /\ Hidden \in Nat /\ Inner \in Nat /\ Ffn \in Nat /\ TextDim \in Nat \ {0} /\ TimestepDim \in Nat
  /\ ScratchAlign \in Nat \ {0} /\ RowChunk \in Nat \ {0} /\ GroupColumns \in Nat \ {0}
  /\ 2 * RowChunk <= Hidden /\ Hidden <= Inner /\ 2 * Hidden <= Ffn /\ ScratchAlign <= RowChunk /\ 32 <= Hidden
BY MemoryAssumption, WidthsAssumption

-----------------------------------------------------------------------------
(* What one weight needs, against its dense copy and one activation.       *)

\* The quantised activation of the native product is smaller than the weight's dense copy would be.
LEMMA NativeIsSmall ==
  ASSUME NEW w, w.out \in Nat, w.in \in Nat \ {0}, Hidden <= w.out, NEW rows \in Nat
  PROVE  /\ NativeBytes(w, Chunk(rows)) \in Nat
         /\ NativeBytes(w, Chunk(rows)) <= Padded(2 * w.out * w.in)
<1> DEFINE c == Chunk(rows)
           r == Min({c, NativeRows})
           n == w.in
           out == w.out
<1>1. c \in 1 .. RowChunk BY ChunkIs
<1> HIDE DEF c
<1>2. r \in 0 .. c BY <1>1, NativePassIs, Widths
<1> HIDE DEF r
<1>3. r * n \in Nat /\ r * n <= RowChunk * n /\ RowChunk * n \in Nat
  BY <1>1, <1>2, Widths, ProductGrows
<1> DEFINE x == r * n
           y == RowChunk * n
           z == 2 * out * n
<1>4. z \in Nat /\ 4 * y <= z
  <2>1. 2 * RowChunk <= out BY Widths
  <2>2. (2 * RowChunk) * n <= out * n BY <2>1, Widths, ProductGrows
  <2>3. (2 * RowChunk) * n = 2 * y /\ z = 2 * (out * n) /\ out * n \in Nat BY <1>3, Widths
  <2>4. QED BY <1>3, <2>2, <2>3
<1>5. RowChunk <= y
  <2>1. RowChunk * 1 <= RowChunk * n BY Widths, ProductGrows
  <2>2. QED BY <2>1, Widths
<1>6. x \in Nat /\ y \in Nat /\ x <= y BY <1>3
<1> HIDE DEF x, y, z
<1>7. x \div 2 \in Nat /\ (x \div 2) * 2 <= x /\ x \div 16 \in Nat /\ (x \div 16) * 16 <= x
  BY <1>6, QuotientBounds
<1>8. /\ Padded(x \div 2) \in Nat /\ Padded(x \div 2) < x \div 2 + ScratchAlign
      /\ Padded(x \div 16) \in Nat /\ Padded(x \div 16) < x \div 16 + ScratchAlign
      /\ Padded(z) \in Nat /\ z <= Padded(z)
  BY <1>4, <1>7, PaddedIs
<1>9. Padded(x \div 2) + Padded(x \div 16) <= Padded(z)
  <2> DEFINE h == x \div 2
             s == x \div 16
             ph == Padded(h)
             ps == Padded(s)
             pz == Padded(z)
  <2>1. h \in Nat /\ 2 * h <= x /\ s \in Nat /\ 16 * s <= x BY <1>7
  <2>2. ph \in Nat /\ ph < h + ScratchAlign /\ ps \in Nat /\ ps < s + ScratchAlign /\ pz \in Nat /\ z <= pz
    BY <1>8
  <2> HIDE DEF h, s, ph, ps, pz
  <2>3. ph + ps <= pz BY <1>4, <1>5, <1>6, <2>1, <2>2, Widths
  <2>4. QED BY <2>3 DEF ph, ps, pz, h, s
<1>10. NativeBytes(w, c) = Padded(x \div 2) + Padded(x \div 16) BY DEF NativeBytes, x, r
<1>11. QED BY <1>8, <1>9, <1>10 DEF c, z, out, n

\* Any weight but a packed one: a copy, an activation where the stack rotates, or the native product.
LEMMA WeightFits ==
  ASSUME NEW s \in Stacks, NEW format, ~IsPackedInt8(format),
         NEW out \in Nat, Hidden <= out, NEW in \in Nat \ {0}, NEW rotated \in BOOLEAN,
         NEW rows \in Nat, NEW exact \in BOOLEAN
  PROVE  LET w == LinearOf(format, out, in, rotated)
             copy == Prepares(s, w)
             piece == Projects(s, w, Chunk(rows), exact)
             dense == Padded(2 * out * in)
             activation == IF rotated THEN Padded(2 * Chunk(rows) * in) ELSE 0
         IN /\ copy \in Nat /\ piece \in Nat /\ copy <= dense
            /\ piece <= activation \/ (copy = 0 /\ piece <= dense)
<1> DEFINE w == LinearOf(format, out, in, rotated)
           c == Chunk(rows)
           dense == Padded(2 * out * in)
           act == Padded(2 * c * in)
<1>1. w.format = format /\ w.out = out /\ w.in = in /\ w.rotated = rotated BY DEF LinearOf
<1>2. c \in Nat BY ChunkIs, Widths
<1>3. dense \in Nat /\ act \in Nat
  <2>1. 2 * out * in \in Nat /\ 2 * c * in \in Nat BY <1>2
  <2>2. QED BY <2>1, PaddedIs
<1>4. NativeBytes(w, c) \in Nat /\ NativeBytes(w, c) <= dense BY <1>1, NativeIsSmall
<1>5. Prepares(s, w) = IF TakesNative(s, w) \/ format = "BF16" THEN 0 ELSE dense
  BY <1>1 DEF Prepares
<1>6. Projects(s, w, c, exact) = IF ~exact /\ TakesNative(s, w) THEN NativeBytes(w, c)
                                 ELSE IF Rotates(w) THEN act ELSE 0
  BY <1>1 DEF Projects
<1>7. Rotates(w) => rotated BY <1>1 DEF Rotates
<1>8. TakesNative(s, w) => ~Rotates(w) BY DEF TakesNative
<1> DEFINE p == Prepares(s, w)
           j == Projects(s, w, c, exact)
           native == NativeBytes(w, c)
           activation == IF rotated THEN act ELSE 0
<1> HIDE DEF w, c, dense, act
<1>9. CASE TakesNative(s, w)
  <2>1. p = 0 /\ j = IF ~exact THEN native ELSE 0 BY <1>5, <1>6, <1>8, <1>9
  <2> HIDE DEF p, j, native
  <2>2. native \in Nat /\ native <= dense BY <1>4 DEF native
  <2>3. p \in Nat /\ j \in Nat /\ p <= dense /\ p = 0 /\ j <= dense BY <1>3, <2>1, <2>2
  <2>4. QED BY <2>3 DEF p, j, w, c, dense, act
<1>10. CASE ~TakesNative(s, w)
  <2>1. p = (IF format = "BF16" THEN 0 ELSE dense) /\ j = IF Rotates(w) THEN act ELSE 0
    BY <1>5, <1>6, <1>10
  <2> HIDE DEF p, j
  <2>2. p \in Nat /\ j \in Nat /\ p <= dense BY <1>3, <2>1
  <2>3. j <= activation BY <1>3, <1>7, <2>1
  <2>4. QED BY <2>2, <2>3 DEF p, j, w, c, dense, act
<1>11. QED BY <1>9, <1>10

\* A packed weight carves its codes and activations, and no copy.
LEMMA PackedCarves ==
  ASSUME NEW s \in Stacks, NEW format, IsPackedInt8(format),
         NEW out, NEW in, NEW rotated, NEW rows, NEW exact
  PROVE  LET w == LinearOf(format, out, in, rotated)
         IN Prepares(s, w) = 0 /\ Projects(s, w, rows, exact) = PackedBytes(w, rows)
<1> DEFINE w == LinearOf(format, out, in, rotated)
<1>1. IsPackedInt8(w.format) BY DEF LinearOf
<1> HIDE DEF w
<1>2. Prepares(s, w) = 0 BY <1>1 DEF Prepares
<1>3. Projects(s, w, rows, exact) = PackedBytes(w, rows)
  BY <1>1 DEF Projects, IsPackedInt8, TakesNative
<1>4. QED BY <1>2, <1>3 DEF w

\* What that is, but for the rounding.
LEMMA PackedIs ==
  ASSUME NEW format, NEW rotated, NEW out \in Nat, NEW in \in Nat, NEW rows \in Nat
  PROVE  LET bytes == PackedBytes(LinearOf(format, out, in, rotated), rows)
         IN /\ bytes \in Nat
            /\ bytes <= out * in + 3 * (rows * in) + 4 * rows + 4 * (rows * out) + 5 * ScratchAlign
<1> DEFINE w == LinearOf(format, out, in, rotated)
           a == out * in
           b == rows * in
           d == rows * out
<1>1. w.out = out /\ w.in = in BY DEF LinearOf
<1>2. a \in Nat /\ b \in Nat /\ d \in Nat OBVIOUS
<1>3. 2 * rows * in = 2 * b /\ 4 * rows * out = 4 * d OBVIOUS
<1>4. PackedBytes(w, rows) = Padded(a) + Padded(2 * b) + Padded(b) + Padded(4 * rows) + Padded(4 * d)
  BY <1>1, <1>3 DEF PackedBytes
<1> HIDE DEF w, a, b, d
<1>5. /\ Padded(a) \in Nat /\ Padded(a) < a + ScratchAlign
      /\ Padded(2 * b) \in Nat /\ Padded(2 * b) < 2 * b + ScratchAlign
      /\ Padded(b) \in Nat /\ Padded(b) < b + ScratchAlign
      /\ Padded(4 * rows) \in Nat /\ Padded(4 * rows) < 4 * rows + ScratchAlign
      /\ Padded(4 * d) \in Nat /\ Padded(4 * d) < 4 * d + ScratchAlign
  BY <1>2, PaddedIs
<1>6. /\ PackedBytes(w, rows) \in Nat
      /\ PackedBytes(w, rows) <= a + 3 * b + 4 * rows + 4 * d + 5 * ScratchAlign
  BY <1>2, <1>4, <1>5, Widths
<1>7. QED BY <1>6 DEF w, a, b, d

-----------------------------------------------------------------------------
(* What the plan holds for the loops.                                      *)

SliceDense == Padded(2 * Inner * Hidden)
OutputDense == Padded(2 * Hidden * Inner)
UpDense == Padded(2 * (2 * Ffn) * Hidden)
DownDense == Padded(2 * Hidden * Ffn)
HeadBytes == Padded(2 * Hidden * TextDim) + Padded(4 * Hidden * TextDim)
Activation(rows, rotated, in) == IF rotated THEN Padded(2 * Chunk(rows) * in) ELSE 0

\* The dense copies, against the products of the widths.
LEMMA DenseIs ==
  /\ SliceDense \in Nat /\ 2 * (Inner * Hidden) <= SliceDense
  /\ OutputDense \in Nat /\ 2 * (Hidden * Inner) <= OutputDense
  /\ UpDense \in Nat /\ 4 * (Ffn * Hidden) <= UpDense
  /\ DownDense \in Nat /\ 2 * (Hidden * Ffn) <= DownDense
  /\ HeadBytes \in Nat /\ 6 * (Hidden * TextDim) <= HeadBytes /\ Padded(2 * Hidden * TextDim) <= HeadBytes
<1>1. /\ 2 * Inner * Hidden = 2 * (Inner * Hidden) /\ Inner * Hidden \in Nat
      /\ 2 * Hidden * Inner = 2 * (Hidden * Inner) /\ Hidden * Inner \in Nat
      /\ 2 * (2 * Ffn) * Hidden = 4 * (Ffn * Hidden) /\ Ffn * Hidden \in Nat
      /\ 2 * Hidden * Ffn = 2 * (Hidden * Ffn) /\ Hidden * Ffn \in Nat
      /\ 2 * Hidden * TextDim = 2 * (Hidden * TextDim) /\ Hidden * TextDim \in Nat
      /\ 4 * Hidden * TextDim = 4 * (Hidden * TextDim)
  BY Widths
<1>2. SliceDense \in Nat /\ 2 * (Inner * Hidden) <= SliceDense BY <1>1, PaddedIs DEF SliceDense
<1>3. OutputDense \in Nat /\ 2 * (Hidden * Inner) <= OutputDense BY <1>1, PaddedIs DEF OutputDense
<1>4. UpDense \in Nat /\ 4 * (Ffn * Hidden) <= UpDense BY <1>1, PaddedIs DEF UpDense
<1>5. DownDense \in Nat /\ 2 * (Hidden * Ffn) <= DownDense BY <1>1, PaddedIs DEF DownDense
<1> DEFINE a == Padded(2 * Hidden * TextDim)
           b == Padded(4 * Hidden * TextDim)
           t == Hidden * TextDim
<1>6. a \in Nat /\ 2 * t <= a /\ b \in Nat /\ 4 * t <= b /\ t \in Nat BY <1>1, PaddedIs
<1>7. HeadBytes = a + b BY DEF HeadBytes
<1> HIDE DEF a, b, t
<1>8. HeadBytes \in Nat /\ 6 * t <= HeadBytes /\ a <= HeadBytes BY <1>6, <1>7
<1>9. QED BY <1>2, <1>3, <1>4, <1>5, <1>8 DEF a, t

\* One rotated activation.
LEMMA ActivationIs ==
  ASSUME NEW rows \in Nat, NEW rotated \in BOOLEAN, NEW in \in Nat
  PROVE  /\ Activation(rows, rotated, in) \in Nat
         /\ Activation(rows, FALSE, in) = 0
         /\ rotated => 2 * (Chunk(rows) * in) <= Activation(rows, rotated, in)
<1>1. Chunk(rows) \in Nat BY ChunkIs, Widths
<1>2. 2 * Chunk(rows) * in = 2 * (Chunk(rows) * in) /\ 2 * (Chunk(rows) * in) \in Nat BY <1>1
<1>3. Padded(2 * Chunk(rows) * in) \in Nat /\ 2 * (Chunk(rows) * in) <= Padded(2 * Chunk(rows) * in)
  BY <1>2, PaddedIs
<1>4. QED BY <1>3 DEF Activation

\* The plan is the most of five.
LEMMA PlanIs ==
  ASSUME NEW rows \in Nat, NEW rotated \in BOOLEAN
  PROVE  LET plan == PlanScratch(rows, rotated)
             act(in) == Activation(rows, rotated, in)
             five == {3 * SliceDense + act(Hidden), OutputDense + act(Inner),
                      SliceDense + OutputDense + Larger({act(Hidden), act(Inner)}),
                      UpDense + DownDense + Larger({act(Hidden), act(Ffn)}), HeadBytes}
         IN plan \in Nat /\ plan \in five /\ \A n \in five : n <= plan
<1> DEFINE act(in) == Activation(rows, rotated, in)
           a == 3 * SliceDense + act(Hidden)
           b == OutputDense + act(Inner)
           c == SliceDense + OutputDense + Larger({act(Hidden), act(Inner)})
           d == UpDense + DownDense + Larger({act(Hidden), act(Ffn)})
           e == HeadBytes
<1>1. act(Hidden) \in Nat /\ act(Inner) \in Nat /\ act(Ffn) \in Nat BY Widths, ActivationIs
<1>2. Larger({act(Hidden), act(Inner)}) \in Nat /\ Larger({act(Hidden), act(Ffn)}) \in Nat
  <2> HIDE DEF act
  <2>1. QED BY <1>1, LargerOfTwo
<1>3. PlanScratch(rows, rotated) = Larger({a, b, c, d, e})
  <2> DEFINE copy(out, in) == LinearDenseWeightBytes(LinearOf("F8", out, in, rotated))
             head == LinearWorkspaceBytes(LinearOf("BF16", Hidden, TextDim, FALSE), Chunk(rows))
  <2>1. /\ copy(Inner, Hidden) = SliceDense /\ copy(Hidden, Inner) = OutputDense
        /\ copy(2 * Ffn, Hidden) = UpDense /\ copy(Hidden, Ffn) = DownDense
    BY DEF LinearDenseWeightBytes, LinearOf, IsPackedInt8, SliceDense, OutputDense, UpDense, DownDense
  <2>2. head = HeadBytes
    <3>1. head = HeadBytes + 0 BY DEF LinearWorkspaceBytes, LinearOf, Rotates, HeadBytes
    <3> HIDE DEF head
    <3>2. QED BY <3>1, DenseIs
  <2>3. PlanScratch(rows, rotated)
          = Larger({3 * copy(Inner, Hidden) + act(Hidden), copy(Hidden, Inner) + act(Inner),
                    copy(Inner, Hidden) + copy(Hidden, Inner) + Larger({act(Hidden), act(Inner)}),
                    copy(2 * Ffn, Hidden) + copy(Hidden, Ffn) + Larger({act(Hidden), act(Ffn)}), head})
    BY DEF PlanScratch, Activation
  <2> HIDE DEF copy, act, head
  <2>4. QED BY <2>1, <2>2, <2>3
<1>4. a \in Nat /\ b \in Nat /\ c \in Nat /\ d \in Nat /\ e \in Nat
  <2> HIDE DEF act
  <2>1. QED BY <1>1, <1>2, DenseIs
<1> HIDE DEF a, b, c, d, e
<1>5. LET m == Larger({a, b, c, d, e})
      IN m \in Nat /\ a <= m /\ b <= m /\ c <= m /\ d <= m /\ e <= m /\ m \in {a, b, c, d, e}
  BY <1>4, LargerOfFive
<1>6. QED BY <1>3, <1>5 DEF a, b, c, d, e

\* Each of them, without the larger of two.
LEMMA PlanHolds ==
  ASSUME NEW rows \in Nat, NEW rotated \in BOOLEAN
  PROVE  LET plan == PlanScratch(rows, rotated)
             act(in) == Activation(rows, rotated, in)
         IN /\ plan \in Nat
            /\ 3 * SliceDense + act(Hidden) <= plan
            /\ OutputDense + act(Inner) <= plan
            /\ SliceDense + OutputDense + act(Hidden) <= plan
            /\ SliceDense + OutputDense + act(Inner) <= plan
            /\ UpDense + DownDense + act(Hidden) <= plan
            /\ UpDense + DownDense + act(Ffn) <= plan
            /\ HeadBytes <= plan
<1> DEFINE plan == PlanScratch(rows, rotated)
           h == Activation(rows, rotated, Hidden)
           i == Activation(rows, rotated, Inner)
           f == Activation(rows, rotated, Ffn)
<1>1. h \in Nat /\ i \in Nat /\ f \in Nat BY Widths, ActivationIs
<1>2. /\ plan \in Nat /\ 3 * SliceDense + h <= plan /\ OutputDense + i <= plan
      /\ SliceDense + OutputDense + Larger({h, i}) <= plan
      /\ UpDense + DownDense + Larger({h, f}) <= plan /\ HeadBytes <= plan
  BY PlanIs
<1> HIDE DEF plan, h, i, f
<1>3. Larger({h, i}) = (IF h >= i THEN h ELSE i) /\ Larger({h, f}) = IF h >= f THEN h ELSE f
  BY <1>1, LargerOfTwo
<1>4. /\ plan \in Nat /\ 3 * SliceDense + h <= plan /\ OutputDense + i <= plan
      /\ SliceDense + OutputDense + h <= plan /\ SliceDense + OutputDense + i <= plan
      /\ UpDense + DownDense + h <= plan /\ UpDense + DownDense + f <= plan /\ HeadBytes <= plan
  BY <1>1, <1>2, <1>3, DenseIs
<1>5. QED BY <1>4 DEF plan, h, i, f

\* A plan for weights that rotate is one for weights that do not.
LEMMA PlanGrows ==
  ASSUME NEW rows \in Nat, NEW rotated \in BOOLEAN
  PROVE  PlanScratch(rows, rotated) <= PlanScratch(rows, TRUE)
<1>1. CASE rotated
  <2> DEFINE plan(r) == PlanScratch(rows, r)
  <2>1. rotated = TRUE BY <1>1
  <2>2. plan(rotated) \in Nat BY PlanHolds
  <2> HIDE DEF plan
  <2>3. plan(rotated) = plan(TRUE) BY <2>1
  <2>4. \A n \in Nat : n <= n OBVIOUS
  <2>5. plan(rotated) <= plan(rotated) BY <2>2, <2>4
  <2>6. QED BY <2>3, <2>5 DEF plan
<1>2. CASE ~rotated
  <2> DEFINE plan == PlanScratch(rows, rotated)
             most == PlanScratch(rows, TRUE)
             h == Activation(rows, TRUE, Hidden)
             i == Activation(rows, TRUE, Inner)
             f == Activation(rows, TRUE, Ffn)
  <2>0. rotated = FALSE BY <1>2
  <2>1. /\ Activation(rows, FALSE, Hidden) = 0 /\ Activation(rows, FALSE, Inner) = 0
        /\ Activation(rows, FALSE, Ffn) = 0
    BY Widths, ActivationIs
  <2>2. Larger({0, 0}) = 0 BY LargerOfTwo
  <2>3. plan \in Nat /\ plan \in {3 * SliceDense + 0, OutputDense + 0, SliceDense + OutputDense + 0,
                                  UpDense + DownDense + 0, HeadBytes}
    BY <2>0, <2>1, <2>2, PlanIs
  <2>4. /\ most \in Nat /\ 3 * SliceDense + h <= most /\ OutputDense + i <= most
        /\ SliceDense + OutputDense + h <= most
        /\ UpDense + DownDense + h <= most /\ HeadBytes <= most
    BY PlanHolds
  <2>5. h \in Nat /\ i \in Nat BY Widths, ActivationIs
  <2> HIDE DEF plan, most, h, i
  <2>6. plan <= most BY <2>3, <2>4, <2>5, DenseIs
  <2>7. QED BY <2>6 DEF plan, most
<1>3. QED BY <1>1, <1>2

-----------------------------------------------------------------------------
(* Packed weights in it.                                                   *)

\* Products of the widths, by the product of the two widths of a weight.
LEMMA WidthProducts ==
  ASSUME NEW rows \in Nat, NEW width \in Nat, Hidden <= width
  PROVE  LET c == Chunk(rows)
         IN /\ c \in Nat /\ 2 * c <= Hidden /\ 2 * ScratchAlign <= Hidden
            /\ 2 * (c * width) <= Hidden * width
            /\ 2 * (c * Hidden) <= Hidden * width
            /\ 32 * Hidden <= Hidden * width
            /\ Hidden * width \in Nat /\ c * width \in Nat /\ c * Hidden \in Nat
            /\ Hidden * width = width * Hidden
<1> DEFINE c == Chunk(rows)
<1>1. c \in Nat /\ 2 * c <= Hidden /\ 2 * ScratchAlign <= Hidden BY ChunkIs, Widths
<1> HIDE DEF c
<1>2. c * width \in Nat /\ c * Hidden \in Nat /\ Hidden * width \in Nat BY <1>1, Widths
<1>3. (2 * c) * width <= Hidden * width /\ (2 * c) * width = 2 * (c * width)
  <2>1. (2 * c) * width <= Hidden * width BY <1>1, Widths, ProductGrows
  <2>2. QED BY <1>1, <2>1
<1>4. (2 * c) * Hidden <= Hidden * width /\ (2 * c) * Hidden = 2 * (c * Hidden)
  <2>1. (2 * c) * Hidden <= Hidden * width BY <1>1, Widths, ProductGrows
  <2>2. QED BY <1>1, <2>1, Widths
<1>5. Hidden * 32 <= Hidden * width BY Widths, ProductGrows
<1>6. Hidden * width = width * Hidden /\ Hidden * 32 = 32 * Hidden BY Widths
<1>7. QED BY <1>1, <1>2, <1>3, <1>4, <1>5, <1>6 DEF c

\* The plan, in products of the widths.
LEMMA PlanIsLarge ==
  ASSUME NEW rows \in Nat, NEW rotated \in BOOLEAN
  PROVE  LET plan == PlanScratch(rows, rotated)
         IN /\ plan \in Nat /\ 6 * (Hidden * Inner) <= plan /\ 6 * (Hidden * TextDim) <= plan
            /\ 6 * (Hidden * Ffn) + Activation(rows, rotated, Ffn) <= plan
<1> DEFINE plan == PlanScratch(rows, rotated)
           h == Activation(rows, rotated, Hidden)
           f == Activation(rows, rotated, Ffn)
           hi == Hidden * Inner
           hf == Hidden * Ffn
           ht == Hidden * TextDim
<1>1. /\ plan \in Nat /\ 3 * SliceDense + h <= plan /\ UpDense + DownDense + f <= plan /\ HeadBytes <= plan
  BY PlanHolds
<1>2. h \in Nat /\ f \in Nat BY Widths, ActivationIs
<1>3. hi \in Nat /\ hi = Inner * Hidden /\ hf \in Nat /\ hf = Ffn * Hidden /\ ht \in Nat BY Widths
<1>4. /\ SliceDense \in Nat /\ 2 * hi <= SliceDense /\ UpDense \in Nat /\ 4 * hf <= UpDense
      /\ DownDense \in Nat /\ 2 * hf <= DownDense /\ HeadBytes \in Nat /\ 6 * ht <= HeadBytes
  BY <1>3, DenseIs
<1> HIDE DEF plan, h, f, hi, hf, ht
<1>5. 6 * hi <= plan /\ 6 * ht <= plan /\ 6 * hf + f <= plan BY <1>1, <1>2, <1>3, <1>4
<1>6. QED BY <1>1, <1>5 DEF plan, f, hi, hf, ht

\* A packed weight between a token and something wider, either way.
LEMMA PackedIsSmall ==
  ASSUME NEW format, NEW rotated, NEW rows \in Nat, NEW width \in Nat, Hidden <= width
  PROVE  LET out == PackedBytes(LinearOf(format, width, Hidden, rotated), Chunk(rows))
             in == PackedBytes(LinearOf(format, Hidden, width, rotated), Chunk(rows))
         IN out \in 0 .. 6 * (Hidden * width) /\ in \in 0 .. 6 * (Hidden * width)
<1> DEFINE c == Chunk(rows)
           out == PackedBytes(LinearOf(format, width, Hidden, rotated), c)
           in == PackedBytes(LinearOf(format, Hidden, width, rotated), c)
           hw == Hidden * width
           ch == c * Hidden
           cw == c * width
<1>1. /\ c \in Nat /\ 2 * c <= Hidden /\ 2 * ScratchAlign <= Hidden /\ 2 * cw <= hw /\ 2 * ch <= hw
      /\ 32 * Hidden <= hw /\ hw \in Nat /\ cw \in Nat /\ ch \in Nat /\ hw = width * Hidden
  BY WidthProducts
<1>2. out \in Nat /\ out <= width * Hidden + 3 * ch + 4 * c + 4 * cw + 5 * ScratchAlign
  BY <1>1, Widths, PackedIs
<1>3. in \in Nat /\ in <= hw + 3 * cw + 4 * c + 4 * ch + 5 * ScratchAlign BY <1>1, Widths, PackedIs
<1> HIDE DEF c, out, in, hw, ch, cw
<1>4. out \in 0 .. 6 * hw /\ in \in 0 .. 6 * hw BY <1>1, <1>2, <1>3, Widths
<1>5. QED BY <1>4 DEF out, in, hw, c

\* The weights of attention, packed.
LEMMA PackedAttentionFits ==
  ASSUME NEW format, NEW rotated, NEW rows \in Nat
  PROVE  /\ PackedBytes(LinearOf(format, Inner, Hidden, rotated), Chunk(rows)) \in 0 .. PlanScratch(rows, TRUE)
         /\ PackedBytes(LinearOf(format, Hidden, Inner, rotated), Chunk(rows)) \in 0 .. PlanScratch(rows, TRUE)
<1> DEFINE slice == PackedBytes(LinearOf(format, Inner, Hidden, rotated), Chunk(rows))
           output == PackedBytes(LinearOf(format, Hidden, Inner, rotated), Chunk(rows))
           hi == Hidden * Inner
           plan == PlanScratch(rows, TRUE)
<1>1. slice \in 0 .. 6 * hi /\ output \in 0 .. 6 * hi /\ hi \in Nat BY Widths, PackedIsSmall
<1>2. plan \in Nat /\ 6 * hi <= plan BY PlanIsLarge
<1> HIDE DEF slice, output, hi, plan
<1>3. slice \in 0 .. plan /\ output \in 0 .. plan BY <1>1, <1>2
<1>4. QED BY <1>3 DEF slice, output, plan

\* The fused feed-forward weight, packed: the sums of both halves are most of what the loop plans.
LEMMA PackedUpFits ==
  ASSUME NEW format, NEW rotated, NEW rows \in Nat
  PROVE  LET bytes == PackedBytes(LinearOf(format, 2 * Ffn, Hidden, rotated), Chunk(rows))
         IN bytes \in 0 .. PlanScratch(rows, TRUE)
<1> DEFINE c == Chunk(rows)
           bytes == PackedBytes(LinearOf(format, 2 * Ffn, Hidden, rotated), c)
           plan == PlanScratch(rows, TRUE)
           hf == Hidden * Ffn
           ch == c * Hidden
           cf == c * Ffn
           act == Activation(rows, TRUE, Ffn)
<1>1. /\ c \in Nat /\ 2 * c <= Hidden /\ 2 * ScratchAlign <= Hidden /\ 2 * cf <= hf
      /\ 32 * Hidden <= hf /\ hf \in Nat /\ cf \in Nat /\ ch \in Nat /\ hf = Ffn * Hidden
  BY Widths, WidthProducts
<1>2. 4 * ch <= hf
  <2>1. (2 * c) * (2 * Hidden) <= Hidden * Ffn BY <1>1, Widths, ProductGrows
  <2>2. (2 * c) * (2 * Hidden) = 4 * ch BY <1>1, Widths
  <2>3. QED BY <2>1, <2>2
<1>3. bytes \in Nat /\ bytes <= 2 * hf + 3 * ch + 4 * c + 8 * cf + 5 * ScratchAlign
  <2>1. /\ bytes \in Nat
        /\ bytes <= (2 * Ffn) * Hidden + 3 * (c * Hidden) + 4 * c + 4 * (c * (2 * Ffn)) + 5 * ScratchAlign
    BY <1>1, Widths, PackedIs
  <2>2. (2 * Ffn) * Hidden = 2 * hf /\ c * (2 * Ffn) = 2 * cf BY <1>1, Widths
  <2>3. QED BY <1>1, <2>1, <2>2, Widths
<1>4. plan \in Nat /\ 6 * hf + act <= plan /\ act \in Nat /\ 2 * cf <= act
  BY Widths, PlanIsLarge, ActivationIs
<1> HIDE DEF c, bytes, plan, hf, ch, cf, act
<1>5. bytes <= 6 * hf + 2 * cf BY <1>1, <1>2, <1>3, Widths
<1>6. bytes \in 0 .. plan BY <1>1, <1>3, <1>4, <1>5
<1>7. QED BY <1>6 DEF bytes, plan, c

\* The feed-forward's other weight, packed.
LEMMA PackedDownFits ==
  ASSUME NEW format, NEW rotated, NEW rows \in Nat
  PROVE  PackedBytes(LinearOf(format, Hidden, Ffn, rotated), Chunk(rows)) \in 0 .. PlanScratch(rows, TRUE)
<1> DEFINE bytes == PackedBytes(LinearOf(format, Hidden, Ffn, rotated), Chunk(rows))
           hf == Hidden * Ffn
           act == Activation(rows, TRUE, Ffn)
           plan == PlanScratch(rows, TRUE)
<1>1. bytes \in 0 .. 6 * hf /\ hf \in Nat BY Widths, PackedIsSmall
<1>2. plan \in Nat /\ 6 * hf + act <= plan /\ act \in Nat BY Widths, PlanIsLarge, ActivationIs
<1> HIDE DEF bytes, hf, act, plan
<1>3. bytes \in 0 .. plan BY <1>1, <1>2
<1>4. QED BY <1>3 DEF bytes, plan

\* The condition's embedding, packed, whether the blocks' weights rotate or not.
LEMMA PackedConditionFits ==
  ASSUME NEW format, NEW rotated, NEW rows \in Nat, NEW stackRotates \in BOOLEAN
  PROVE  LET bytes == PackedBytes(LinearOf(format, Hidden, TextDim, rotated), Chunk(rows))
         IN bytes \in 0 .. PlanScratch(rows, stackRotates)
<1> DEFINE c == Chunk(rows)
           bytes == PackedBytes(LinearOf(format, Hidden, TextDim, rotated), c)
           plan == PlanScratch(rows, stackRotates)
           hi == Hidden * Inner
           ht == Hidden * TextDim
           ch == c * Hidden
           ct == c * TextDim
<1>1. /\ c \in Nat /\ 2 * c <= Hidden /\ 2 * ScratchAlign <= Hidden /\ 2 * ch <= hi
      /\ 32 * Hidden <= hi /\ hi \in Nat /\ ch \in Nat
  BY Widths, WidthProducts
<1>2. ct \in Nat /\ ht \in Nat /\ 2 * ct <= ht
  <2>1. (2 * c) * TextDim <= Hidden * TextDim /\ Hidden * TextDim \in Nat
    BY <1>1, Widths, ProductGrows
  <2>2. (2 * c) * TextDim = 2 * ct /\ ct \in Nat BY <1>1, Widths
  <2>3. QED BY <2>1, <2>2
<1>3. bytes \in Nat /\ bytes <= ht + 3 * ct + 4 * c + 4 * ch + 5 * ScratchAlign
  BY <1>1, Widths, PackedIs
<1>4. plan \in Nat /\ 6 * hi <= plan /\ 6 * ht <= plan BY PlanIsLarge
<1> HIDE DEF c, bytes, plan, hi, ht, ch, ct
<1>5. bytes <= 3 * ht + 3 * hi BY <1>1, <1>2, <1>3, Widths
<1>6. bytes \in 0 .. plan BY <1>1, <1>2, <1>3, <1>4, <1>5
<1>7. QED BY <1>6 DEF bytes, plan, c

-----------------------------------------------------------------------------
(* What a loop, and a block, holds.                                        *)

\* Some copies of a weight that is not packed, and one projection.
LEMMA LoopFits ==
  ASSUME NEW s \in Stacks, NEW format, ~IsPackedInt8(format),
         NEW out \in Nat, Hidden <= out, NEW in \in Nat \ {0}, NEW rotated \in BOOLEAN,
         NEW rows \in Nat, NEW exact \in BOOLEAN, NEW n \in 1 .. 3
  PROVE  LET w == LinearOf(format, out, in, rotated)
         IN LoopOf(s, n, w, rows, exact) \in 0 .. n * Padded(2 * out * in) + Activation(rows, rotated, in)
<1> DEFINE w == LinearOf(format, out, in, rotated)
           copy == Prepares(s, w)
           piece == Projects(s, w, Chunk(rows), exact)
           dense == Padded(2 * out * in)
           act == Activation(rows, rotated, in)
<1>1. copy \in Nat /\ piece \in Nat /\ copy <= dense /\ (piece <= act \/ (copy = 0 /\ piece <= dense))
  BY WeightFits DEF Activation
<1>2. dense \in Nat /\ act \in Nat
  <2>1. 2 * out * in \in Nat OBVIOUS
  <2>2. QED BY <2>1, PaddedIs, ActivationIs
<1>3. LoopOf(s, n, w, rows, exact) = n * copy + piece BY DEF LoopOf
<1> HIDE DEF copy, piece, dense, act, w
<1>4. n = 1 \/ n = 2 \/ n = 3 OBVIOUS
<1>5. n * copy + piece \in 0 .. n * dense + act BY <1>1, <1>2, <1>4
<1>6. QED BY <1>3, <1>5 DEF dense, act, w

\* One copy each of two weights that are not packed, and one projection.
LEMMA LoopOfTwoFits ==
  ASSUME NEW s \in Stacks, NEW format, ~IsPackedInt8(format), NEW rotated \in BOOLEAN,
         NEW out \in Nat, Hidden <= out, NEW in \in Nat \ {0},
         NEW out2 \in Nat, Hidden <= out2, NEW in2 \in Nat \ {0},
         NEW rows \in Nat, NEW exact \in BOOLEAN, NEW plan \in Nat,
         Padded(2 * out * in) + Padded(2 * out2 * in2) + Activation(rows, rotated, in) <= plan,
         Padded(2 * out * in) + Padded(2 * out2 * in2) + Activation(rows, rotated, in2) <= plan
  PROVE  LoopOfTwo(s, LinearOf(format, out, in, rotated), LinearOf(format, out2, in2, rotated), rows, exact)
           \in 0 .. plan
<1> DEFINE v == LinearOf(format, out, in, rotated)
           w == LinearOf(format, out2, in2, rotated)
           copy == Prepares(s, v)
           piece == Projects(s, v, Chunk(rows), exact)
           dense == Padded(2 * out * in)
           act == Activation(rows, rotated, in)
           copy2 == Prepares(s, w)
           piece2 == Projects(s, w, Chunk(rows), exact)
           dense2 == Padded(2 * out2 * in2)
           act2 == Activation(rows, rotated, in2)
<1>1. copy \in Nat /\ piece \in Nat /\ copy <= dense /\ (piece <= act \/ (copy = 0 /\ piece <= dense))
  BY WeightFits DEF Activation
<1>2. copy2 \in Nat /\ piece2 \in Nat /\ copy2 <= dense2 /\ (piece2 <= act2 \/ (copy2 = 0 /\ piece2 <= dense2))
  BY WeightFits DEF Activation
<1>3. dense \in Nat /\ act \in Nat /\ dense2 \in Nat /\ act2 \in Nat
  <2>1. 2 * out * in \in Nat /\ 2 * out2 * in2 \in Nat OBVIOUS
  <2>2. QED BY <2>1, PaddedIs, ActivationIs
<1>4. {Projects(s, x, Chunk(rows), exact) : x \in {v, w}} = {piece, piece2} OBVIOUS
<1>5. LoopOfTwo(s, v, w, rows, exact) = copy + copy2 + Larger({piece, piece2}) BY <1>4 DEF LoopOfTwo
<1>6. dense + dense2 + act <= plan /\ dense + dense2 + act2 <= plan OBVIOUS
<1> HIDE DEF copy, piece, dense, act, v, copy2, piece2, dense2, act2, w
<1>7. Larger({piece, piece2}) = IF piece >= piece2 THEN piece ELSE piece2 BY <1>1, <1>2, LargerOfTwo
<1>8. copy + copy2 + Larger({piece, piece2}) \in 0 .. plan BY <1>1, <1>2, <1>3, <1>6, <1>7
<1>9. QED BY <1>5, <1>8 DEF v, w

\* Two packed weights hold no copy: the larger of their pieces.
LEMMA PackedLoopOfTwoFits ==
  ASSUME NEW s \in Stacks, NEW format, IsPackedInt8(format), NEW rotated,
         NEW out, NEW in, NEW out2, NEW in2, NEW rows, NEW exact, NEW plan \in Nat,
         PackedBytes(LinearOf(format, out, in, rotated), Chunk(rows)) \in 0 .. plan,
         PackedBytes(LinearOf(format, out2, in2, rotated), Chunk(rows)) \in 0 .. plan
  PROVE  LoopOfTwo(s, LinearOf(format, out, in, rotated), LinearOf(format, out2, in2, rotated), rows, exact)
           \in 0 .. plan
<1> DEFINE v == LinearOf(format, out, in, rotated)
           w == LinearOf(format, out2, in2, rotated)
           piece == PackedBytes(v, Chunk(rows))
           piece2 == PackedBytes(w, Chunk(rows))
<1>1. /\ Prepares(s, v) = 0 /\ Prepares(s, w) = 0
      /\ Projects(s, v, Chunk(rows), exact) = piece /\ Projects(s, w, Chunk(rows), exact) = piece2
  BY PackedCarves
<1>2. piece \in 0 .. plan /\ piece2 \in 0 .. plan OBVIOUS
<1> HIDE DEF v, w, piece, piece2
<1>3. {Projects(s, x, Chunk(rows), exact) : x \in {v, w}} = {piece, piece2} BY <1>1
<1>4. LoopOfTwo(s, v, w, rows, exact) = 0 + 0 + Larger({piece, piece2}) BY <1>1, <1>3 DEF LoopOfTwo
<1>5. Larger({piece, piece2}) \in 0 .. plan
  <2>1. {piece, piece2} \in SUBSET (0 .. plan) BY <1>2
  <2>2. QED BY <2>1, LargerAtMost
<1>6. LoopOfTwo(s, v, w, rows, exact) \in 0 .. plan BY <1>4, <1>5
<1>7. QED BY <1>6 DEF v, w

\* Copies of a packed weight are none.
LEMMA PackedLoopFits ==
  ASSUME NEW s \in Stacks, NEW format, IsPackedInt8(format), NEW rotated,
         NEW out, NEW in, NEW rows, NEW exact, NEW n \in Nat, NEW plan \in Nat,
         PackedBytes(LinearOf(format, out, in, rotated), Chunk(rows)) \in 0 .. plan
  PROVE  LoopOf(s, n, LinearOf(format, out, in, rotated), rows, exact) \in 0 .. plan
<1> DEFINE w == LinearOf(format, out, in, rotated)
           piece == PackedBytes(w, Chunk(rows))
<1>1. Prepares(s, w) = 0 /\ Projects(s, w, Chunk(rows), exact) = piece BY PackedCarves
<1>2. piece \in 0 .. plan OBVIOUS
<1> HIDE DEF w, piece
<1>3. LoopOf(s, n, w, rows, exact) = n * 0 + piece BY <1>1 DEF LoopOf
<1>4. LoopOf(s, n, w, rows, exact) \in 0 .. plan BY <1>2, <1>3
<1>5. QED BY <1>4 DEF w

\* Where the stack rotates is where one of its weights may.
LEMMA ActivationGrows ==
  ASSUME NEW rows \in Nat, NEW rotated \in BOOLEAN, NEW any \in BOOLEAN, rotated => any, NEW in \in Nat
  PROVE  Activation(rows, rotated, in) <= Activation(rows, any, in)
<1> DEFINE a == Activation(rows, rotated, in)
           b == Activation(rows, any, in)
<1>1. a \in Nat /\ b \in Nat BY ActivationIs
<1>2. a = b \/ a = 0 BY DEF Activation
<1> HIDE DEF a, b
<1>3. a <= b BY <1>1, <1>2
<1>4. QED BY <1>3 DEF a, b

\* What the loops of attention hold.
LEMMA AttentionFits ==
  ASSUME NEW s \in Stacks, NEW rows \in Nat, NEW exact \in BOOLEAN
  PROVE  LET rotated == s.rotated \/ IsPackedInt8(s.attention)
             slice == LinearOf(s.attention, Inner, Hidden, rotated)
             output == LinearOf(s.attention, Hidden, Inner, rotated)
             plan == PlanScratch(rows, AnyRotated(s))
         IN /\ plan \in Nat
            /\ \A n \in 1 .. 3 : LoopOf(s, n, slice, rows, exact) \in 0 .. plan
            /\ LoopOf(s, 1, output, rows, exact) \in 0 .. plan
            /\ LoopOfTwo(s, slice, output, rows, exact) \in 0 .. plan
<1> DEFINE packed == IsPackedInt8(s.attention)
           rotated == s.rotated \/ packed
           slice == LinearOf(s.attention, Inner, Hidden, rotated)
           output == LinearOf(s.attention, Hidden, Inner, rotated)
           plan == PlanScratch(rows, AnyRotated(s))
<1>0. s.rotated \in BOOLEAN /\ packed \in BOOLEAN /\ AnyRotated(s) \in BOOLEAN
  BY StacksAssumption DEF AnyRotated, IsPackedInt8
<1>1. plan \in Nat BY <1>0, PlanHolds
<1>2. CASE packed
  <2>1. AnyRotated(s) = TRUE BY <1>0, <1>2 DEF AnyRotated
  <2>2. PackedBytes(slice, Chunk(rows)) \in 0 .. plan /\ PackedBytes(output, Chunk(rows)) \in 0 .. plan
    BY <2>1, PackedAttentionFits
  <2> HIDE DEF plan, rotated
  <2>4. \A n \in 1 .. 3 : LoopOf(s, n, slice, rows, exact) \in 0 .. plan
    BY <1>1, <1>2, <2>2, PackedLoopFits
  <2>5. LoopOf(s, 1, output, rows, exact) \in 0 .. plan BY <1>1, <1>2, <2>2, PackedLoopFits
  <2>6. LoopOfTwo(s, slice, output, rows, exact) \in 0 .. plan
    BY <1>1, <1>2, <2>2, PackedLoopOfTwoFits
  <2>7. QED BY <1>1, <2>4, <2>5, <2>6 DEF plan, rotated
<1>3. CASE ~packed
  <2> DEFINE any == AnyRotated(s)
             h == Activation(rows, rotated, Hidden)
             i == Activation(rows, rotated, Inner)
             hh == Activation(rows, any, Hidden)
             ii == Activation(rows, any, Inner)
  <2>1. rotated \in BOOLEAN /\ (rotated => AnyRotated(s)) BY <1>0, <1>3 DEF AnyRotated
  <2>2. /\ 3 * SliceDense + hh <= plan
        /\ OutputDense + ii <= plan
        /\ SliceDense + OutputDense + hh <= plan
        /\ SliceDense + OutputDense + ii <= plan
    BY <1>0, PlanHolds
  <2>3. h \in Nat /\ i \in Nat /\ hh \in Nat /\ ii \in Nat BY <1>0, <2>1, Widths, ActivationIs
  <2>4. h <= hh /\ i <= ii BY <1>0, <2>1, Widths, ActivationGrows
  <2> HIDE DEF h, i, hh, ii, plan, any
  <2>5. /\ 3 * SliceDense + h <= plan /\ OutputDense + i <= plan
        /\ SliceDense + OutputDense + h <= plan /\ SliceDense + OutputDense + i <= plan
    BY <1>1, <2>2, <2>3, <2>4, DenseIs
  <2>6. ASSUME NEW n \in 1 .. 3 PROVE LoopOf(s, n, slice, rows, exact) \in 0 .. plan
    <3> HIDE DEF rotated
    <3>1. LoopOf(s, n, slice, rows, exact) \in 0 .. n * SliceDense + h
      BY <1>3, <2>1, Widths, LoopFits DEF SliceDense, h
    <3>2. n = 1 \/ n = 2 \/ n = 3 OBVIOUS
    <3>3. n * SliceDense + h <= plan BY <1>1, <2>3, <2>5, <3>2, DenseIs
    <3> HIDE DEF slice
    <3>4. n * SliceDense + h \in Nat BY <2>3, <3>2, DenseIs
    <3>5. QED BY <1>1, <3>1, <3>3, <3>4
  <2>7. LoopOf(s, 1, output, rows, exact) \in 0 .. plan
    <3> HIDE DEF rotated
    <3>1. LoopOf(s, 1, output, rows, exact) \in 0 .. 1 * OutputDense + i
      BY <1>3, <2>1, Widths, LoopFits DEF OutputDense, i
    <3> HIDE DEF output
    <3>2. QED BY <1>1, <2>3, <2>5, <3>1, DenseIs
  <2>8. LoopOfTwo(s, slice, output, rows, exact) \in 0 .. plan
    <3> HIDE DEF rotated
    <3>1. QED BY <1>1, <1>3, <2>1, <2>5, Widths, LoopOfTwoFits DEF SliceDense, OutputDense, h, i
  <2>9. QED BY <1>1, <2>6, <2>7, <2>8 DEF plan
<1>4. QED BY <1>2, <1>3

\* What the feed-forward's loop holds.
LEMMA FeedForwardFits ==
  ASSUME NEW s \in Stacks, NEW rows \in Nat, NEW exact \in BOOLEAN
  PROVE  LET rotated == s.rotated \/ IsPackedInt8(s.mlp)
         IN LoopOfTwo(s, LinearOf(s.mlp, 2 * Ffn, Hidden, rotated), LinearOf(s.mlp, Hidden, Ffn, rotated),
                      rows, exact)
              \in 0 .. PlanScratch(rows, AnyRotated(s))
<1> DEFINE packed == IsPackedInt8(s.mlp)
           rotated == s.rotated \/ packed
           up == LinearOf(s.mlp, 2 * Ffn, Hidden, rotated)
           down == LinearOf(s.mlp, Hidden, Ffn, rotated)
           plan == PlanScratch(rows, AnyRotated(s))
<1>0. s.rotated \in BOOLEAN /\ packed \in BOOLEAN /\ AnyRotated(s) \in BOOLEAN
  BY StacksAssumption DEF AnyRotated, IsPackedInt8
<1>1. plan \in Nat BY <1>0, PlanHolds
<1>2. CASE packed
  <2>1. AnyRotated(s) = TRUE BY <1>0, <1>2 DEF AnyRotated
  <2>2. PackedBytes(up, Chunk(rows)) \in 0 .. plan /\ PackedBytes(down, Chunk(rows)) \in 0 .. plan
    BY <2>1, PackedUpFits, PackedDownFits
  <2> HIDE DEF plan, rotated
  <2>4. LoopOfTwo(s, up, down, rows, exact) \in 0 .. plan BY <1>1, <1>2, <2>2, PackedLoopOfTwoFits
  <2>5. QED BY <2>4 DEF plan, rotated
<1>3. CASE ~packed
  <2> DEFINE any == AnyRotated(s)
             h == Activation(rows, rotated, Hidden)
             f == Activation(rows, rotated, Ffn)
             hh == Activation(rows, any, Hidden)
             ff == Activation(rows, any, Ffn)
  <2>1. rotated \in BOOLEAN /\ (rotated => AnyRotated(s)) BY <1>0, <1>3 DEF AnyRotated
  <2>2. UpDense + DownDense + hh <= plan /\ UpDense + DownDense + ff <= plan BY <1>0, PlanHolds
  <2>3. h \in Nat /\ f \in Nat /\ hh \in Nat /\ ff \in Nat BY <1>0, <2>1, Widths, ActivationIs
  <2>4. h <= hh /\ f <= ff BY <1>0, <2>1, Widths, ActivationGrows
  <2> HIDE DEF h, f, hh, ff, plan, any
  <2>5. UpDense + DownDense + h <= plan /\ UpDense + DownDense + f <= plan
    BY <1>1, <2>2, <2>3, <2>4, DenseIs
  <2>6. 2 * Ffn \in Nat /\ Hidden <= 2 * Ffn /\ Hidden \in Nat \ {0} /\ Ffn \in Nat \ {0} /\ Hidden <= Hidden
    BY Widths
  <2> HIDE DEF rotated
  <2>7. LoopOfTwo(s, up, down, rows, exact) \in 0 .. plan
    BY <1>1, <1>3, <2>1, <2>5, <2>6, LoopOfTwoFits DEF UpDense, DownDense, h, f
  <2>8. QED BY <2>7 DEF plan, rotated
<1>4. QED BY <1>2, <1>3

\* A block needs no more than the plan.
LEMMA BlockFits ==
  ASSUME NEW s \in Stacks, NEW rows \in Nat, NEW mode, NEW gated
  PROVE  /\ PlanScratch(rows, AnyRotated(s)) \in Nat
         /\ BlockPeak(s, rows, mode, gated) \in 0 .. PlanScratch(rows, AnyRotated(s))
<1> DEFINE exact == mode = "exact"
           plan == PlanScratch(rows, AnyRotated(s))
           attention(out, in) == LinearOf(s.attention, out, in, s.rotated \/ IsPackedInt8(s.attention))
           mlp(out, in) == LinearOf(s.mlp, out, in, s.rotated \/ IsPackedInt8(s.mlp))
           slice == attention(Inner, Hidden)
           output == attention(Hidden, Inner)
           loops == IF Chunked(mode, gated, rows)
                    THEN {LoopOf(s, 2, slice, rows, exact), LoopOfTwo(s, slice, output, rows, exact)}
                    ELSE {LoopOf(s, 3, slice, rows, exact), LoopOf(s, 1, output, rows, exact)}
                           \cup (IF gated THEN {LoopOf(s, 1, slice, rows, exact)} ELSE {})
           last == LoopOfTwo(s, mlp(2 * Ffn, Hidden), mlp(Hidden, Ffn), rows, exact)
<1>1. /\ plan \in Nat
      /\ \A n \in 1 .. 3 : LoopOf(s, n, slice, rows, exact) \in 0 .. plan
      /\ LoopOf(s, 1, output, rows, exact) \in 0 .. plan
      /\ LoopOfTwo(s, slice, output, rows, exact) \in 0 .. plan
  BY AttentionFits
<1>2. last \in 0 .. plan BY FeedForwardFits
<1>3. BlockPeak(s, rows, mode, gated) = Larger(loops \cup {last}) BY DEF BlockPeak
<1> HIDE DEF plan, slice, output, last, exact
<1>4. 1 \in 1 .. 3 /\ 2 \in 1 .. 3 /\ 3 \in 1 .. 3 OBVIOUS
<1>5. loops \cup {last} \in SUBSET (0 .. plan)
  <2> DEFINE ok == 0 .. plan
             l1 == LoopOf(s, 1, slice, rows, exact)
             l2 == LoopOf(s, 2, slice, rows, exact)
             l3 == LoopOf(s, 3, slice, rows, exact)
             o == LoopOf(s, 1, output, rows, exact)
             t == LoopOfTwo(s, slice, output, rows, exact)
  <2>1. l1 \in ok /\ l2 \in ok /\ l3 \in ok /\ o \in ok /\ t \in ok /\ last \in ok
    BY <1>1, <1>2, <1>4
  <2> HIDE DEF ok, l1, l2, l3, o, t
  <2>2. (IF Chunked(mode, gated, rows) THEN {l2, t} ELSE {l3, o} \cup (IF gated THEN {l1} ELSE {})) \cup {last}
          \in SUBSET ok
    BY <2>1
  <2>3. QED BY <2>2 DEF ok, l1, l2, l3, o, t
<1> HIDE DEF loops
<1>6. Larger(loops \cup {last}) \in 0 .. plan BY <1>1, <1>5, LargerAtMost
<1>7. QED BY <1>1, <1>3, <1>6 DEF plan

\* Nor does the first loop of a text.
LEMMA ConditionFits ==
  ASSUME NEW s \in Stacks, NEW rows \in Nat
  PROVE  LoopOf(s, 1, LinearOf(s.condition, Hidden, TextDim, FALSE), rows, FALSE)
           \in 0 .. PlanScratch(rows, AnyRotated(s))
<1> DEFINE w == LinearOf(s.condition, Hidden, TextDim, FALSE)
           plan == PlanScratch(rows, AnyRotated(s))
           dense == Padded(2 * Hidden * TextDim)
<1>1. AnyRotated(s) \in BOOLEAN BY StacksAssumption DEF AnyRotated, IsPackedInt8
<1>2. plan \in Nat /\ HeadBytes <= plan BY <1>1, PlanHolds
<1>3. HeadBytes \in Nat /\ dense <= HeadBytes BY DenseIs
<1>4. dense \in Nat
  <2>1. 2 * Hidden * TextDim \in Nat BY Widths
  <2>2. QED BY <2>1, PaddedIs
<1>5. CASE IsPackedInt8(s.condition)
  <2>1. PackedBytes(w, Chunk(rows)) \in 0 .. plan BY <1>1, PackedConditionFits
  <2> HIDE DEF plan
  <2>2. LoopOf(s, 1, w, rows, FALSE) \in 0 .. plan BY <1>2, <1>5, <2>1, PackedLoopFits
  <2>3. QED BY <2>2 DEF plan
<1>6. CASE ~IsPackedInt8(s.condition)
  <2>0. 1 \in 1 .. 3 /\ Hidden <= Hidden BY Widths
  <2>1. LoopOf(s, 1, w, rows, FALSE) \in 0 .. 1 * dense + Activation(rows, FALSE, TextDim)
    BY <1>6, <2>0, Widths, LoopFits
  <2>2. Activation(rows, FALSE, TextDim) = 0 BY DEF Activation
  <2> DEFINE loop == LoopOf(s, 1, w, rows, FALSE)
  <2>3. loop \in 0 .. dense
    <3>1. 1 * dense + 0 = dense BY <1>4
    <3>2. QED BY <2>1, <2>2, <3>1
  <2> HIDE DEF plan, dense, loop
  <2>4. dense <= plan BY <1>2, <1>3, <1>4
  <2>5. loop \in 0 .. plan BY <1>2, <1>4, <2>3, <2>4
  <2>6. QED BY <2>5 DEF w, plan, loop
<1>7. QED BY <1>5, <1>6

\* The pieces a block leaves out are two.
LEMMA PiecesAre ==
  ASSUME NEW rows \in Nat, NEW chunked, NEW vsa
  PROVE  /\ BlockPieces(rows, chunked, vsa) \in Nat /\ Pieces(rows, chunked, vsa) \in Nat
         /\ BlockPieces(rows, chunked, vsa) <= Pieces(rows, chunked, vsa)
<1> DEFINE c == Chunk(rows)
           q == IF chunked THEN c ELSE rows
           m == Larger({2 * Ffn, IF vsa THEN Inner ELSE 0})
<1>1. c \in Nat /\ q \in Nat BY ChunkIs, Widths
<1>2. m \in Nat BY Widths, LargerOfTwo
<1>3. /\ 2 * q * Inner \in Nat /\ 2 * rows * Inner \in Nat /\ 2 * c * Hidden \in Nat
      /\ 2 * c * Ffn \in Nat /\ 4 * c * Hidden \in Nat
  <2> HIDE DEF c, q
  <2>1. QED BY <1>1, Widths
<1>4. 2 * c * m \in Nat
  <2> HIDE DEF c, m
  <2>1. QED BY <1>1, <1>2
<1> DEFINE a1 == Padded(2 * q * Inner)
           a2 == Padded(2 * rows * Inner)
           a3 == Padded(2 * c * Hidden)
           a4 == Padded(2 * c * m)
           a5 == Padded(2 * c * Ffn)
           a6 == Padded(4 * c * Hidden)
<1>5. a1 \in Nat /\ a2 \in Nat /\ a3 \in Nat /\ a4 \in Nat /\ a5 \in Nat /\ a6 \in Nat
  BY <1>3, <1>4, PaddedIs
<1>6. BlockPieces(rows, chunked, vsa) = 2 * a1 + 2 * a2 + 2 * a3 + a4 + a5 BY DEF BlockPieces
<1>7. Pieces(rows, chunked, vsa) = BlockPieces(rows, chunked, vsa) + 2 * a6 BY DEF Pieces
<1> HIDE DEF a1, a2, a3, a4, a5, a6
<1>8. QED BY <1>5, <1>6, <1>7

-----------------------------------------------------------------------------
(* The arena's sizes.                                                      *)

ModulationBytes == Padded(2 * (18 * Hidden) * TimestepDim) + Padded(4 * (18 * Hidden) * TimestepDim)

\* A modulation's products need the same of any timesteps.
LEMMA ModulationIs ==
  /\ ModulationBytes \in Nat
  /\ \A n \in Nat : LinearWorkspaceBytes(FullAdaLN, n) = ModulationBytes
<1>1. 2 * (18 * Hidden) * TimestepDim \in Nat /\ 4 * (18 * Hidden) * TimestepDim \in Nat BY Widths
<1>2. Padded(2 * (18 * Hidden) * TimestepDim) \in Nat /\ Padded(4 * (18 * Hidden) * TimestepDim) \in Nat
  BY <1>1, PaddedIs
<1>3. ModulationBytes \in Nat BY <1>2 DEF ModulationBytes
<1>4. ASSUME NEW n \in Nat PROVE LinearWorkspaceBytes(FullAdaLN, n) = ModulationBytes
  <2>1. LinearWorkspaceBytes(FullAdaLN, n) = ModulationBytes + 0
    BY DEF LinearWorkspaceBytes, FullAdaLN, LinearOf, Rotates, ModulationBytes
  <2>2. QED BY <1>3, <2>1
<1>5. QED BY <1>3, <1>4

\* A carve: its pieces and its scratch.
LEMMA CarveIs ==
  ASSUME NEW s \in Stacks, NEW rows \in Nat, NEW mode, NEW vsa, NEW rotated \in BOOLEAN
  PROVE  LET pieces == Pieces(rows, Chunked(mode, vsa, rows), vsa)
             plan == PlanScratch(rows, rotated)
         IN /\ pieces \in Nat /\ plan \in Nat /\ Padded(plan) \in Nat /\ plan <= Padded(plan)
            /\ PlanCarve(s, rows, mode, vsa, rotated) = pieces + Padded(plan)
            /\ PlanCarve(s, rows, mode, vsa, rotated) \in Nat
<1> DEFINE pieces == Pieces(rows, Chunked(mode, vsa, rows), vsa)
           plan == PlanScratch(rows, rotated)
<1>1. pieces \in Nat BY PiecesAre
<1>2. plan \in Nat BY PlanHolds
<1>3. Padded(plan) \in Nat /\ plan <= Padded(plan) BY <1>2, PaddedIs
<1>4. PlanCarve(s, rows, mode, vsa, rotated) = pieces + Padded(plan) BY DEF PlanCarve
<1> HIDE DEF pieces, plan
<1>5. PlanCarve(s, rows, mode, vsa, rotated) \in Nat BY <1>1, <1>3, <1>4
<1>6. QED BY <1>1, <1>2, <1>3, <1>4, <1>5 DEF pieces, plan

\* With the excess of a modulation: the larger of the two scratches.
LEMMA ExcessIs ==
  ASSUME NEW s \in Stacks, NEW rows \in Nat, NEW timesteps \in Nat, NEW rotated \in BOOLEAN
  PROVE  LET p == Padded(PlanScratch(rows, rotated))
             m == Padded(ModulationBytes)
         IN /\ p \in Nat /\ m \in Nat
            /\ AdaLNExcess(s, rows, timesteps, rotated) = IF s.fullAdaLN /\ m >= p THEN m - p ELSE 0
<1> DEFINE p == Padded(PlanScratch(rows, rotated))
           m == Padded(ModulationBytes)
<1>1. p \in Nat
  <2>1. PlanScratch(rows, rotated) \in Nat BY PlanHolds
  <2>2. QED BY <2>1, PaddedIs
<1>2. m \in Nat BY ModulationIs, PaddedIs
<1>3. s.fullAdaLN \in BOOLEAN BY StacksAssumption
<1>4. AdaLNExcess(s, rows, timesteps, rotated) = IF s.fullAdaLN THEN Larger({m - p}) ELSE 0
  BY ModulationIs DEF AdaLNExcess
<1> HIDE DEF p, m
<1>5. Larger({m - p}) = IF m >= p THEN m - p ELSE 0
  <2>1. m - p \in Int /\ (m - p >= 0 <=> m >= p) BY <1>1, <1>2
  <2>2. QED BY <2>1, LargerOfOne
<1>6. AdaLNExcess(s, rows, timesteps, rotated) = IF s.fullAdaLN /\ m >= p THEN m - p ELSE 0
  BY <1>3, <1>4, <1>5
<1>7. QED BY <1>1, <1>2, <1>6 DEF p, m

\* A sequence's arena holds a block's loops or a modulation, over what a step leaves carved.
LEMMA SequencePlanHolds ==
  ASSUME NEW s \in Stacks, NEW rows \in Nat
  PROVE  LET pieces == Pieces(rows, Chunked(s.mode, s.vsa, rows), s.vsa)
             plan == SequencePlan(s, rows)
         IN /\ plan \in Nat /\ pieces \in Nat
            /\ pieces + PlanScratch(rows, AnyRotated(s)) <= plan
            /\ s.fullAdaLN => pieces + ModulationBytes <= plan
<1> DEFINE pieces == Pieces(rows, Chunked(s.mode, s.vsa, rows), s.vsa)
           any == AnyRotated(s)
           scratchOf == PlanScratch(rows, any)
           p == Padded(scratchOf)
           m == Padded(ModulationBytes)
           excess == AdaLNExcess(s, rows, 2, any)
<1>1. any \in BOOLEAN BY StacksAssumption DEF AnyRotated, IsPackedInt8
<1>2. /\ pieces \in Nat /\ scratchOf \in Nat /\ p \in Nat /\ scratchOf <= p
      /\ PlanCarve(s, rows, s.mode, s.vsa, any) = pieces + p
  BY <1>1, CarveIs
<1>3. m \in Nat /\ excess = IF s.fullAdaLN /\ m >= p THEN m - p ELSE 0 BY <1>1, ExcessIs
<1>4. ModulationBytes \in Nat /\ ModulationBytes <= m BY ModulationIs, PaddedIs
<1>5. SequencePlan(s, rows) = pieces + p + excess BY <1>2 DEF SequencePlan
<1> DEFINE plan == SequencePlan(s, rows)
<1> HIDE DEF pieces, any, scratchOf, p, m, excess, plan
<1>6. excess \in Nat BY <1>2, <1>3
<1>7. plan \in Nat /\ pieces + scratchOf <= plan BY <1>2, <1>5, <1>6 DEF plan
<1>8. ASSUME s.fullAdaLN PROVE pieces + ModulationBytes <= plan
  <2>1. p + excess >= m BY <1>2, <1>3, <1>8
  <2>2. plan = pieces + p + excess BY <1>5 DEF plan
  <2>3. QED BY <1>2, <1>3, <1>4, <1>6, <2>1, <2>2
<1>9. QED BY <1>2, <1>7, <1>8 DEF pieces, any, scratchOf, plan

\* What load sets aside is no less than either plan that follows.
LEMMA EstimateHolds ==
  ASSUME NEW s \in Stacks, NEW tokens \in Nat, NEW rows \in Nat
  PROVE  LET estimate == Estimate(s, tokens, rows)
             cache == tokens * (6 * TextDim + 2 * Hidden)
         IN /\ estimate \in Nat /\ SequencePlan(s, rows) <= estimate
            /\ TextPlan(s, tokens) \in Nat /\ cache \in Nat /\ TextPlan(s, tokens) + cache <= estimate
<1> DEFINE any == AnyRotated(s)
           pieces == Pieces(rows, Chunked(s.mode, s.vsa, rows), s.vsa)
           p == Padded(PlanScratch(rows, any))
           yes == TRUE
           no == FALSE
           q == Padded(PlanScratch(rows, yes))
           m == Padded(ModulationBytes)
           text == Pieces(tokens, Chunked(TextMode(s), no, tokens), no)
           tp == Padded(PlanScratch(tokens, any))
           tq == Padded(PlanScratch(tokens, yes))
           cache == tokens * (6 * TextDim + 2 * Hidden)
           first == PlanCarve(s, rows, s.mode, s.vsa, yes) + AdaLNExcess(s, rows, 4, yes)
           second == PlanCarve(s, tokens, TextMode(s), no, yes) + cache
           excess == AdaLNExcess(s, rows, 2, any)
           most == AdaLNExcess(s, rows, 4, yes)
<1>1. any \in BOOLEAN BY StacksAssumption DEF AnyRotated, IsPackedInt8
<1>0. yes \in BOOLEAN OBVIOUS
<1> HIDE DEF yes, no
<1>2. /\ pieces \in Nat /\ p \in Nat /\ q \in Nat
      /\ PlanCarve(s, rows, s.mode, s.vsa, any) = pieces + p
      /\ PlanCarve(s, rows, s.mode, s.vsa, yes) = pieces + q
  <2>1. pieces \in Nat /\ p \in Nat /\ PlanCarve(s, rows, s.mode, s.vsa, any) = pieces + p
    BY <1>1, CarveIs
  <2>2. q \in Nat /\ PlanCarve(s, rows, s.mode, s.vsa, yes) = pieces + q BY <1>0, CarveIs
  <2>3. QED BY <2>1, <2>2
<1>3. /\ text \in Nat /\ tp \in Nat /\ tq \in Nat
      /\ PlanCarve(s, tokens, TextMode(s), no, any) = text + tp
      /\ PlanCarve(s, tokens, TextMode(s), no, yes) = text + tq
  <2>1. text \in Nat /\ tp \in Nat /\ PlanCarve(s, tokens, TextMode(s), no, any) = text + tp
    BY <1>1, CarveIs
  <2>2. tq \in Nat /\ PlanCarve(s, tokens, TextMode(s), no, yes) = text + tq BY <1>0, CarveIs
  <2>3. QED BY <2>1, <2>2
<1>4. p <= q /\ tp <= tq
  <2>1. /\ PlanScratch(rows, any) \in Nat /\ PlanScratch(rows, yes) \in Nat
        /\ PlanScratch(tokens, any) \in Nat /\ PlanScratch(tokens, yes) \in Nat
    BY <1>0, <1>1, PlanHolds
  <2>2. /\ PlanScratch(rows, any) <= PlanScratch(rows, yes)
        /\ PlanScratch(tokens, any) <= PlanScratch(tokens, yes)
    BY <1>1, PlanGrows DEF yes
  <2>3. QED BY <2>1, <2>2, PaddedGrows
<1>5. /\ m \in Nat /\ excess = (IF s.fullAdaLN /\ m >= p THEN m - p ELSE 0)
      /\ most = IF s.fullAdaLN /\ m >= q THEN m - q ELSE 0
  <2>1. m \in Nat /\ excess = (IF s.fullAdaLN /\ m >= p THEN m - p ELSE 0) BY <1>1, ExcessIs
  <2>2. most = IF s.fullAdaLN /\ m >= q THEN m - q ELSE 0 BY <1>0, ExcessIs
  <2>3. QED BY <2>1, <2>2
<1>6. cache \in Nat BY Widths
<1>7. SequencePlan(s, rows) = pieces + p + excess /\ first = pieces + q + most
  BY <1>2 DEF SequencePlan
<1>8. TextPlan(s, tokens) = text + tp /\ second = text + tq + cache BY <1>3 DEF TextPlan, no
<1>9. Estimate(s, tokens, rows) = Larger({first, second}) BY DEF Estimate, yes, no
<1> HIDE DEF any, pieces, p, q, m, text, tp, tq, cache, first, second, excess, most
<1>10. first \in Nat /\ second \in Nat BY <1>2, <1>3, <1>5, <1>6, <1>7, <1>8
<1>11. Larger({first, second}) = IF first >= second THEN first ELSE second BY <1>10, LargerOfTwo
<1>12. SequencePlan(s, rows) <= first BY <1>2, <1>4, <1>5, <1>7
<1>13. TextPlan(s, tokens) \in Nat /\ TextPlan(s, tokens) + cache <= second
  BY <1>3, <1>4, <1>6, <1>8
<1>14. SequencePlan(s, rows) \in Nat BY SequencePlanHolds
<1>15. /\ Estimate(s, tokens, rows) \in Nat /\ SequencePlan(s, rows) <= Estimate(s, tokens, rows)
       /\ TextPlan(s, tokens) + cache <= Estimate(s, tokens, rows)
  BY <1>6, <1>9, <1>10, <1>11, <1>12, <1>13, <1>14
<1>16. QED BY <1>6, <1>13, <1>15 DEF cache

-----------------------------------------------------------------------------
(* The arena.                                                              *)

\* Once there is a sequence its plan fits the arena, whatever text came after it, and the last call
\* left nothing carved or the sequence's pieces.  Right after it was prepared it is the arena's size.
MemoryInv ==
  /\ stack \in Stacks
  /\ scratch \in [capacity : Nat, cursor : Nat, peak : Nat]
  /\ prepared \in [tokens : Prompts \cup {-1}, rows : Nat, fresh : BOOLEAN]
  /\ scratch.peak <= scratch.capacity
  /\ prepared.rows > 0 =>
       /\ SequencePlan(stack, prepared.rows) <= scratch.capacity
       /\ scratch.cursor \in
            {0, Pieces(prepared.rows, Chunked(stack.mode, stack.vsa, prepared.rows), stack.vsa)}
  /\ prepared.fresh =>
       /\ prepared.tokens >= 0 /\ prepared.rows > 0
       /\ scratch.capacity = Padded(SequencePlan(stack, prepared.rows))

\* The invariant holds of an arena just made.
LEMMA MemoryStarts == MemoryInit => MemoryInv
BY DEF MemoryInit, Unused, MemoryInv

\* What a text's calls hold is what prepare_text made room for, over the narrowed prompt.
LEMMA TextFits ==
  ASSUME NEW s \in Stacks, NEW tokens \in Nat
  PROVE  LET prompt == Padded(2 * tokens * TextDim)
             first == IF TextMode(s) = "exact" THEN 0
                      ELSE LoopOf(s, 1, LinearOf(s.condition, Hidden, TextDim, FALSE), tokens, FALSE)
             layer == BlockPieces(tokens, Chunked(TextMode(s), FALSE, tokens), FALSE)
                        + BlockPeak(s, tokens, TextMode(s), FALSE)
             plan == TextPlan(s, tokens)
         IN /\ prompt \in Nat /\ plan \in Nat
            /\ Larger({first, layer}) \in Nat /\ Larger({first, layer}) <= plan
<1> DEFINE no == FALSE
           any == AnyRotated(s)
           prompt == Padded(2 * tokens * TextDim)
           condition == LoopOf(s, 1, LinearOf(s.condition, Hidden, TextDim, FALSE), tokens, FALSE)
           first == IF TextMode(s) = "exact" THEN 0 ELSE condition
           carved == BlockPieces(tokens, Chunked(TextMode(s), no, tokens), no)
           pieces == Pieces(tokens, Chunked(TextMode(s), no, tokens), no)
           peak == BlockPeak(s, tokens, TextMode(s), no)
           layer == carved + peak
           plan == TextPlan(s, tokens)
           scratchOf == PlanScratch(tokens, any)
           p == Padded(scratchOf)
<1>1. prompt \in Nat
  <2>1. 2 * tokens * TextDim \in Nat BY Widths
  <2>2. QED BY <2>1, PaddedIs
<1>2. any \in BOOLEAN BY StacksAssumption DEF AnyRotated, IsPackedInt8
<1>3. condition \in 0 .. scratchOf BY ConditionFits
<1> HIDE DEF no
<1>4. scratchOf \in Nat /\ peak \in 0 .. scratchOf BY BlockFits
<1>5. carved \in Nat /\ pieces \in Nat /\ carved <= pieces BY PiecesAre
<1>6. p \in Nat /\ scratchOf <= p /\ PlanCarve(s, tokens, TextMode(s), no, any) = pieces + p
  BY <1>2, CarveIs
<1>7. plan = pieces + p BY <1>6 DEF TextPlan, no
<1> HIDE DEF any, prompt, condition, carved, pieces, peak, plan, scratchOf, p
<1>8. first \in Nat /\ first <= scratchOf BY <1>3, <1>4
<1> HIDE DEF first
<1>9. layer \in Nat /\ layer <= plan BY <1>4, <1>5, <1>6, <1>7
<1>10. plan \in Nat /\ first <= plan BY <1>4, <1>5, <1>6, <1>7, <1>8
<1> HIDE DEF layer
<1>11. Larger({first, layer}) = IF first >= layer THEN first ELSE layer BY <1>8, <1>9, LargerOfTwo
<1>12. Larger({first, layer}) \in Nat /\ Larger({first, layer}) <= plan BY <1>8, <1>9, <1>10, <1>11
<1>13. QED BY <1>1, <1>10, <1>12 DEF prompt, condition, first, carved, peak, layer, plan, no

\* A text keeps what a sequence was given.
LEMMA PrepareTextKeeps ==
  ASSUME MemoryInv, NEW tokens \in Prompts, PrepareText(tokens)
  PROVE  MemoryInv'
<1>1. tokens \in Nat /\ tokens >= 0 BY MemoryAssumption
<1>2. /\ stack \in Stacks /\ scratch \in [capacity : Nat, cursor : Nat, peak : Nat]
      /\ prepared \in [tokens : Prompts \cup {-1}, rows : Nat, fresh : BOOLEAN]
      /\ scratch.peak <= scratch.capacity
  BY DEF MemoryInv
<1>3. stack' = stack BY DEF PrepareText
<1>4. /\ prepared' \in [tokens : Prompts \cup {-1}, rows : Nat, fresh : BOOLEAN]
      /\ prepared'.rows = prepared.rows /\ prepared'.fresh = FALSE
  <2>1. prepared' = [prepared EXCEPT !.tokens = tokens, !.fresh = FALSE] BY DEF PrepareText
  <2>2. QED BY <1>2, <2>1
<1> DEFINE s == stack
           prompt == Padded(2 * tokens * TextDim)
           first == IF TextMode(s) = "exact" THEN 0
                    ELSE LoopOf(s, 1, LinearOf(s.condition, Hidden, TextDim, FALSE), tokens, FALSE)
           layer == BlockPieces(tokens, Chunked(TextMode(s), FALSE, tokens), FALSE)
                      + BlockPeak(s, tokens, TextMode(s), FALSE)
           plan == TextPlan(s, tokens)
           held == Larger({first, layer})
<1>5. prompt \in Nat /\ plan \in Nat /\ held \in Nat /\ held <= plan BY <1>1, <1>2, TextFits
<1>6. scratch' = scratch
        \/ scratch' = [capacity |-> Larger({scratch.capacity, Padded(plan + prompt)}), cursor |-> 0,
                       peak |-> prompt + held]
  BY DEF PrepareText
<1> HIDE DEF s, prompt, first, layer, plan, held
<1>7. /\ scratch' \in [capacity : Nat, cursor : Nat, peak : Nat]
      /\ scratch.capacity <= scratch'.capacity
      /\ scratch'.peak <= scratch'.capacity
      /\ scratch'.cursor = 0 \/ scratch'.cursor = scratch.cursor
  <2>1. CASE scratch' = scratch BY <1>2, <2>1
  <2>2. CASE scratch' = [capacity |-> Larger({scratch.capacity, Padded(plan + prompt)}), cursor |-> 0,
                         peak |-> prompt + held]
    <3> DEFINE room == Padded(plan + prompt)
               n == scratch.capacity
               m == Larger({n, room})
    <3>1. room \in Nat /\ plan + prompt <= room BY <1>5, PaddedIs
    <3>2. n \in Nat BY <1>2
    <3> HIDE DEF room, n
    <3>3. m = IF n >= room THEN n ELSE room BY <3>1, <3>2, LargerOfTwo
    <3>4. m \in Nat /\ n <= m /\ prompt + held <= m /\ prompt + held \in Nat
      BY <1>5, <3>1, <3>2, <3>3
    <3> HIDE DEF m
    <3>5. scratch' = [capacity |-> m, cursor |-> 0, peak |-> prompt + held] BY <2>2 DEF m, n, room
    <3>6. QED BY <3>4, <3>5 DEF n
  <2>3. QED BY <1>6, <2>1, <2>2
<1>8. prepared.rows \in Nat /\ scratch.capacity \in Nat BY <1>2
<1>9. ASSUME prepared'.rows > 0
      PROVE  /\ SequencePlan(stack, prepared.rows) <= scratch'.capacity
             /\ scratch'.cursor \in
                  {0, Pieces(prepared.rows, Chunked(stack.mode, stack.vsa, prepared.rows), stack.vsa)}
  <2>1. /\ SequencePlan(stack, prepared.rows) <= scratch.capacity
        /\ scratch.cursor \in
             {0, Pieces(prepared.rows, Chunked(stack.mode, stack.vsa, prepared.rows), stack.vsa)}
    BY <1>4, <1>9 DEF MemoryInv
  <2> DEFINE needed == SequencePlan(stack, prepared.rows)
  <2>2. needed \in Nat BY <1>2, <1>8, SequencePlanHolds
  <2>3. scratch'.capacity \in Nat BY <1>7
  <2> HIDE DEF needed
  <2>4. needed <= scratch'.capacity BY <1>7, <1>8, <2>1, <2>2, <2>3 DEF needed
  <2>5. QED BY <1>7, <2>1, <2>4 DEF needed
<1>10. QED BY <1>2, <1>3, <1>4, <1>7, <1>9 DEF MemoryInv

\* A sequence gets what its plan says.
LEMMA PrepareSequenceKeeps ==
  ASSUME MemoryInv, NEW more \in Videos, PrepareSequence(more)
  PROVE  MemoryInv'
<1> DEFINE n == prepared.tokens + more
           plan == SequencePlan(stack, n)
<1>1. more \in Nat BY MemoryAssumption
<1>2. /\ stack \in Stacks
      /\ prepared \in [tokens : Prompts \cup {-1}, rows : Nat, fresh : BOOLEAN]
  BY DEF MemoryInv
<1>3. stack' = stack /\ prepared.tokens >= 0 /\ n > 0 BY DEF PrepareSequence
<1>4. n \in Nat
  <2>1. prepared.tokens \in Nat BY <1>2, <1>3, MemoryAssumption
  <2>2. QED BY <1>1, <2>1
<1>5. plan \in Nat BY <1>2, <1>4, SequencePlanHolds
<1>6. Padded(plan) \in Nat /\ plan <= Padded(plan) BY <1>5, PaddedIs
<1>7. prepared' = [prepared EXCEPT !.rows = n, !.fresh = TRUE] BY DEF PrepareSequence
<1>8. scratch' = [capacity |-> Padded(plan), cursor |-> 0, peak |-> 0] BY DEF PrepareSequence
<1> HIDE DEF n
<1>9. /\ prepared' \in [tokens : Prompts \cup {-1}, rows : Nat, fresh : BOOLEAN]
      /\ prepared'.rows = n /\ prepared'.tokens = prepared.tokens
  BY <1>2, <1>4, <1>7
<1>10. SequencePlan(stack', prepared'.rows) = plan BY <1>3, <1>9
<1> HIDE DEF plan
<1>11. /\ scratch' \in [capacity : Nat, cursor : Nat, peak : Nat]
       /\ scratch'.capacity = Padded(plan) /\ scratch'.cursor = 0 /\ scratch'.peak = 0
       /\ scratch'.peak <= scratch'.capacity
  BY <1>6, <1>8
<1>12. QED BY <1>2, <1>3, <1>6, <1>9, <1>10, <1>11 DEF MemoryInv

\* A forward pass stays inside it.
LEMMA ForwardKeeps ==
  ASSUME MemoryInv, NEW timesteps \in Timesteps, Forward(timesteps)
  PROVE  MemoryInv'
<1> DEFINE s == stack
           rows == prepared.rows
           pieces == Pieces(rows, Chunked(s.mode, s.vsa, rows), s.vsa)
           peak == BlockPeak(s, rows, s.mode, s.vsa)
           plan == SequencePlan(s, rows)
           scratchOf == PlanScratch(rows, AnyRotated(s))
           modulation == IF s.fullAdaLN THEN scratch.cursor + LinearWorkspaceBytes(FullAdaLN, timesteps) ELSE 0
           held == Larger({modulation, pieces + peak})
<1>1. timesteps \in Nat BY MemoryAssumption
<1>2. /\ s \in Stacks /\ scratch \in [capacity : Nat, cursor : Nat, peak : Nat]
      /\ prepared \in [tokens : Prompts \cup {-1}, rows : Nat, fresh : BOOLEAN] /\ rows \in Nat
  BY DEF MemoryInv
<1>3. rows > 0 /\ stack' = stack /\ prepared' = prepared BY DEF Forward
<1>4. plan <= scratch.capacity /\ scratch.cursor \in {0, pieces} BY <1>3 DEF MemoryInv
<1>5. /\ plan \in Nat /\ pieces \in Nat /\ pieces + scratchOf <= plan
      /\ s.fullAdaLN => pieces + ModulationBytes <= plan
  BY <1>2, SequencePlanHolds
<1>6. scratchOf \in Nat /\ peak \in 0 .. scratchOf BY <1>2, BlockFits
<1>7. ModulationBytes \in Nat /\ LinearWorkspaceBytes(FullAdaLN, timesteps) = ModulationBytes
  BY <1>1, ModulationIs
<1>8. scratch' = [scratch EXCEPT !.cursor = pieces, !.peak = held] BY DEF Forward, Needs
<1> HIDE DEF s, rows, pieces, peak, plan, scratchOf
<1>9. modulation \in Nat /\ modulation <= plan
  <2>1. CASE s.fullAdaLN
    <3>1. modulation = scratch.cursor + ModulationBytes BY <1>7, <2>1
    <3>2. pieces + ModulationBytes <= plan BY <1>5, <2>1
    <3> HIDE DEF modulation
    <3>3. QED BY <1>4, <1>5, <1>7, <3>1, <3>2
  <2>2. CASE ~s.fullAdaLN
    <3>1. modulation = 0 BY <2>2
    <3> HIDE DEF modulation
    <3>2. QED BY <1>5, <3>1
  <2>3. QED BY <2>1, <2>2
<1>10. pieces + peak \in Nat /\ pieces + peak <= plan BY <1>5, <1>6
<1> HIDE DEF modulation
<1>11. held \in Nat /\ held <= plan BY <1>9, <1>10, LargerOfTwo
<1> HIDE DEF held
<1>12. /\ scratch' \in [capacity : Nat, cursor : Nat, peak : Nat]
       /\ scratch'.capacity = scratch.capacity /\ scratch'.cursor = pieces /\ scratch'.peak = held
  BY <1>2, <1>5, <1>8, <1>11
<1>13. held <= scratch.capacity /\ scratch.capacity \in Nat BY <1>2, <1>4, <1>5, <1>11
<1>14. QED BY <1>2, <1>3, <1>4, <1>12, <1>13 DEF MemoryInv, s, rows, pieces, plan

\* No call disturbs it.
LEMMA MemoryIsKept == MemoryInv /\ [MemoryNext]_memoryVars => MemoryInv'
<1> SUFFICES ASSUME MemoryInv, [MemoryNext]_memoryVars PROVE MemoryInv' OBVIOUS
<1>1. ASSUME NEW tokens \in Prompts, PrepareText(tokens) PROVE MemoryInv' BY <1>1, PrepareTextKeeps
<1>2. ASSUME NEW more \in Videos, PrepareSequence(more) PROVE MemoryInv'
  BY <1>2, PrepareSequenceKeeps
<1>3. ASSUME NEW timesteps \in Timesteps, Forward(timesteps) PROVE MemoryInv' BY <1>3, ForwardKeeps
<1>4. CASE UNCHANGED memoryVars BY <1>4 DEF MemoryInv, memoryVars
<1>5. QED BY <1>1, <1>2, <1>3, <1>4 DEF MemoryNext

\* With it the arena suffices, and load's estimate covers it.
LEMMA InvariantSuffices == ASSUME MemoryInv PROVE ArenaSuffices
<1>1. NeverExhausted BY DEF MemoryInv, NeverExhausted
<1>2. ASSUME prepared.fresh
      PROVE  LET estimate == Estimate(stack, prepared.tokens, prepared.rows)
             IN /\ scratch.capacity <= estimate + ScratchAlign
                /\ TextPlan(stack, prepared.tokens) + prepared.tokens * (6 * TextDim + 2 * Hidden) <= estimate
  <2> DEFINE estimate == Estimate(stack, prepared.tokens, prepared.rows)
             plan == SequencePlan(stack, prepared.rows)
  <2>1. /\ stack \in Stacks /\ prepared.rows \in Nat /\ prepared.tokens \in Prompts \cup {-1}
        /\ prepared.tokens >= 0 /\ scratch.capacity = Padded(plan)
    BY <1>2 DEF MemoryInv
  <2>2. prepared.tokens \in Nat BY <2>1, MemoryAssumption
  <2>3. /\ estimate \in Nat /\ plan <= estimate
        /\ TextPlan(stack, prepared.tokens) + prepared.tokens * (6 * TextDim + 2 * Hidden) <= estimate
    BY <2>1, <2>2, EstimateHolds
  <2>4. plan \in Nat BY <2>1, SequencePlanHolds
  <2>5. Padded(plan) \in Nat /\ Padded(plan) < plan + ScratchAlign BY <2>4, PaddedIs
  <2> HIDE DEF estimate, plan
  <2>6. scratch.capacity <= estimate + ScratchAlign BY <2>1, <2>3, <2>4, <2>5, Widths
  <2>7. QED BY <2>3, <2>6 DEF estimate
<1>3. QED BY <1>1, <1>2 DEF EstimateCovers, ArenaSuffices

\* So it always holds.
LEMMA MemoryInvariant == MemorySpec => []MemoryInv
<1>1. QED BY MemoryStarts, MemoryIsKept, PTL DEF MemorySpec

\* No call asks the CUDA transformer's arena for more than load, prepare_text and prepare_sequence made
\* it hold, whatever the formats of the weights and whatever was prepared before, and what load set
\* aside before the weights were known covers both arenas.
THEOREM ArenaAlwaysSuffices == MemorySpec => []ArenaSuffices
<1>1. MemoryInv => ArenaSuffices BY InvariantSuffices
<1>2. QED BY <1>1, MemoryInvariant, PTL

\* The arena's record and what was prepared keep their shape.
THEOREM MemoryIsTyped == MemorySpec => []MemoryTypeOK
<1>1. MemoryInv => MemoryTypeOK BY DEF MemoryInv, MemoryTypeOK
<1>2. QED BY <1>1, MemoryInvariant, PTL
=============================================================================
