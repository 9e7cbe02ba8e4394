----------------------- MODULE WeightStreaming_proofs -----------------------
(***************************************************************************)
(* The streaming of weights, for any numbers of blocks, layers and         *)
(* tensors: what the device works on is there and stays until it is done   *)
(* with it, and a load is complete, or retries until nothing smaller is    *)
(* left.                                                                   *)
(***************************************************************************)
EXTENDS WeightStreaming, BlockStreamer_proofs, WellFoundedInduction

\* A set of numbers has a least one.
LEMMA LeastNatural ==
  ASSUME NEW S \in SUBSET Nat, S # {}
  PROVE  \E x \in S : \A y \in S : x <= y
<1>1. IsWellFoundedOn(OpToRel(<, Nat), Nat) BY NatLessThanWellFounded
<1>2. PICK x \in S : \A y \in S : ~(<<y, x>> \in OpToRel(<, Nat)) BY <1>1, WFMin
<1>3. \A y \in S : ~(y < x) BY <1>2 DEF OpToRel
<1>4. QED BY <1>3

\* f has the partial sums of the first n elements of s, each of which is at most their total.
IsSum(s, n, f) == /\ f \in [0 .. n -> Nat] /\ f[0] = 0
                  /\ \A i \in 1 .. n : f[i] = f[i - 1] + s[i]

\* There are sums of the beginnings of a sequence.
LEMMA SumsExist ==
  ASSUME NEW s \in Seq(Nat)
  PROVE  \E f : IsSum(s, Len(s), f)
<1> DEFINE Bad == {n \in 0 .. Len(s) : ~\E f : IsSum(s, n, f)}
<1>1. SUFFICES ASSUME Bad # {} PROVE FALSE
  <2>1. Len(s) \in 0 .. Len(s) OBVIOUS
  <2>2. QED BY <2>1
<1>2. PICK n \in Bad : \A m \in Bad : n <= m
  <2>1. Bad \in SUBSET Nat OBVIOUS
  <2> HIDE DEF Bad
  <2>2. QED BY <1>1, <2>1, LeastNatural
<1>3. n # 0
  <2> DEFINE f == [i \in 0 .. 0 |-> 0]
  <2>1. IsSum(s, 0, f) BY DEF IsSum
  <2> HIDE DEF f
  <2>2. QED BY <2>1
<1>4. PICK g : IsSum(s, n - 1, g) BY <1>2, <1>3
<1> DEFINE f == [i \in 0 .. n |-> IF i = n THEN g[n - 1] + s[n] ELSE g[i]]
<1>5. n \in 1 .. Len(s) /\ s[n] \in Nat /\ g[n - 1] \in Nat BY <1>3, <1>4 DEF IsSum
<1>6. IsSum(s, n, f)
  <2>1. f \in [0 .. n -> Nat] BY <1>4, <1>5 DEF IsSum
  <2>2. f[0] = 0 BY <1>4, <1>5 DEF IsSum
  <2>3. \A i \in 1 .. n : f[i] = f[i - 1] + s[i]
    <3>1. \A i \in 0 .. n : f[i] = IF i = n THEN g[n - 1] + s[n] ELSE g[i] OBVIOUS
    <3> HIDE DEF f
    <3>2. \A i \in 1 .. n : i - 1 \in 0 .. n /\ i - 1 # n /\ i \in 0 .. n /\ (i # n => i \in 1 .. n - 1)
      BY <1>5
    <3>3. \A i \in 1 .. n - 1 : g[i] = g[i - 1] + s[i] BY <1>4 DEF IsSum
    <3>4. QED BY <3>1, <3>2, <3>3
  <2> HIDE DEF f
  <2>4. QED BY <2>1, <2>2, <2>3 DEF IsSum
<1> HIDE DEF f
<1>7. QED BY <1>6

\* Sums is what its recursion says.
LEMMA SumsAreSums ==
  ASSUME NEW s \in Seq(Nat)
  PROVE  IsSum(s, Len(s), Sums(s))
<1>1. PICK f : IsSum(s, Len(s), f) BY SumsExist
<1>2. f = [n \in 0 .. Len(s) |-> IF n = 0 THEN 0 ELSE f[n - 1] + s[n]] BY <1>1 DEF IsSum
<1>3. \E h : h = [n \in 0 .. Len(s) |-> IF n = 0 THEN 0 ELSE h[n - 1] + s[n]] BY <1>2
<1> DEFINE h == Sums(s)
<1>4. h = [n \in 0 .. Len(s) |-> IF n = 0 THEN 0 ELSE h[n - 1] + s[n]] BY <1>3 DEF Sums
<1> HIDE DEF h
<1>9. \A n \in 0 .. Len(s) : h[n] = IF n = 0 THEN 0 ELSE h[n - 1] + s[n] BY <1>4
<1>10. DOMAIN h = 0 .. Len(s) BY <1>4
<1> DEFINE Bad == {n \in 0 .. Len(s) : h[n] \notin Nat}
<1>5. Bad = {}
  <2>1. SUFFICES ASSUME Bad # {} PROVE FALSE OBVIOUS
  <2>2. PICK n \in Bad : \A m \in Bad : n <= m
    <3>1. Bad \in SUBSET Nat OBVIOUS
    <3> HIDE DEF Bad
    <3>2. QED BY <2>1, <3>1, LeastNatural
  <2>3. n # 0 BY <1>9
  <2>4. n - 1 \in 0 .. Len(s) /\ n - 1 \notin Bad /\ n \in 1 .. Len(s)
    <3>1. n \in 0 .. Len(s) /\ Len(s) \in Nat OBVIOUS
    <3>2. n - 1 \in 0 .. Len(s) /\ n \in 1 .. Len(s) /\ ~(n <= n - 1) BY <2>3, <3>1
    <3>3. QED BY <2>2, <3>2, Zenon
  <2>5. h[n - 1] \in Nat /\ s[n] \in Nat BY <2>4
  <2>6. h[n] = h[n - 1] + s[n] BY <1>9, <2>4
  <2>7. h[n] \in Nat BY <2>5, <2>6
  <2>8. QED BY <2>7, Zenon
<1>6. \A n \in 0 .. Len(s) : h[n] \in Nat BY <1>5
<1>7. IsSum(s, Len(s), h)
  <2>1. h \in [0 .. Len(s) -> Nat] BY <1>4, <1>6
  <2>2. 0 \in 0 .. Len(s) /\ \A i \in 1 .. Len(s) : i \in 0 .. Len(s) /\ i # 0 OBVIOUS
  <2>3. h[0] = 0 /\ \A i \in 1 .. Len(s) : h[i] = h[i - 1] + s[i] BY <1>9, <2>2, Zenon
  <2>4. QED BY <2>1, <2>3 DEF IsSum
<1>8. QED BY <1>7 DEF h

\* The total is a number, and no element is larger.
LEMMA TotalBounds ==
  ASSUME NEW s \in Seq(Nat)
  PROVE  Total(s) \in Nat /\ \A i \in DOMAIN s : s[i] <= Total(s)
<1> DEFINE f == Sums(s)
<1>1. IsSum(s, Len(s), f) BY SumsAreSums
<1> HIDE DEF f
<1> DEFINE Bad == {n \in 0 .. Len(s) : \E i \in 1 .. n : ~(s[i] <= f[n])}
<1>2. Bad = {}
  <2>1. SUFFICES ASSUME Bad # {} PROVE FALSE OBVIOUS
  <2>2. PICK n \in Bad : \A m \in Bad : n <= m
    <3>1. Bad \in SUBSET Nat OBVIOUS
    <3> HIDE DEF Bad
    <3>2. QED BY <2>1, <3>1, LeastNatural
  <2>3. PICK i \in 1 .. n : ~(s[i] <= f[n]) OBVIOUS
  <2>8. n \in 1 .. Len(s) /\ i \in 1 .. Len(s) /\ n - 1 \in 0 .. Len(s) /\ ~(n <= n - 1) BY <2>3
  <2>4. f[n] = f[n - 1] + s[n] /\ f[n - 1] \in Nat /\ s[n] \in Nat /\ s[i] \in Nat
    <3>1. f[n - 1] \in Nat /\ f[n] = f[n - 1] + s[n] BY <1>1, <2>8 DEF IsSum
    <3>2. \A j \in 1 .. Len(s) : s[j] \in Nat OBVIOUS
    <3>3. QED BY <2>8, <3>1, <3>2, Zenon
  <2>5. n - 1 \notin Bad BY <2>2, <2>8
  <2>6. i \in 1 .. n - 1 => s[i] <= f[n - 1] BY <2>5, <2>8
  <2>7. s[i] <= f[n]
    <3>1. CASE i = n BY <2>4, <3>1
    <3>2. CASE i \in 1 .. n - 1
      <4>1. s[i] <= f[n - 1] BY <2>6, <3>2, Zenon
      <4>2. \A x, y, z \in Nat : x <= y => x <= y + z OBVIOUS
      <4>3. QED BY <2>4, <4>1, <4>2, Zenon
    <3>3. n \in Nat /\ i \in 1 .. n BY <2>8
    <3>4. i = n \/ i \in 1 .. n - 1 BY <3>3
    <3>5. QED BY <3>1, <3>2, <3>4
  <2>9. QED BY <2>3, <2>7, Zenon
<1>3. Len(s) \in 0 .. Len(s) /\ f[Len(s)] \in Nat BY <1>1 DEF IsSum
<1>4. \A i \in 1 .. Len(s) : s[i] <= f[Len(s)] BY <1>2, <1>3
<1>5. DOMAIN s = 1 .. Len(s) /\ Total(s) = f[Len(s)] BY DEF Total, f
<1>6. QED BY <1>3, <1>4, <1>5, Zenon

\* Max and Min of a bounded set of numbers are among its elements.
LEMMA MaxIsGreatest ==
  ASSUME NEW n \in Nat, NEW S \in SUBSET (0 .. n), S # {}
  PROVE  Max(S) \in S /\ \A y \in S : y <= Max(S)
<1> DEFINE T == {n - s : s \in S}
<1>1. T \in SUBSET Nat OBVIOUS
<1>2. T # {} OBVIOUS
<1>3. PICK t \in T : \A u \in T : t <= u
  <2> HIDE DEF T
  <2>1. QED BY <1>1, <1>2, LeastNatural
<1>4. PICK x \in S : t = n - x BY <1>3
<1>5. \A y \in S : n - x <= n - y BY <1>3, <1>4
<1>6. \A y \in S : x >= y BY <1>5
<1>7. QED BY <1>6 DEF Max

\* Min of numbers is the least of them.
LEMMA MinIsLeast ==
  ASSUME NEW S \in SUBSET Nat, S # {}
  PROVE  Min(S) \in S /\ \A y \in S : Min(S) <= y
<1>1. PICK x \in S : \A y \in S : x <= y BY LeastNatural
<1>2. QED BY <1>1 DEF Min

\* What a plan takes is a number.
LEMMA BytesAreNumbers ==
  ASSUME sizesOf \in Seq(Nat), NEW n \in 0 .. NumOf
  PROVE  DeviceBytes(n) \in Nat
<1> DEFINE back == SubSeq(sizesOf, NumOf - n + 1, NumOf) front == SubSeq(sizesOf, 1, NumOf - n)
<1>1. back \in Seq(Nat) /\ front \in Seq(Nat) BY DEF NumOf
<1> HIDE DEF back, front
<1>2. Total(back) \in Nat /\ Total(front) \in Nat /\ \A i \in DOMAIN back : back[i] <= Total(back)
  BY <1>1, TotalBounds
<1> DEFINE S == {0} \cup ToSet(back)
<1>3. S \in SUBSET (0 .. Total(back))
  <2>1. \A i \in DOMAIN back : back[i] \in Nat BY <1>1
  <2>2. QED BY <1>2, <2>1 DEF ToSet
<1>4. Max(S) \in Nat
  <2>1. S # {} OBVIOUS
  <2> HIDE DEF S
  <2>2. Max(S) \in S BY <1>2, <1>3, <2>1, MaxIsGreatest
  <2>3. \A x \in S : x \in Nat BY <1>2, <1>3
  <2>4. QED BY <2>2, <2>3
<1>5. Min({n, 2}) \in Nat
  <2>1. {n, 2} \in SUBSET Nat /\ {n, 2} # {} BY DEF NumOf
  <2>2. QED BY <2>1, MinIsLeast
<1>6. SlotBytes(n) \in Nat BY <1>4 DEF SlotBytes, OffloadedBlocks, S, back
<1>7. Min({n, 2}) * SlotBytes(n) \in Nat BY <1>5, <1>6
<1>8. QED BY <1>2, <1>7, OffloadAssumption DEF DeviceBytes, front

-----------------------------------------------------------------------------
(* The load.                                                               *)

\* What was tried so far does not fit below the ceiling, the present plan is the shortest that does,
\* and a load that failed was not allowed to retry.
LoadInv ==
  /\ OffloadTypeOK /\ (automatic => forced = -1)
  /\ ldPc = "plan" => held = 0 /\ planned = Unlimited /\ error = "none"
  /\ ldPc = "plan" => \A n \in 0 .. attempt - 1 : DeviceBytes(n) > ceiling
  /\ ldPc # "plan" /\ planned # Unlimited => planned <= ceiling
  /\ ldPc # "plan" /\ planned # Unlimited /\ automatic =>
       \E n \in attempt .. NumOf : planned = DeviceBytes(n) /\ \A m \in 0 .. n - 1 : DeviceBytes(m) > planned
  /\ ldPc = "failed" => ~MayRetry

\* So it is for every plan.
LEMMA SizesAreNumbers ==
  ASSUME OffloadTypeOK
  PROVE  sizesOf \in Seq(Nat) /\ NumOf \in Nat /\ \A n \in 0 .. NumOf : DeviceBytes(n) \in Nat
<1>1. sizesOf \in Seq(Nat) BY OffloadAssumption DEF OffloadTypeOK
<1>2. QED BY <1>1, BytesAreNumbers DEF NumOf

\* A load begins well.
LEMMA LoadInit_Inv == OffloadInit => LoadInv
<1> SUFFICES ASSUME OffloadInit PROVE LoadInv OBVIOUS
<1>1. sizesOf \in Seq(Nat) /\ NumOf \in Nat /\ Unlimited \in Nat
  BY OffloadAssumption DEF OffloadInit, NumOf
<1>2. OffloadTypeOK
  <2>1. automatic \in BOOLEAN
    <3>1. CASE forced = -1 BY <3>1 DEF OffloadInit
    <3>2. CASE forced # -1 BY <3>2 DEF OffloadInit
    <3>3. QED BY <3>1, <3>2
  <2>2. Unlimited \in 0 .. Unlimited /\ 0 \in 0 .. Unlimited /\ 0 \in 0 .. NumOf BY <1>1
  <2>3. QED BY <2>1, <2>2 DEF OffloadInit, OffloadTypeOK
<1>3. attempt = 0 /\ ldPc = "plan" /\ held = 0 /\ planned = Unlimited /\ error = "none" /\ (automatic => forced = -1)
  BY DEF OffloadInit
<1>4. QED BY <1>2, <1>3 DEF LoadInv

\* DeviceBytes and NumOf are of the transformer, which stays.
LEMMA BytesStay ==
  ASSUME UNCHANGED sizesOf
  PROVE  NumOf' = NumOf /\ \A n : DeviceBytes(n)' = DeviceBytes(n)
BY DEF NumOf, DeviceBytes, SlotBytes, OffloadedBlocks

\* The shortest suffix that fits is planned.
LEMMA PlanKeepsInv == ASSUME LoadInv, Plan PROVE LoadInv'
<1>1. /\ OffloadTypeOK /\ NumOf \in Nat /\ \A n \in 0 .. NumOf : DeviceBytes(n) \in Nat
      /\ ceiling \in Nat /\ Unlimited \in Nat /\ attempt \in 0 .. NumOf /\ ceiling <= Unlimited
      /\ automatic => forced = -1
      /\ \A n \in 0 .. attempt - 1 : DeviceBytes(n) > ceiling
  <2>1. OffloadTypeOK /\ ldPc = "plan" BY DEF LoadInv, Plan
  <2>2. NumOf \in Nat /\ \A n \in 0 .. NumOf : DeviceBytes(n) \in Nat BY <2>1, SizesAreNumbers
  <2>3. ceiling \in Nat /\ Unlimited \in Nat /\ attempt \in 0 .. NumOf /\ ceiling <= Unlimited
    BY <2>1, OffloadAssumption DEF OffloadTypeOK
  <2>4. QED BY <2>1, <2>2, <2>3 DEF LoadInv
<1>2. UNCHANGED <<sizesOf, automatic, forced, ceiling, attempt, error>> /\ ldPc' = "upload"
  BY DEF Plan
<1>3. PICK free \in Budgets :
        /\ Fitting(Min({free, ceiling})) # {}
        /\ planned' = DeviceBytes(Min(Fitting(Min({free, ceiling})))) /\ held' \in {0, planned'}
  BY DEF Plan
<1> DEFINE budget == Min({free, ceiling}) F == Fitting(budget)
<1>4. budget \in Nat /\ budget <= ceiling
  <2>1. {free, ceiling} \in SUBSET Nat /\ {free, ceiling} # {} BY <1>1, OffloadAssumption
  <2>2. QED BY <2>1, MinIsLeast
<1> HIDE DEF budget
<1>5. Min(F) \in F /\ \A m \in F : Min(F) <= m
  <2>1. F \in SUBSET Nat BY <1>1 DEF Fitting
  <2>2. QED BY <1>3, <2>1, MinIsLeast DEF budget
<1>6. PICK n : n \in F /\ (\A m \in F : n <= m) /\ planned' = DeviceBytes(n) /\ held' \in {0, planned'}
  BY <1>3, <1>5 DEF budget
<1>7. n \in 0 .. NumOf /\ DeviceBytes(n) <= budget /\ (forced < 0 \/ n = forced) BY <1>6 DEF Fitting
<1>8. planned' \in Nat /\ planned' <= ceiling /\ planned' <= budget BY <1>1, <1>4, <1>6, <1>7
<1>9. automatic => \A m \in 0 .. n - 1 : DeviceBytes(m) > planned'
  <2> SUFFICES ASSUME automatic, NEW m \in 0 .. n - 1 PROVE DeviceBytes(m) > planned' OBVIOUS
  <2>1. m \in 0 .. NumOf /\ ~(n <= m) /\ DeviceBytes(m) \in Nat BY <1>1, <1>7
  <2>2. m \notin F BY <1>6, <2>1
  <2>3. ~(DeviceBytes(m) <= budget) BY <1>1, <2>1, <2>2 DEF Fitting
  <2>4. QED BY <1>4, <1>8, <2>1, <2>3
<1>10. n \in attempt .. NumOf
  <2>1. n \notin 0 .. attempt - 1 BY <1>1, <1>4, <1>7
  <2>2. QED BY <1>1, <1>7, <2>1
<1>11. NumOf' = NumOf /\ \A m : DeviceBytes(m)' = DeviceBytes(m) BY <1>2, BytesStay
<1>12. OffloadTypeOK'
  <2>1. planned' \in 0 .. Unlimited /\ held' \in 0 .. Unlimited BY <1>1, <1>6, <1>8
  <2>2. QED BY <1>1, <1>2, <1>11, <2>1 DEF OffloadTypeOK
<1>13. (\E k \in attempt .. NumOf : planned = DeviceBytes(k) /\ \A m \in 0 .. k - 1 : DeviceBytes(m) > planned)' \/ ~automatic
  <2>1. planned' = DeviceBytes(n)' /\ (automatic => \A m \in 0 .. n - 1 : DeviceBytes(m)' > planned')
    BY <1>6, <1>9, <1>11
  <2>2. n \in attempt' .. NumOf' BY <1>2, <1>10, <1>11
  <2>3. QED BY <2>1, <2>2
<1>14. QED BY <1>1, <1>2, <1>8, <1>12, <1>13 DEF LoadInv

\* A retry lowers the ceiling below what was planned, which rules out every plan up to that one.
LEMMA RetryKeepsInv == ASSUME LoadInv, Retry PROVE LoadInv'
<1>1. /\ OffloadTypeOK /\ NumOf \in Nat /\ \A n \in 0 .. NumOf : DeviceBytes(n) \in Nat
      /\ ceiling \in Nat /\ Unlimited \in Nat /\ attempt \in 0 .. NumOf /\ ceiling <= Unlimited /\ planned \in Nat
      /\ automatic => forced = -1
  BY SizesAreNumbers, OffloadAssumption DEF LoadInv, OffloadTypeOK
<1>2. automatic /\ attempt < NumOf /\ planned # 0 /\ planned <= ceiling /\ planned # Unlimited /\ ldPc = "release"
  BY DEF Retry, MayRetry
<1>3. PICK n \in attempt .. NumOf : planned = DeviceBytes(n) /\ \A m \in 0 .. n - 1 : DeviceBytes(m) > planned
  BY <1>2 DEF LoadInv
<1>4. /\ UNCHANGED <<sizesOf, automatic, forced>> /\ ldPc' = "plan" /\ held' = 0 /\ planned' = Unlimited
      /\ ceiling' = planned - 1 /\ attempt' = attempt + 1 /\ error' = "none"
  BY DEF Retry, AfterRelease
<1>5. \A m \in 0 .. attempt : DeviceBytes(m) > planned - 1
  <2> TAKE m \in 0 .. attempt
  <2>1. DeviceBytes(m) \in Nat /\ n \in Nat BY <1>1
  <2>2. m = n \/ m \in 0 .. n - 1 BY <1>1
  <2>3. QED BY <1>1, <1>3, <2>1, <2>2
<1>6. NumOf' = NumOf /\ \A m : DeviceBytes(m)' = DeviceBytes(m) BY <1>4, BytesStay
<1>7. OffloadTypeOK'
  <2>1. ceiling' \in 0 .. Unlimited /\ attempt' \in 0 .. NumOf /\ planned' \in 0 .. Unlimited /\ held' \in 0 .. Unlimited
    BY <1>1, <1>2, <1>4
  <2>2. QED BY <1>1, <1>4, <1>6, <2>1 DEF OffloadTypeOK
<1>8. \A m \in 0 .. attempt' - 1 : DeviceBytes(m)' > ceiling' BY <1>1, <1>4, <1>5, <1>6
<1>9. QED BY <1>1, <1>4, <1>7, <1>8 DEF LoadInv

\* The other steps leave the plan alone, or follow a plan that failed.
LEMMA OtherStepsKeepInv ==
  ASSUME LoadInv, PlanFails \/ Upload \/ UploadThrows \/ GiveUp
  PROVE  LoadInv'
<1>1. UNCHANGED <<sizesOf, automatic, forced, ceiling, planned, attempt>>
  BY DEF PlanFails, Upload, UploadThrows, GiveUp
<1>2. NumOf' = NumOf /\ \A m : DeviceBytes(m)' = DeviceBytes(m) BY <1>1, BytesStay
<1>3. ldPc' \in {"upload", "release", "loaded", "failed"} /\ ldPc' # "plan"
  BY DEF PlanFails, Upload, UploadThrows, GiveUp
<1>4. OffloadTypeOK'
  <2>1. held' \in 0 .. Unlimited /\ error' \in {"none", "memory", "other"}
    BY OffloadAssumption DEF LoadInv, OffloadTypeOK, PlanFails, Upload, UploadThrows, GiveUp, AfterRelease
  <2>2. QED BY <1>1, <1>2, <1>3, <2>1 DEF LoadInv, OffloadTypeOK
<1>5. ldPc = "plan" => planned = Unlimited BY DEF LoadInv
<1>6. planned # Unlimited => planned <= ceiling BY <1>5 DEF LoadInv
<1>7. planned # Unlimited /\ automatic =>
        \E n \in attempt .. NumOf : planned = DeviceBytes(n) /\ \A m \in 0 .. n - 1 : DeviceBytes(m) > planned
  BY <1>5 DEF LoadInv
<1>8. ldPc' = "failed" => ~MayRetry'
  BY <1>1, <1>2 DEF PlanFails, Upload, UploadThrows, GiveUp, MayRetry
<1>9. (planned # Unlimited /\ automatic =>
        \E n \in attempt .. NumOf : planned = DeviceBytes(n) /\ \A m \in 0 .. n - 1 : DeviceBytes(m) > planned)'
  BY <1>1, <1>2, <1>7
<1>10. QED BY <1>1, <1>3, <1>4, <1>6, <1>8, <1>9 DEF LoadInv

\* Every step of a load keeps its invariant.
LEMMA LoadStepKeepsInv == ASSUME LoadInv, OffloadStep PROVE LoadInv'
BY PlanKeepsInv, RetryKeepsInv, OtherStepsKeepInv DEF OffloadStep

\* So does every step of something else.
LEMMA LoadStaysTheSame == ASSUME LoadInv, UNCHANGED ldVars PROVE LoadInv'
<1>1. NumOf' = NumOf /\ \A m : DeviceBytes(m)' = DeviceBytes(m) BY BytesStay DEF ldVars
<1>2. OffloadTypeOK' /\ (MayRetry' = MayRetry) BY <1>1 DEF LoadInv, OffloadTypeOK, ldVars, MayRetry
<1>3. QED BY <1>1, <1>2 DEF LoadInv, ldVars

\* A load plans with nothing held, and gives up only at the smallest plan.
LEMMA LoadInvRetries == LoadInv => PlansWithNothingHeld /\ GivesUpAtTheSmallest
<1> SUFFICES ASSUME LoadInv PROVE GivesUpAtTheSmallest BY DEF LoadInv, PlansWithNothingHeld
<1> SUFFICES ASSUME ldPc = "failed", automatic, error = "memory", planned # Unlimited, NEW k \in 0 .. NumOf
             PROVE  DeviceBytes(k) >= planned
  BY DEF GivesUpAtTheSmallest
<1>1. NumOf \in Nat /\ (\A n \in 0 .. NumOf : DeviceBytes(n) \in Nat) /\ attempt \in 0 .. NumOf /\ planned \in Nat
  BY SizesAreNumbers, OffloadAssumption DEF LoadInv, OffloadTypeOK
<1>2. PICK n \in attempt .. NumOf : planned = DeviceBytes(n) /\ \A m \in 0 .. n - 1 : DeviceBytes(m) > planned
  BY DEF LoadInv
<1>3. planned <= ceiling /\ ~MayRetry BY DEF LoadInv
<1>4. planned = 0 \/ attempt = NumOf BY <1>1, <1>3 DEF MayRetry
<1>5. CASE planned = 0 BY <1>1, <1>5
<1>6. CASE attempt = NumOf
  <2>1. n = NumOf /\ (k = n \/ k \in 0 .. n - 1) BY <1>1, <1>6
  <2>2. QED BY <1>1, <1>2, <2>1
<1>7. QED BY <1>4, <1>5, <1>6

-----------------------------------------------------------------------------
(* The uploader.                                                           *)

\* The uploader's places differ.
LEMMA UploadPlacesDiffer ==
  \A s, u, t, v, w :
    /\ Stage(s, u) # Landing(v) /\ Stage(s, u) # ArenaAt(t, v) /\ Stage(s, u) # Scratch(v) /\ Stage(s, u) # CheckpointMap
    /\ Landing(u) # ArenaAt(t, v) /\ Landing(u) # Scratch(v) /\ Landing(u) # CheckpointMap
    /\ ArenaAt(t, u) # Scratch(v) /\ ArenaAt(t, u) # CheckpointMap /\ Scratch(u) # CheckpointMap
    /\ Stage(s, u) = Stage(t, v) => s = t /\ u = v
    /\ Landing(u) = Landing(v) => u = v
    /\ ArenaAt(s, u) = ArenaAt(t, v) => s = t /\ u = v
BY DEF Stage, Landing, ArenaAt, Scratch, CheckpointMap

\* Sizes are numbers, and none exceeds the largest.
LEMMA UnitsAreCounted ==
  /\ Max(TensorSizes) \in Nat \ {0} /\ \A size \in TensorSizes : size \in Nat \ {0} /\ size <= Max(TensorSizes)
  /\ Units = 0 .. Max(TensorSizes) - 1
<1>1. PICK largest \in TensorSizes : \A size \in TensorSizes : size <= largest BY UploaderAssumption
<1>2. Max(TensorSizes) \in TensorSizes /\ \A size \in TensorSizes : size <= Max(TensorSizes)
  <2>1. TensorSizes \subseteq Nat BY UploaderAssumption
  <2>2. largest \in TensorSizes /\ \A size \in TensorSizes : largest >= size BY <1>1, <2>1
  <2>3. Max(TensorSizes) \in TensorSizes /\ \A size \in TensorSizes : Max(TensorSizes) >= size
    BY <2>2 DEF Max
  <2>4. QED BY <2>1, <2>3
<1>3. QED BY <1>2, UploaderAssumption DEF Units

\* The items of the compute stream write landing places and the arena, and read what stays put.
UploadItem(x, n, isLocked) ==
  x.kind = "work" =>
    /\ \A p \in DOMAIN x.gives :
         \/ \E u \in Units : p = Landing(u)
         \/ \E t \in 1 .. n, u \in Units : p = ArenaAt(t, u) /\ x.gives[p] = TensorData(t, u)
    /\ \A p \in DOMAIN x.wants :
         \/ p = CheckpointMap /\ isLocked /\ x.wants[p] = <<"bytes">>
         \/ \E s \in {0, 1}, u \in 0 .. StageUnits - 1 : p = Stage(s, u)
         \/ \E u \in Units : p = Landing(u)

UploadItems == Copy = <<>> /\ \A i \in 1 .. Len(Compute) : UploadItem(Compute[i], tensor, locked)

UploadMemory ==
  /\ WeightArena \subseteq DOMAIN memory
  /\ upPc = "closed" => Compute = <<>>
  /\ upPc # "closed" => /\ \A u \in Units : Landing(u) \in DOMAIN memory
                        /\ locked => CheckpointMap \in DOMAIN memory /\ memory[CheckpointMap] = <<"bytes">>

\* A slot's units are written once while their readers are queued: the present slot is written
\* behind them, and the other one is turned to only when its last record is reached.
StageKept(i, s, u) ==
  /\ Stage(s, u) \in DOMAIN memory /\ memory[Stage(s, u)] = Compute[i].wants[Stage(s, u)]
  /\ upPc # "closing" =>
       IF s = current /\ upPc # "drain" THEN u < used
       ELSE \E k \in i + 1 .. Len(Compute), n \in Nat : Records(Compute, k, <<"emptied", s>>, n)

StagesKept ==
  \A i \in 1 .. Len(Compute), s \in {0, 1}, u \in 0 .. StageUnits - 1 :
    Wants(Compute, i, Stage(s, u)) => StageKept(i, s, u)

LandingsFound ==
  \A i \in 1 .. Len(Compute), u \in Units : Wants(Compute, i, Landing(u)) =>
    InStream(Compute, memory, i, Landing(u), Compute[i].wants[Landing(u)])

\* What of the present tensor is to be widened will have landed.
Landed == IF upPc = "copied" THEN sizes[tensor] ELSE at
LandingReady ==
  upPc \in {"copy", "drain", "copied"} /\ kind = "half" =>
    \A u \in 0 .. Landed - 1 : InStream(Compute, memory, End, Landing(u), TensorData(tensor, u))

\* How much of tensor t is in the arena or on its way there.
Sent(t) ==
  IF t < tensor \/ upPc = "next" \/ (upPc \in {"closing", "closed"} /\ ~failed) THEN sizes[t]
  ELSE IF kind = "half" \/ upPc \in {"closing", "closed"} THEN 0
  ELSE Landed

Arrives(t, u) ==
  memory[ArenaAt(t, u)] = TensorData(t, u) \/ \E i \in 1 .. Len(Compute) : Gives(Compute, i, ArenaAt(t, u))
ArenaFilled == \A t \in 1 .. tensor : \A u \in 0 .. Sent(t) - 1 : Arrives(t, u)

UploadPieces ==
  /\ UploaderTypeOK
  /\ upPc \in {"copy", "drain", "copied"} => tensor > 0 /\ at <= sizes[tensor]

UploaderInv ==
  QueueInv /\ UploadPieces /\ UploadItems /\ UploadMemory /\ StagesKept /\ LandingsFound /\ LandingReady /\ ArenaFilled

\* So are the uploader's counts.
LEMMA TensorsAreCounted ==
  ASSUME UploaderTypeOK
  PROVE  /\ tensor \in 0 .. MaxTensors /\ MaxTensors \in Nat
         /\ \A t \in 1 .. tensor : sizes[t] \in Nat \ {0} /\ sizes[t] <= Max(TensorSizes) /\ sizes[t] \in TensorSizes
         /\ at \in Nat /\ used \in 0 .. StageUnits /\ StageUnits \in Nat \ {0} /\ current \in {0, 1}
<1>1. sizes \in Seq(TensorSizes) /\ Len(sizes) <= MaxTensors /\ Len(sizes) \in Nat /\ MaxTensors \in Nat
  BY UploaderAssumption DEF UploaderTypeOK
<1>2. \A t \in 1 .. Len(sizes) : sizes[t] \in TensorSizes BY <1>1
<1>3. \A t \in 1 .. tensor : sizes[t] \in Nat \ {0} /\ sizes[t] <= Max(TensorSizes) /\ sizes[t] \in TensorSizes
  BY <1>2, UnitsAreCounted DEF tensor
<1>4. at \in Nat /\ used \in 0 .. StageUnits /\ StageUnits \in Nat \ {0} /\ current \in {0, 1}
  BY UnitsAreCounted, UploaderAssumption DEF UploaderTypeOK
<1>5. tensor \in 0 .. MaxTensors BY <1>1 DEF tensor
<1>6. QED BY <1>1, <1>3, <1>4, <1>5

\* An upload begins well.
LEMMA UploaderInitInv ==
  ASSUME UploaderInit, CudaInit(UploaderPlaces(locked)) PROVE UploaderInv
<1>1. QueueInv BY CudaInit_Inv
<1>2. Compute = <<>> /\ Copy = <<>> /\ Len(<<>>) = 0 /\ memory = UploaderPlaces(locked)
  BY ShortSeqs DEF CudaInit, Compute, Copy, Streams
<1>3. UploaderTypeOK /\ tensor = 0
  <2>1. 0 \in 0 .. Max(TensorSizes) /\ 0 \in 0 .. StageUnits BY UnitsAreCounted, UploaderAssumption
  <2>2. sizes \in Seq(TensorSizes) /\ Len(sizes) = 0 /\ 0 <= MaxTensors
    BY UploaderAssumption DEF UploaderInit
  <2>3. QED BY <2>1, <2>2 DEF UploaderInit, UploaderTypeOK, tensor
<1>4. UploadPieces /\ UploadItems /\ StagesKept /\ LandingsFound
  BY <1>2, <1>3 DEF UploadPieces, UploaderInit, UploadItems, StagesKept, LandingsFound
<1>5. LandingReady /\ ArenaFilled BY <1>3 DEF LandingReady, UploaderInit, ArenaFilled
<1>6. UploadMemory
  <2>1. /\ WeightArena \subseteq DOMAIN memory /\ \A u \in Units : Landing(u) \in DOMAIN memory
        /\ locked => CheckpointMap \in DOMAIN memory
    BY <1>2 DEF UploaderPlaces
  <2>2. locked => memory[CheckpointMap] = <<"bytes">> BY <1>2, <2>1 DEF UploaderPlaces
  <2>3. QED BY <2>1, <2>2 DEF UploadMemory, UploaderInit
<1>7. QED BY <1>1, <1>4, <1>5, <1>6 DEF UploaderInv

\* What an uploader's step of the device leaves of the lengths and the items.
LEMMA UploadDevice ==
  ASSUME UploaderInv, NEW s \in Streams, Starting(s) \/ Finishing(s) \/ Passing(s)
  PROVE  /\ s = "compute" /\ Copy' = <<>> /\ DOMAIN memory' = DOMAIN memory
         /\ Len(Compute) \in Nat /\ Len(Compute) > 0 /\ Len(Compute') \in Nat
         /\ \/ Starting("compute") /\ Compute' = Compute
            \/ /\ Finishing("compute") \/ Passing("compute")
               /\ Len(Compute') = Len(Compute) - 1 /\ \A k \in 1 .. Len(Compute') : Compute'[k] = Compute[k + 1]
<1>1. s = "compute"
  BY DEF UploaderInv, UploadItems, Copy, Streams, Starting, Finishing, Passing, Pop
<1>2. Copy' = <<>>
  BY <1>1 DEF UploaderInv, UploadItems, Copy, Streams, Starting, Finishing, Passing, Pop
<1>3. DOMAIN memory' = DOMAIN memory BY DEF Starting, Finishing, Passing
<1>4. IsSeq(Compute) /\ Compute # <<>>
  BY <1>1 DEF UploaderInv, QueueInv, Compute, Streams, Starting, Finishing, Passing, Pop
<1>5. Len(Compute) \in Nat /\ Len(Compute) > 0 BY <1>4, Beheaded DEF Popped
<1>6. CASE Starting(s) BY <1>1, <1>2, <1>3, <1>5, <1>6 DEF Starting, Compute
<1>7. CASE Finishing(s) \/ Passing(s)
  BY <1>1, <1>2, <1>3, <1>5, <1>7 DEF Finishing, Passing, Pop, Popped, Compute
<1>8. QED BY <1>6, <1>7

\* The places it does not write.
LEMMA UploadDeviceMemory ==
  ASSUME UploaderInv, NEW s \in Streams, Starting(s) \/ Finishing(s) \/ Passing(s), NEW p \in DOMAIN memory
  PROVE  /\ ~Gives(Compute, 1, p) => memory'[p] = memory[p]
         /\ (\E t, u : p = Stage(t, u)) \/ p = CheckpointMap => ~Gives(Compute, 1, p)
<1>1. s = "compute" /\ 1 \in 1 .. Len(Compute) BY UploadDevice
<1>2. ~Gives(Compute, 1, p) => memory'[p] = memory[p]
  BY <1>1 DEF Starting, Finishing, Passing, Gives, Compute
<1>3. UploadItem(Compute[1], tensor, locked) BY <1>1 DEF UploaderInv, UploadItems
<1>4. (\E t, u : p = Stage(t, u)) \/ p = CheckpointMap => ~Gives(Compute, 1, p)
  BY <1>3, UploadPlacesDiffer DEF UploadItem, Gives
<1>5. QED BY <1>2, <1>4

\* Staged pieces stay put while the device goes on.
LEMMA DeviceKeepsStages ==
  ASSUME UploaderInv, NEW s \in Streams, Starting(s) \/ Finishing(s) \/ Passing(s), UNCHANGED upVars
  PROVE  StagesKept'
<1> SUFFICES ASSUME NEW i \in 1 .. Len(Compute'), NEW t \in {0, 1}, NEW u \in 0 .. StageUnits - 1,
                    Wants(Compute', i, Stage(t, u))
             PROVE  StageKept(i, t, u)'
  BY DEF StagesKept, Stage
<1> DEFINE j == IF Starting("compute") /\ Compute' = Compute THEN i ELSE i + 1
<1>1. j \in 1 .. Len(Compute) /\ Compute'[i] = Compute[j] /\ Len(Compute) \in Nat /\ Len(Compute') \in Nat
  BY UploadDevice
<1>2. \A k \in j + 1 .. Len(Compute) :
        \E l \in i + 1 .. Len(Compute') : Compute'[l] = Compute[k]
  <2>1. CASE Starting("compute") /\ Compute' = Compute BY <2>1
  <2>2. CASE ~(Starting("compute") /\ Compute' = Compute)
    <3> TAKE k \in j + 1 .. Len(Compute)
    <3>1. k - 1 \in 1 .. Len(Compute') /\ (k - 1) + 1 = k /\ k - 1 \in i + 1 .. Len(Compute')
      BY <2>2, UploadDevice
    <3>2. Compute'[k - 1] = Compute[k] BY <2>2, <3>1, UploadDevice
    <3>3. QED BY <3>1, <3>2
  <2>3. QED BY <2>1, <2>2
<1> HIDE DEF j
<1>3. StageKept(j, t, u) /\ Wants(Compute, j, Stage(t, u))
  BY <1>1 DEF UploaderInv, StagesKept, Wants
<1>4. memory'[Stage(t, u)] = memory[Stage(t, u)] /\ Stage(t, u) \in DOMAIN memory'
  BY <1>3, UploadDevice, UploadDeviceMemory DEF StageKept
<1>5. \A n \in Nat : (\E k \in j + 1 .. Len(Compute) : Records(Compute, k, <<"emptied", t>>, n))
        => \E k \in i + 1 .. Len(Compute') : Records(Compute', k, <<"emptied", t>>, n)
  BY <1>2 DEF Records
<1>6. upPc' = upPc /\ current' = current /\ used' = used BY DEF upVars
<1>7. upPc # "closing" =>
        IF t = current /\ upPc # "drain" THEN u < used
        ELSE \E k \in i + 1 .. Len(Compute'), n \in Nat : Records(Compute', k, <<"emptied", t>>, n)
  <2>1. CASE t = current /\ upPc # "drain" BY <1>3, <2>1 DEF StageKept
  <2>2. CASE ~(t = current /\ upPc # "drain") BY <1>3, <1>5, <2>2 DEF StageKept
  <2>3. QED BY <2>1, <2>2
<1>8. memory'[Stage(t, u)] = Compute'[i].wants[Stage(t, u)] BY <1>1, <1>3, <1>4 DEF StageKept
<1>9. QED BY <1>4, <1>6, <1>7, <1>8 DEF StageKept, Records, Stage

\* So does what lands to be widened.
LEMMA DeviceKeepsLandings ==
  ASSUME UploaderInv, NEW s \in Streams, Starting(s) \/ Finishing(s) \/ Passing(s), UNCHANGED upVars, upPc # "closed"
  PROVE  LandingsFound' /\ LandingReady'
<1>0. QueueInv /\ "compute" \in Streams BY DEF UploaderInv, Streams
<1>1. ASSUME NEW u \in Units, NEW v, NEW i \in 1 .. Len(Compute) + 1, InStream(Compute, memory, i, Landing(u), v),
             i = 1 => Wants(Compute, 1, Landing(u))
      PROVE  /\ Starting("compute") /\ Compute' = Compute => InStream(Compute', memory', i, Landing(u), v)
             /\ ~(Starting("compute") /\ Compute' = Compute) /\ i # 1 => InStream(Compute', memory', i - 1, Landing(u), v)
  <2>1. Landing(u) \in DOMAIN memory BY DEF UploaderInv, UploadMemory
  <2>2. CASE Starting("compute") /\ Compute' = Compute
    BY <1>0, <1>1, <2>1, <2>2, InStreamStarted DEF Compute
  <2>3. CASE ~(Starting("compute") /\ Compute' = Compute) /\ i # 1
    <3>1. Finishing("compute") \/ Passing("compute") BY <2>3, UploadDevice
    <3>2. i \in 2 .. Len(queue["compute"]) + 1 BY <2>3, UploadDevice DEF Compute
    <3>3. QED BY <1>0, <1>1, <2>1, <2>3, <3>1, <3>2, InStreamPopped DEF Compute
  <2>4. QED BY <2>2, <2>3
<1>2. LandingsFound'
  <2> SUFFICES ASSUME NEW i \in 1 .. Len(Compute'), NEW u \in Units, Wants(Compute', i, Landing(u))
               PROVE  InStream(Compute', memory', i, Landing(u), Compute'[i].wants[Landing(u)])
    BY DEF LandingsFound, Landing, InStream, Gives, Units, Wants
  <2>1. CASE Starting("compute") /\ Compute' = Compute
    <3>1. InStream(Compute, memory, i, Landing(u), Compute[i].wants[Landing(u)])
      BY <2>1 DEF UploaderInv, LandingsFound
    <3>2. i \in 1 .. Len(Compute) + 1 BY <2>1, UploadDevice
    <3>3. QED BY <1>1, <2>1, <3>1, <3>2
  <2>2. CASE ~(Starting("compute") /\ Compute' = Compute)
    <3>1. i + 1 \in 1 .. Len(Compute) /\ Compute'[i] = Compute[i + 1] /\ i + 1 # 1 /\ (i + 1) - 1 = i
          /\ i + 1 \in 1 .. Len(Compute) + 1
      BY <2>2, UploadDevice
    <3>2. InStream(Compute, memory, i + 1, Landing(u), Compute'[i].wants[Landing(u)])
      BY <3>1 DEF UploaderInv, LandingsFound, Wants
    <3>3. InStream(Compute', memory', (i + 1) - 1, Landing(u), Compute'[i].wants[Landing(u)])
      BY <1>1, <2>2, <3>1, <3>2
    <3>4. QED BY <3>1, <3>3
  <2>3. QED BY <2>1, <2>2
<1>3. upPc \in {"copy", "drain", "copied"} /\ kind = "half" =>
        \A u \in 0 .. Landed - 1 : InStream(Compute', memory', Len(Compute') + 1, Landing(u), TensorData(tensor, u))
  <2> SUFFICES ASSUME upPc \in {"copy", "drain", "copied"}, kind = "half", NEW u \in 0 .. Landed - 1
               PROVE  InStream(Compute', memory', Len(Compute') + 1, Landing(u), TensorData(tensor, u))
    OBVIOUS
  <2>1. InStream(Compute, memory, End, Landing(u), TensorData(tensor, u))
    BY DEF UploaderInv, LandingReady
  <2>2. Len(Compute) \in Nat /\ Len(Compute) > 0 /\ End # 1 /\ End \in 1 .. Len(Compute) + 1
    BY UploadDevice DEF End
  <2>3. u \in Units
    <3>1. UploaderTypeOK /\ tensor > 0 /\ at <= sizes[tensor] BY DEF UploaderInv, UploadPieces
    <3>2. sizes[tensor] \in Nat /\ sizes[tensor] <= Max(TensorSizes) /\ at \in Nat
      BY <3>1, TensorsAreCounted
    <3>3. QED BY <3>1, <3>2, UnitsAreCounted DEF Landed
  <2>4. CASE Starting("compute") /\ Compute' = Compute BY <1>1, <2>1, <2>2, <2>3, <2>4 DEF End
  <2>5. CASE ~(Starting("compute") /\ Compute' = Compute)
    <3>1. End - 1 = Len(Compute') + 1 BY <2>2, <2>5, UploadDevice DEF End
    <3>2. InStream(Compute', memory', End - 1, Landing(u), TensorData(tensor, u))
      BY <1>1, <2>1, <2>2, <2>3, <2>5
    <3>3. QED BY <3>1, <3>2
  <2>6. QED BY <2>4, <2>5
<1>4. Landed' = Landed /\ tensor' = tensor /\ upPc' = upPc /\ kind' = kind
  BY DEF Landed, tensor, upVars
<1>5. LandingReady' BY <1>3, <1>4 DEF LandingReady, End, TensorData, Landing, InStream, Gives
<1>6. QED BY <1>2, <1>5

\* What has been sent of a tensor is a part of it.
LEMMA SentAreUnits ==
  ASSUME UploadPieces, NEW t \in 1 .. tensor, NEW u \in 0 .. Sent(t) - 1
  PROVE  u \in Units /\ ArenaAt(t, u) \in WeightArena /\ Sent(t) <= sizes[t]
<1>1. UploaderTypeOK /\ (upPc \in {"copy", "drain", "copied"} => tensor > 0 /\ at <= sizes[tensor])
  BY DEF UploadPieces
<1>2. /\ tensor \in 0 .. MaxTensors /\ at \in Nat /\ MaxTensors \in Nat
      /\ \A l \in 1 .. tensor : sizes[l] \in Nat /\ sizes[l] <= Max(TensorSizes)
  BY <1>1, TensorsAreCounted
<1>3. t = tensor \/ t < tensor BY <1>2
<1>4. \/ Sent(t) = 0 \/ Sent(t) = sizes[t]
      \/ Sent(t) = at /\ t = tensor /\ upPc \notin {"next", "closing", "closed"}
  <2>1. CASE t < tensor \/ upPc = "next" BY <2>1 DEF Sent
  <2>2. CASE upPc \in {"closing", "closed"} BY <2>2 DEF Sent
  <2>3. CASE ~(t < tensor \/ upPc = "next") /\ upPc \notin {"closing", "closed"}
    BY <1>3, <2>3 DEF Sent, Landed
  <2>4. QED BY <2>1, <2>2, <2>3
<1>5. Sent(t) <= sizes[t] /\ Sent(t) \in Nat
  <2>1. CASE Sent(t) = 0 \/ Sent(t) = sizes[t] BY <1>2, <2>1
  <2>2. CASE Sent(t) = at /\ t = tensor /\ upPc \notin {"next", "closing", "closed"}
    <3>1. upPc \in {"copy", "drain", "copied"} BY <1>1, <2>2 DEF UploaderTypeOK
    <3>2. QED BY <1>1, <1>2, <2>2, <3>1
  <2>3. QED BY <1>4, <2>1, <2>2
<1>6. u \in Units BY <1>2, <1>5, UnitsAreCounted
<1>7. t \in 1 .. MaxTensors BY <1>2
<1>8. ArenaAt(t, u) \in {ArenaAt(l, w) : l \in 1 .. MaxTensors, w \in Units} BY <1>6, <1>7
<1>9. QED BY <1>5, <1>6, <1>8 DEF WeightArena

\* What is in the arena, or on its way there, arrives.
LEMMA DeviceKeepsArena ==
  ASSUME UploaderInv, NEW s \in Streams, Starting(s) \/ Finishing(s) \/ Passing(s), UNCHANGED upVars
  PROVE  ArenaFilled'
<1>1. tensor' = tensor /\ \A t : Sent(t)' = Sent(t) BY DEF tensor, upVars, Sent, Landed
<1>2. ASSUME NEW t \in 1 .. tensor, NEW u \in Units, Arrives(t, u)
      PROVE  Arrives(t, u)'
  <2> DEFINE p == ArenaAt(t, u)
  <2>1. p \in DOMAIN memory
    <3>1. t \in 1 .. MaxTensors BY TensorsAreCounted DEF UploaderInv, UploadPieces
    <3>2. QED BY <3>1 DEF UploaderInv, UploadMemory, WeightArena
  <2>2. 1 \in 1 .. Len(Compute) /\ Len(Compute) \in Nat BY UploadDevice
  <2>3. Gives(Compute, 1, p) => Compute[1].gives[p] = TensorData(t, u)
    <3>1. UploadItem(Compute[1], tensor, locked) BY <2>2 DEF UploaderInv, UploadItems
    <3>2. QED BY <3>1, UploadPlacesDiffer DEF UploadItem, Gives
  <2>4. CASE Starting("compute") /\ Compute' = Compute
    <3>1. memory'[p] = memory[p] \/ Gives(Compute, 1, p) BY <2>1, <2>4 DEF Starting, Gives, Compute
    <3>2. QED BY <1>2, <2>2, <2>4, <3>1 DEF Arrives, ArenaAt, TensorData, Gives
  <2>5. CASE (Finishing("compute") \/ Passing("compute")) /\ ~(Starting("compute") /\ Compute' = Compute)
    <3>1. memory'[p] = IF Gives(Compute, 1, p) THEN TensorData(t, u) ELSE memory[p]
      BY <2>1, <2>3, <2>5 DEF Finishing, Passing, Gives, Compute
    <3>2. ASSUME NEW i \in 1 .. Len(Compute), i # 1, Gives(Compute, i, p)
          PROVE  \E k \in 1 .. Len(Compute') : Gives(Compute', k, p)
      <4>1. i - 1 \in 1 .. Len(Compute') /\ (i - 1) + 1 = i BY <2>5, <3>2, UploadDevice
      <4>2. Compute'[i - 1] = Compute[i] BY <2>5, <4>1, UploadDevice
      <4>3. QED BY <3>2, <4>1, <4>2 DEF Gives
    <3>3. memory'[p] = TensorData(t, u) \/ \E k \in 1 .. Len(Compute') : Gives(Compute', k, p)
      BY <1>2, <3>1, <3>2 DEF Arrives
    <3>4. QED BY <3>3 DEF Arrives, ArenaAt, TensorData, Gives
  <2>6. QED BY <2>4, <2>5, UploadDevice
<1>3. \A t \in 1 .. tensor : \A u \in 0 .. Sent(t) - 1 : u \in Units BY SentAreUnits DEF UploaderInv
<1>4. QED BY <1>1, <1>2, <1>3 DEF ArenaFilled, UploaderInv

\* Every step of the device keeps the uploader's invariant.
LEMMA DeviceKeepsUploader ==
  ASSUME UploaderInv, NEW s \in Streams, StreamStep(s), UNCHANGED upVars
  PROVE  UploaderInv'
<1>1. QueueInv' /\ (Starting(s) \/ Finishing(s) \/ Passing(s))
  BY StreamStepKeepsQueue DEF UploaderInv
<1>2. upPc # "closed"
  <2>1. Compute # <<>> BY <1>1, UploadDevice, ShortSeqs
  <2>2. QED BY <2>1 DEF UploaderInv, UploadMemory
<1>3. UploadPieces' BY DEF UploaderInv, UploadPieces, UploaderTypeOK, upVars, tensor
<1>4. UploadItems'
  <2>1. Copy' = <<>> /\ Len(Compute) \in Nat /\ \A k \in 1 .. Len(Compute') : \E j \in 1 .. Len(Compute) : Compute'[k] = Compute[j]
    BY <1>1, UploadDevice
  <2>2. \A k \in 1 .. Len(Compute') : UploadItem(Compute'[k], tensor, locked)
    BY <2>1 DEF UploaderInv, UploadItems
  <2>3. tensor' = tensor /\ locked' = locked BY DEF upVars, tensor
  <2>4. QED BY <2>1, <2>2, <2>3 DEF UploadItems
<1>5. UploadMemory'
  <2>1. DOMAIN memory' = DOMAIN memory BY <1>1, UploadDevice
  <2>2. locked => CheckpointMap \in DOMAIN memory /\ memory'[CheckpointMap] = <<"bytes">>
    BY <1>1, <1>2, UploadDeviceMemory DEF UploaderInv, UploadMemory
  <2>3. QED BY <1>2, <2>1, <2>2 DEF UploaderInv, UploadMemory, upVars
<1>6. QED
  BY <1>1, <1>2, <1>3, <1>4, <1>5, DeviceKeepsStages, DeviceKeepsLandings, DeviceKeepsArena DEF UploaderInv

\* The host's step appends r to the compute stream, and writes pinned and scratch memory alone.
Appends(r) ==
  /\ Copy' = <<>> /\ Len(Compute) \in Nat /\ Len(r) \in Nat /\ Len(Compute') = Len(Compute) + Len(r)
  /\ \A i \in 1 .. Len(Compute) : Compute'[i] = Compute[i]
  /\ \A i \in Len(Compute) + 1 .. Len(Compute') : i - Len(Compute) \in 1 .. Len(r) /\ Compute'[i] = r[i - Len(Compute)]

HostWrites ==
  /\ DOMAIN memory \subseteq DOMAIN memory'
  /\ \A p \in DOMAIN memory : (~\E s, u : p = Stage(s, u)) /\ (~\E u : p = Scratch(u)) => memory'[p] = memory[p]

\* What the uploader issues goes to the end of the compute stream.
LEMMA UploadIssues ==
  ASSUME UploaderInv, NEW r, NEW E \in SUBSET Events, Issuable(r, "compute", E), Issue(r, <<>>, E)
  PROVE  QueueInv' /\ Appends(r)
<1>1. Issuable(<<>>, "copy", E) /\ QueueInv /\ IsSeq(r) /\ IsSeq(Compute) /\ queue["copy"] = <<>>
  BY ShortSeqs DEF Issuable, UploaderInv, QueueInv, Compute, Streams, UploadItems, Copy
<1>2. QueueInv' /\ Compute' = Compute \o r /\ Copy' = <<>> \o <<>>
  BY <1>1, IssueKeepsQueue DEF Compute, Copy
<1>3. <<>> \o <<>> = <<>> OBVIOUS
<1>4. /\ Len(Compute) \in Nat /\ Len(r) \in Nat /\ Len(Compute \o r) = Len(Compute) + Len(r)
      /\ \A i \in 1 .. Len(Compute) : (Compute \o r)[i] = Compute[i]
      /\ \A i \in Len(Compute) + 1 .. Len(Compute \o r) :
           i - Len(Compute) \in 1 .. Len(r) /\ (Compute \o r)[i] = r[i - Len(Compute)]
  BY <1>1, Joined, IsSeqLen DEF Longer
<1>5. QED BY <1>2, <1>3, <1>4 DEF Appends

\* Without it the stream stays as it is.
LEMMA UploadIssuesNone ==
  ASSUME UploaderInv, UNCHANGED <<queue, running, recorded, reached>>
  PROVE  QueueInv' /\ Appends(<<>>)
<1>1. QueueInv' /\ Compute' = Compute /\ Copy' = <<>>
  BY QueueStays DEF UploaderInv, UploadItems, Compute, Copy
<1>2. Len(Compute) \in Nat /\ Len(<<>>) = 0
  BY IsSeqLen, ShortSeqs DEF UploaderInv, QueueInv, Compute, Streams
<1>3. QED BY <1>1, <1>2 DEF Appends

\* The items stay those of an uploader.
LEMMA AppendsKeepItems ==
  ASSUME UploaderInv, NEW r, Appends(r), tensor' \in Nat, tensor' >= tensor, locked' = locked,
         \A k \in 1 .. Len(r) : UploadItem(r[k], tensor', locked)
  PROVE  UploadItems'
<1>1. ASSUME NEW x, UploadItem(x, tensor, locked) PROVE UploadItem(x, tensor', locked)
  <2>1. tensor \in Nat BY TensorsAreCounted DEF UploaderInv, UploadPieces
  <2>2. \A t \in 1 .. tensor : t \in 1 .. tensor' BY <2>1
  <2>3. QED BY <1>1, <2>2 DEF UploadItem
<1>2. ASSUME NEW i \in 1 .. Len(Compute') PROVE UploadItem(Compute'[i], tensor', locked)
  <2>1. i \in 1 .. Len(Compute) \/ i \in Len(Compute) + 1 .. Len(Compute') BY DEF Appends
  <2>2. CASE i \in 1 .. Len(Compute) BY <1>1, <2>2 DEF Appends, UploaderInv, UploadItems
  <2>3. CASE i \in Len(Compute) + 1 .. Len(Compute')
    <3>1. i - Len(Compute) \in 1 .. Len(r) /\ Compute'[i] = r[i - Len(Compute)] BY <2>3 DEF Appends
    <3>2. QED BY <3>1
  <2>4. QED BY <2>1, <2>2, <2>3
<1>3. QED BY <1>2 DEF UploadItems, Appends

\* The host's writes leave the landing places alone.
LEMMA WritesKeepMemory ==
  ASSUME UploaderInv, HostWrites, upPc # "closed", upPc' # "closed", locked' = locked
  PROVE  UploadMemory' /\ \A u \in Units : Landing(u) \in DOMAIN memory /\ memory'[Landing(u)] = memory[Landing(u)]
<1>1. \A u \in Units : Landing(u) \in DOMAIN memory /\ memory'[Landing(u)] = memory[Landing(u)]
  BY UploadPlacesDiffer DEF UploaderInv, UploadMemory, HostWrites
<1>2. locked => CheckpointMap \in DOMAIN memory /\ memory'[CheckpointMap] = <<"bytes">>
  BY UploadPlacesDiffer DEF UploaderInv, UploadMemory, HostWrites
<1>3. WeightArena \subseteq DOMAIN memory' /\ DOMAIN memory \subseteq DOMAIN memory'
  BY DEF UploaderInv, UploadMemory, HostWrites
<1>4. UploadMemory' BY <1>1, <1>2, <1>3 DEF UploadMemory
<1>5. QED BY <1>1, <1>4

\* What an item will find in a landing place it still finds when items are issued behind it.
LEMMA AppendsKeepLanding ==
  ASSUME UploaderInv, NEW r, Appends(r), HostWrites, upPc # "closed", NEW u \in Units, NEW v,
         NEW i \in 1 .. End, InStream(Compute, memory, i, Landing(u), v)
  PROVE  /\ InStream(Compute', memory', i, Landing(u), v)
         /\ i = End /\ (\A k \in 1 .. Len(r) : ~Gives(r, k, Landing(u))) => InStream(Compute', memory', End', Landing(u), v)
<1>1. memory'[Landing(u)] = memory[Landing(u)]
  BY UploadPlacesDiffer DEF UploaderInv, UploadMemory, HostWrites
<1>2. InStream(Compute, memory', i, Landing(u), v) BY <1>1 DEF InStream
<1>3. Len(Compute) \in Nat /\ Len(Compute') \in Nat /\ Longer(Compute, Compute') /\ Len(Compute) <= Len(Compute')
  BY DEF Appends, Longer
<1>4. InStream(Compute', memory', i, Landing(u), v) BY <1>2, <1>3, InStreamAppended DEF End
<1>5. ASSUME i = End, \A k \in 1 .. Len(r) : ~Gives(r, k, Landing(u))
      PROVE  InStream(Compute', memory', End', Landing(u), v)
  <2>1. \A k \in End .. End' - 1 : ~Gives(Compute', k, Landing(u))
    <3> TAKE k \in End .. End' - 1
    <3>1. k \in Len(Compute) + 1 .. Len(Compute') BY <1>3 DEF End
    <3>2. k - Len(Compute) \in 1 .. Len(r) /\ Compute'[k] = r[k - Len(Compute)] BY <3>1 DEF Appends
    <3>3. QED BY <1>5, <3>2 DEF Gives
  <2>2. End \in Nat /\ End' \in Nat /\ End <= End' BY <1>3 DEF End
  <2>3. QED BY <1>4, <1>5, <2>1, <2>2, InStreamBehind
<1>6. QED BY <1>4, <1>5

\* A copy that is issued brings what it lands.
LEMMA AppendsBringLanding ==
  ASSUME NEW r, Appends(r), Len(r) = 1, NEW u, NEW v, Gives(r, 1, Landing(u)), r[1].gives[Landing(u)] = v
  PROVE  InStream(Compute', memory', End', Landing(u), v)
<1>1. Len(Compute) \in Nat /\ Len(Compute') = Len(Compute) + 1 /\ Len(Compute') \in Len(Compute) + 1 .. Len(Compute')
      /\ Len(Compute') - Len(Compute) = 1
  BY DEF Appends
<1>2. Compute'[Len(Compute')] = r[1] BY <1>1 DEF Appends
<1>3. Gives(Compute', Len(Compute'), Landing(u)) /\ Compute'[Len(Compute')].gives[Landing(u)] = v
  BY <1>2 DEF Gives
<1>4. Len(Compute') \in 1 .. End' - 1 /\ \A k \in Len(Compute') + 1 .. End' - 1 : ~Gives(Compute', k, Landing(u))
  BY <1>1 DEF End
<1>5. QED BY <1>3, <1>4 DEF InStream

\* A kernel issued behind what it reads finds it.
LEMMA AppendsKeepLandings ==
  ASSUME UploaderInv, NEW r, Appends(r), HostWrites, upPc # "closed",
         \A k \in 1 .. Len(r), u \in Units : Wants(r, k, Landing(u)) =>
           k = 1 /\ InStream(Compute, memory, End, Landing(u), r[k].wants[Landing(u)])
  PROVE  LandingsFound'
<1> SUFFICES ASSUME NEW i \in 1 .. Len(Compute'), NEW u \in Units, Wants(Compute', i, Landing(u))
             PROVE  InStream(Compute', memory', i, Landing(u), Compute'[i].wants[Landing(u)])
  BY DEF LandingsFound, Landing, InStream, Gives, Units, Wants
<1>1. i \in 1 .. Len(Compute) \/ i \in Len(Compute) + 1 .. Len(Compute') BY DEF Appends
<1>2. InStream(Compute, memory, i, Landing(u), Compute'[i].wants[Landing(u)]) /\ i \in 1 .. End
  <2>1. CASE i \in 1 .. Len(Compute)
    <3>1. Compute'[i] = Compute[i] /\ i \in 1 .. End BY <2>1 DEF Appends, End
    <3>2. QED BY <2>1, <3>1 DEF UploaderInv, LandingsFound, Wants
  <2>2. CASE i \in Len(Compute) + 1 .. Len(Compute')
    <3>1. i - Len(Compute) \in 1 .. Len(r) /\ Compute'[i] = r[i - Len(Compute)] /\ Len(Compute) \in Nat
      BY <2>2 DEF Appends
    <3>2. i - Len(Compute) = 1 /\ InStream(Compute, memory, End, Landing(u), Compute'[i].wants[Landing(u)])
      BY <3>1 DEF Wants
    <3>3. i = End /\ i \in 1 .. End BY <3>1, <3>2 DEF End
    <3>4. QED BY <3>2, <3>3
  <2>3. QED BY <1>1, <2>1, <2>2
<1>3. QED BY <1>2, AppendsKeepLanding

\* What arrives in the arena still does, and what is issued for it arrives too.
LEMMA AppendsKeepArrivals ==
  ASSUME UploaderInv, NEW r, Appends(r), HostWrites, NEW t, NEW u, ArenaAt(t, u) \in WeightArena,
         Arrives(t, u) \/ \E k \in 1 .. Len(r) : Gives(r, k, ArenaAt(t, u))
  PROVE  Arrives(t, u)'
<1> DEFINE p == ArenaAt(t, u)
<1>1. memory'[p] = memory[p] BY UploadPlacesDiffer DEF UploaderInv, UploadMemory, HostWrites
<1>2. ASSUME NEW i \in 1 .. Len(Compute), Gives(Compute, i, p) PROVE Gives(Compute', i, p) /\ i \in 1 .. Len(Compute')
  BY <1>2 DEF Appends, Gives
<1>3. ASSUME NEW k \in 1 .. Len(r), Gives(r, k, p) PROVE \E i \in 1 .. Len(Compute') : Gives(Compute', i, p)
  <2>1. Len(Compute) + k \in Len(Compute) + 1 .. Len(Compute') /\ (Len(Compute) + k) - Len(Compute) = k
        /\ Len(Compute) + k \in 1 .. Len(Compute')
    BY DEF Appends
  <2>2. Compute'[Len(Compute) + k] = r[k] BY <2>1 DEF Appends
  <2>3. QED BY <1>3, <2>1, <2>2 DEF Gives
<1>4. memory'[p] = TensorData(t, u) \/ \E i \in 1 .. Len(Compute') : Gives(Compute', i, p)
  BY <1>1, <1>2, <1>3 DEF Arrives
<1>5. QED BY <1>4 DEF Arrives, ArenaAt, TensorData, Gives

\* What a step needs that reads no staging slot and turns to none.
LEMMA AppendsKeepStages ==
  ASSUME UploaderInv, NEW r, Appends(r), HostWrites,
         \A k \in 1 .. Len(r) : \A s, u : ~Wants(r, k, Stage(s, u)),
         \A s, u : Stage(s, u) \in DOMAIN memory => memory'[Stage(s, u)] = memory[Stage(s, u)],
         \/ upPc' = "closing"
         \/ upPc \notin {"drain", "closing"} /\ upPc' # "drain" /\ current' = current /\ used' = used
  PROVE  StagesKept'
<1> SUFFICES ASSUME NEW i \in 1 .. Len(Compute'), NEW t \in {0, 1}, NEW u \in 0 .. StageUnits - 1,
                    Wants(Compute', i, Stage(t, u))
             PROVE  StageKept(i, t, u)'
  BY DEF StagesKept, Stage
<1>1. i \in 1 .. Len(Compute) \/ i \in Len(Compute) + 1 .. Len(Compute') BY DEF Appends
<1>2. i \in 1 .. Len(Compute) /\ Compute'[i] = Compute[i]
  <2>1. i \notin Len(Compute) + 1 .. Len(Compute') BY DEF Appends, Wants
  <2>2. QED BY <1>1, <2>1 DEF Appends
<1>3. StageKept(i, t, u) BY <1>2 DEF UploaderInv, StagesKept, Wants
<1>4. Stage(t, u) \in DOMAIN memory' /\ memory'[Stage(t, u)] = Compute'[i].wants[Stage(t, u)]
  BY <1>2, <1>3 DEF StageKept, HostWrites
<1>5. \A k \in i + 1 .. Len(Compute) : k \in i + 1 .. Len(Compute') /\ Compute'[k] = Compute[k]
  BY <1>2 DEF Appends
<1>6. upPc' # "closing" =>
        IF t = current /\ upPc' # "drain" THEN u < used
        ELSE \E k \in i + 1 .. Len(Compute'), n \in Nat : Records(Compute', k, <<"emptied", t>>, n)
  BY <1>3, <1>5 DEF StageKept, Records
<1>7. QED BY <1>4, <1>6 DEF StageKept, Records, Stage

\* What the copy of units us of the present tensor writes.
LEMMA WrittenPlaces ==
  ASSUME NEW us
  PROVE  /\ kind = "half" => /\ \A p \in DOMAIN Written(us) : \E u \in us : p = Landing(u)
                             /\ \A u \in us : Landing(u) \in DOMAIN Written(us) /\ Written(us)[Landing(u)] = TensorData(tensor, u)
         /\ kind # "half" => /\ \A p \in DOMAIN Written(us) : \E u \in us : p = ArenaAt(tensor, u)
                             /\ \A u \in us : /\ ArenaAt(tensor, u) \in DOMAIN Written(us)
                                              /\ Written(us)[ArenaAt(tensor, u)] = TensorData(tensor, u)
<1>1. DOMAIN Written(us) = {Target(u) : u \in us} /\ \A p \in DOMAIN Written(us) : Written(us)[p] = TensorData(tensor, p[Len(p)])
  BY DEF Written
<1>2. \A u : Landing(u)[Len(Landing(u))] = u BY DEF Landing
<1>3. \A u : ArenaAt(tensor, u)[Len(ArenaAt(tensor, u))] = u BY DEF ArenaAt
<1>4. CASE kind = "half"
  <2>1. \A u : Target(u) = Landing(u) BY <1>4 DEF Target
  <2>2. QED BY <1>1, <1>2, <1>4, <2>1
<1>5. CASE kind # "half"
  <2>1. \A u : Target(u) = ArenaAt(tensor, u) BY <1>5 DEF Target
  <2>2. QED BY <1>1, <1>3, <1>5, <2>1
<1>6. QED BY <1>4, <1>5

\* A copy's item is one of those that may be queued.
LEMMA CopyIsUploadItem ==
  ASSUME UploadPieces, tensor > 0, NEW us \in SUBSET Units, NEW wants,
         \A p \in DOMAIN wants :
           \/ p = CheckpointMap /\ locked /\ wants[p] = <<"bytes">>
           \/ \E s \in {0, 1}, u \in 0 .. StageUnits - 1 : p = Stage(s, u)
  PROVE  /\ UploadItem(Work(wants, Written(us)), tensor, locked)
         /\ \A p : Gives(<<Work(wants, Written(us))>>, 1, p) <=> p \in DOMAIN Written(us)
         /\ \A p : Wants(<<Work(wants, Written(us))>>, 1, p) <=> p \in DOMAIN wants
         /\ <<Work(wants, Written(us))>>[1].gives = Written(us) /\ <<Work(wants, Written(us))>>[1].wants = wants
<1>1. tensor \in 1 .. tensor BY TensorsAreCounted DEF UploadPieces
<1> DEFINE x == Work(wants, Written(us))
<1>2. x.kind = "work" /\ x.gives = Written(us) /\ x.wants = wants BY DEF Work
<1>3. <<x>>[1] = x OBVIOUS
<1> HIDE DEF x
<1>4. UploadItem(x, tensor, locked)
  <2>1. ASSUME NEW p \in DOMAIN Written(us)
        PROVE  \/ \E u \in Units : p = Landing(u)
               \/ \E t \in 1 .. tensor, u \in Units : p = ArenaAt(t, u) /\ Written(us)[p] = TensorData(t, u)
    BY <1>1, <2>1, WrittenPlaces
  <2>2. QED BY <1>2, <2>1 DEF UploadItem
<1>5. QED BY <1>2, <1>3, <1>4 DEF Gives, Wants, x

\* The loop turns to the next tensor.
LEMMA NextTensorKeepsUploader == ASSUME UploaderInv, NextTensor PROVE UploaderInv'
<1>1. UploaderTypeOK /\ upPc = "next" /\ tensor < MaxTensors
  BY DEF UploaderInv, UploadPieces, NextTensor
<1>2. PICK size \in TensorSizes, k \in {"verbatim", "converted", "half"} :
        /\ sizes' = Append(sizes, size) /\ kind' = k
        /\ memory' = IF k = "converted"
                     THEN Over([u \in {Scratch(v) : v \in 0 .. size - 1} |-> TensorData(tensor + 1, u[2])], memory)
                     ELSE memory
  BY DEF NextTensor
<1>3. QueueInv' /\ Appends(<<>>) /\ Len(<<>>) = 0 BY UploadIssuesNone, ShortSeqs DEF NextTensor
<1>4. /\ tensor \in Nat /\ tensor' = tensor + 1 /\ sizes' \in Seq(TensorSizes) /\ (\A t \in 1 .. tensor : sizes'[t] = sizes[t])
      /\ sizes'[tensor'] = size /\ size \in Nat
  BY <1>1, <1>2, UploaderAssumption DEF UploaderTypeOK, tensor
<1>5. UploadPieces'
  <2>1. tensor' <= MaxTensors BY <1>1, <1>4, TensorsAreCounted
  <2>2. 0 \in 0 .. Max(TensorSizes) BY UnitsAreCounted
  <2>3. UploaderTypeOK' BY <1>1, <1>2, <1>4, <2>1, <2>2 DEF UploaderTypeOK, NextTensor, tensor
  <2>4. QED BY <1>4, <2>3 DEF UploadPieces, NextTensor
<1>6. HostWrites /\ \A s, u : Stage(s, u) \in DOMAIN memory => memory'[Stage(s, u)] = memory[Stage(s, u)]
  <2>1. CASE k # "converted" BY <1>2, <2>1 DEF HostWrites
  <2>2. CASE k = "converted"
    <3>1. /\ DOMAIN memory \subseteq DOMAIN memory'
          /\ \A p \in DOMAIN memory : (~\E v : p = Scratch(v)) => memory'[p] = memory[p]
      BY <1>2, <2>2 DEF Over
    <3>2. QED BY <3>1, UploadPlacesDiffer DEF HostWrites
  <2>3. QED BY <2>1, <2>2
<1>7. UploadItems' /\ UploadMemory' /\ LandingsFound' /\ StagesKept'
  <2>1. UploadItems' BY <1>3, <1>4, AppendsKeepItems DEF NextTensor
  <2>2. UploadMemory' BY <1>1, <1>6, WritesKeepMemory DEF NextTensor
  <2>3. LandingsFound' BY <1>1, <1>3, <1>6, AppendsKeepLandings
  <2>4. StagesKept' BY <1>1, <1>3, <1>6, AppendsKeepStages DEF NextTensor
  <2>5. QED BY <2>1, <2>2, <2>3, <2>4
<1>8. LandingReady'
  <2>1. Landed' = 0 BY DEF Landed, NextTensor
  <2>2. QED BY <2>1 DEF LandingReady
<1>9. ArenaFilled'
  <2> SUFFICES ASSUME NEW t \in 1 .. tensor', NEW u \in 0 .. Sent(t)' - 1 PROVE Arrives(t, u)'
    BY DEF ArenaFilled
  <2>1. t \in 1 .. tensor /\ Sent(t)' = sizes[t]
    <3>1. CASE t = tensor'
      <4>1. Sent(t)' = 0 BY <1>4, <3>1 DEF Sent, Landed, NextTensor
      <4>2. QED BY <4>1
    <3>2. CASE t # tensor'
      <4>1. t \in 1 .. tensor /\ t < tensor' BY <1>4, <3>2
      <4>2. QED BY <1>4, <4>1 DEF Sent
    <3>3. QED BY <3>1, <3>2
  <2>2. Sent(t) = sizes[t] BY <1>1 DEF Sent
  <2>3. u \in 0 .. Sent(t) - 1 BY <2>1, <2>2
  <2>4. Arrives(t, u) /\ ArenaAt(t, u) \in WeightArena
    BY <2>1, <2>3, SentAreUnits DEF UploaderInv, ArenaFilled
  <2>5. QED BY <1>3, <1>6, <2>4, AppendsKeepArrivals
<1>10. QED BY <1>3, <1>5, <1>7, <1>8, <1>9 DEF UploaderInv

\* A tensor is copied from where the mapping has it.
LEMMA CopyDirectKeepsUploader == ASSUME UploaderInv, CopyDirect PROVE UploaderInv'
<1> DEFINE us == 0 .. sizes[tensor] - 1
           wants == At(CheckpointMap, <<"bytes">>)
           r == <<Work(wants, Written(us))>>
<1>1. /\ UploaderTypeOK /\ upPc = "copy" /\ tensor > 0 /\ locked /\ UploadPieces
      /\ UNCHANGED <<memory, sizes, kind, at, current, used, locked, failed>> /\ upPc' = "copied" /\ tensor' = tensor
  BY DEF UploaderInv, UploadPieces, CopyDirect, Direct, tensor
<1>2. sizes[tensor] \in Nat /\ sizes[tensor] <= Max(TensorSizes) /\ tensor \in Nat /\ us \in SUBSET Units
  BY <1>1, TensorsAreCounted, UnitsAreCounted
<1>3. DOMAIN wants = {CheckpointMap} /\ wants[CheckpointMap] = <<"bytes">> BY DEF At
<1>4. Issue(r, <<>>, {}) BY DEF CopyDirect
<1> HIDE DEF us, wants
<1>5. QueueInv' /\ Appends(r) /\ Len(r) = 1 BY <1>4, UploadIssues, WorkIsIssuable, ShortSeqs
<1>6. /\ UploadItem(r[1], tensor, locked)
      /\ \A p : Gives(r, 1, p) <=> p \in DOMAIN Written(us)
      /\ \A p : Wants(r, 1, p) <=> p = CheckpointMap
      /\ r[1].gives = Written(us)
  <2>1. UploadItem(Work(wants, Written(us)), tensor, locked)
        /\ (\A p : Gives(r, 1, p) <=> p \in DOMAIN Written(us))
        /\ (\A p : Wants(r, 1, p) <=> p \in DOMAIN wants) /\ r[1].gives = Written(us)
    BY <1>1, <1>2, <1>3, CopyIsUploadItem
  <2>2. r[1] = Work(wants, Written(us)) OBVIOUS
  <2>3. QED BY <1>3, <2>1, <2>2
<1> HIDE DEF r
<1>7. HostWrites /\ \A s, u : Stage(s, u) \in DOMAIN memory => memory'[Stage(s, u)] = memory[Stage(s, u)]
  BY <1>1 DEF HostWrites
<1>8. UploadPieces' BY <1>1, <1>2 DEF UploadPieces, UploaderTypeOK
<1>9. UploadItems' /\ UploadMemory'
  <2>0. tensor' = tensor /\ tensor' \in Nat /\ tensor' >= tensor /\ locked' = locked BY <1>1, <1>2
  <2>1. \A k \in 1 .. Len(r) : UploadItem(r[k], tensor', locked)
    <3>1. \A k \in 1 .. Len(r) : k = 1 BY <1>5
    <3>2. UploadItem(r[1], tensor, locked) BY <1>6
    <3>3. QED BY <2>0, <3>1, <3>2
  <2>2. UploadItems'
    <3>1. Appends(r) BY <1>5
    <3>2. QED BY <2>0, <2>1, <3>1, AppendsKeepItems
  <2>3. UploadMemory' BY <1>1, <1>7, WritesKeepMemory
  <2>4. QED BY <2>2, <2>3
<1>10. LandingsFound'
  <2>1. \A k \in 1 .. Len(r), u \in Units : ~Wants(r, k, Landing(u))
    BY <1>5, <1>6, UploadPlacesDiffer
  <2>2. QED BY <1>1, <1>5, <1>7, <2>1, AppendsKeepLandings
<1>11. StagesKept'
  <2>1. \A k \in 1 .. Len(r) : \A s, u : ~Wants(r, k, Stage(s, u)) BY <1>5, <1>6, UploadPlacesDiffer
  <2>2. QED BY <1>1, <1>5, <1>7, <2>1, AppendsKeepStages
<1>12. LandingReady'
  <2> SUFFICES ASSUME kind = "half", NEW u \in 0 .. Landed' - 1
               PROVE  InStream(Compute', memory', End', Landing(u), TensorData(tensor', u))
    BY <1>1 DEF LandingReady, InStream, Gives, Landing, TensorData
  <2>1. u \in us BY <1>1 DEF Landed, us
  <2>2. Gives(r, 1, Landing(u)) /\ r[1].gives[Landing(u)] = TensorData(tensor, u)
    BY <1>6, <2>1, WrittenPlaces
  <2>3. QED BY <1>1, <1>5, <2>2, AppendsBringLanding
<1>13. ArenaFilled'
  <2> SUFFICES ASSUME NEW t \in 1 .. tensor, NEW u \in 0 .. Sent(t)' - 1 PROVE Arrives(t, u)'
    BY <1>1 DEF ArenaFilled
  <2>1. CASE t < tensor
    <3>1. Sent(t)' = sizes[t] /\ Sent(t) = sizes[t] BY <1>1, <2>1 DEF Sent
    <3>2. Arrives(t, u) /\ ArenaAt(t, u) \in WeightArena
      BY <1>1, <3>1, SentAreUnits DEF UploaderInv, ArenaFilled
    <3>3. QED BY <1>5, <1>7, <3>2, AppendsKeepArrivals
  <2>2. CASE t = tensor
    <3>1. ~(t < tensor) /\ ~(t < tensor') BY <1>1, <1>2, <2>2
    <3>2. Sent(t)' = IF kind = "half" THEN 0 ELSE sizes[tensor] BY <1>1, <3>1 DEF Sent, Landed
    <3>3. kind # "half" /\ u \in us BY <3>2 DEF us
    <3>4. Gives(r, 1, ArenaAt(t, u)) /\ ArenaAt(t, u) \in WeightArena
      <4>1. u \in Units /\ tensor \in 1 .. MaxTensors BY <1>1, <1>2, <3>3, TensorsAreCounted
      <4>2. QED BY <1>6, <2>2, <3>3, <4>1, WrittenPlaces DEF WeightArena
    <3>5. QED BY <1>5, <1>7, <3>4, AppendsKeepArrivals
  <2>3. QED BY <1>2, <2>1, <2>2
<1>14. QED BY <1>5, <1>8, <1>9, <1>10, <1>11, <1>12, <1>13 DEF UploaderInv

\* Fewer units are among more.
LEMMA FewerUnits == \A m, n \in Nat : m <= n => \A u \in 0 .. m - 1 : u \in 0 .. n - 1
OBVIOUS

\* A step that neither issues nor writes, and goes on with the same tensor.
LEMMA QuietKeepsUploader ==
  ASSUME UploaderInv, UNCHANGED <<cudaVars, sizes, kind, current, used, locked>>, UploadPieces',
         upPc # "closed", upPc' # "closed",
         upPc' = "closing" \/ (upPc' # "drain" /\ upPc # "closing"),
         upPc = "drain" /\ upPc' # "closing" => Passed(<<"emptied", current>>),
         upPc' \in {"copy", "drain", "copied"} => upPc # "next" /\ Landed' <= Landed,
         \A t \in 1 .. tensor : Sent(t)' <= Sent(t) /\ Sent(t)' \in Nat /\ Sent(t) \in Nat
  PROVE  UploaderInv'
<1>1. /\ QueueInv' /\ Appends(<<>>) /\ Len(<<>>) = 0 /\ tensor' = tensor /\ memory' = memory /\ Compute' = Compute
      /\ UploaderTypeOK /\ tensor \in Nat /\ QueueInv
  BY UploadIssuesNone, ShortSeqs, TensorsAreCounted
     DEF UploaderInv, UploadPieces, cudaVars, tensor, Compute
<1>2. HostWrites BY <1>1 DEF HostWrites
<1>3. UploadItems' BY <1>1, AppendsKeepItems
<1>4. UploadMemory' BY <1>2, WritesKeepMemory
<1>5. LandingsFound' BY <1>1, <1>2, AppendsKeepLandings
<1>6. StagesKept'
  <2>1. CASE upPc # "drain" \/ upPc' = "closing"
    <3>1. /\ \A k \in 1 .. Len(<<>>) : \A s, u : ~Wants(<<>>, k, Stage(s, u))
          /\ \A s, u : Stage(s, u) \in DOMAIN memory => memory'[Stage(s, u)] = memory[Stage(s, u)]
      BY <1>1
    <3>2. upPc' = "closing" \/ (upPc \notin {"drain", "closing"} /\ upPc' # "drain" /\ current' = current /\ used' = used)
      BY <2>1
    <3>3. QED BY <1>1, <1>2, <3>1, <3>2, AppendsKeepStages
  <2>2. ASSUME upPc = "drain", upPc' # "closing" PROVE StagesKept'
    <3> SUFFICES ASSUME NEW i \in 1 .. Len(Compute), NEW t \in {0, 1}, NEW u \in 0 .. StageUnits - 1,
                        Wants(Compute, i, Stage(t, u))
                 PROVE  StageKept(i, t, u)'
      BY <1>1 DEF StagesKept, Stage, Wants
    <3>1. StageKept(i, t, u) BY DEF UploaderInv, StagesKept
    <3>2. PICK k \in i + 1 .. Len(Compute), n \in Nat : Records(Compute, k, <<"emptied", t>>, n)
      BY <2>2, <3>1 DEF StageKept
    <3>3. t # current
      <4>1. <<"emptied", current>> \in Events /\ Len(Compute) \in Nat /\ k \in 1 .. Len(Compute)
        BY <1>1, TensorsAreCounted DEF Events, Appends
      <4>2. t = current => FALSE BY <1>1, <2>2, <3>2, <4>1, PassedHasNone DEF Streams, Compute
      <4>3. QED BY <4>2
    <3>4. Stage(t, u) \in DOMAIN memory /\ memory[Stage(t, u)] = Compute[i].wants[Stage(t, u)]
      BY <3>1 DEF StageKept
    <3>5. t # current' BY <3>3
    <3>6. QED BY <1>1, <3>2, <3>4, <3>5 DEF StageKept, Stage, Records
  <2>3. QED BY <2>1, <2>2
<1>7. LandingReady'
  <2> SUFFICES ASSUME upPc' \in {"copy", "drain", "copied"}, kind = "half", NEW u \in 0 .. Landed' - 1
               PROVE  InStream(Compute, memory, End, Landing(u), TensorData(tensor, u))
    BY <1>1 DEF LandingReady, InStream, Gives, Landing, TensorData, End
  <2>1. tensor > 0 /\ at \in Nat /\ at' \in Nat /\ sizes[tensor] \in Nat
    <3>1. tensor > 0 /\ UploaderTypeOK' BY <1>1 DEF UploadPieces
    <3>2. at \in Nat /\ at' \in Nat BY <1>1, <3>1, UnitsAreCounted DEF UploaderTypeOK
    <3>3. tensor \in 1 .. tensor BY <1>1, <3>1
    <3>4. QED BY <1>1, <3>1, <3>2, <3>3, TensorsAreCounted
  <2>2. Landed \in Nat /\ Landed' \in Nat
    <3>1. Landed \in {sizes[tensor], at} /\ Landed' \in {sizes'[tensor'], at'} /\ sizes' = sizes /\ tensor' = tensor
      BY <1>1 DEF Landed
    <3>2. QED BY <2>1, <3>1
  <2>3. u \in 0 .. Landed - 1
    <3>1. Landed' <= Landed OBVIOUS
    <3>2. QED BY <2>2, <3>1, FewerUnits, Zenon
  <2>4. upPc \in {"copy", "drain", "copied"} BY <1>1 DEF UploaderTypeOK
  <2>5. QED BY <2>3, <2>4 DEF UploaderInv, LandingReady
<1>8. ArenaFilled'
  <2> SUFFICES ASSUME NEW t \in 1 .. tensor, NEW u \in 0 .. Sent(t)' - 1 PROVE Arrives(t, u)'
    BY <1>1 DEF ArenaFilled
  <2>1. u \in 0 .. Sent(t) - 1 OBVIOUS
  <2>2. Arrives(t, u) BY <2>1 DEF UploaderInv, ArenaFilled
  <2>3. QED BY <1>1, <2>2 DEF Arrives, ArenaAt, TensorData, Gives
<1>9. QED BY <1>1, <1>3, <1>4, <1>5, <1>6, <1>7, <1>8 DEF UploaderInv

\* The slot is drained, a copy returns, or the loop ends.
LEMMA QuietStepsKeepUploader ==
  ASSUME UploaderInv, SlotDrained \/ CopyReturns \/ LeaveLoop
  PROVE  UploaderInv'
<1>1. /\ UploaderTypeOK /\ UploadPieces /\ tensor' = tensor /\ tensor \in Nat /\ at' = at /\ at \in Nat
      /\ UNCHANGED <<cudaVars, sizes, kind, current, used, locked>>
      /\ \A t \in 1 .. tensor : sizes[t] \in Nat
  BY TensorsAreCounted DEF UploaderInv, UploadPieces, SlotDrained, CopyReturns, LeaveLoop, tensor
<1>2. /\ upPc # "closed" /\ upPc' # "closed"
      /\ upPc' = "closing" \/ (upPc' # "drain" /\ upPc # "closing")
      /\ upPc = "drain" /\ upPc' # "closing" => Passed(<<"emptied", current>>)
  BY DEF SlotDrained, CopyReturns, LeaveLoop, ReadersDone
<1>3. UploadPieces'
  <2>1. failed' \in BOOLEAN BY <1>1 DEF SlotDrained, CopyReturns, LeaveLoop, UploaderTypeOK
  <2>2. upPc' \in {"copy", "copied", "closing"} BY DEF SlotDrained, CopyReturns, LeaveLoop
  <2>3. upPc' \in {"copy", "copied"} => upPc \in {"copy", "drain"}
    BY DEF SlotDrained, CopyReturns, LeaveLoop
  <2>4. UploaderTypeOK' BY <1>1, <2>1, <2>2 DEF UploaderTypeOK
  <2>5. QED BY <1>1, <2>2, <2>3, <2>4 DEF UploadPieces
<1>4. upPc' \in {"copy", "drain", "copied"} => upPc # "next" /\ Landed' <= Landed
  <2>1. CASE SlotDrained
    <3>1. Landed' = at /\ Landed = at /\ upPc # "next" BY <1>1, <2>1 DEF SlotDrained, Landed
    <3>2. QED BY <1>1, <3>1
  <2>2. CASE CopyReturns
    <3>1. Landed' = at /\ Landed = at /\ upPc # "next" BY <1>1, <2>2 DEF CopyReturns, Landed
    <3>2. QED BY <1>1, <3>1
  <2>3. CASE LeaveLoop BY <2>3 DEF LeaveLoop
  <2>4. QED BY <2>1, <2>2, <2>3
<1>5. ASSUME NEW t \in 1 .. tensor PROVE Sent(t)' <= Sent(t) /\ Sent(t)' \in Nat /\ Sent(t) \in Nat
  <2>1. tensor \in 1 .. tensor /\ sizes[t] \in Nat /\ sizes' = sizes /\ at' = at /\ tensor' = tensor
    BY <1>1
  <2>2. CASE SlotDrained
    <3>1. Sent(t)' = Sent(t) /\ Sent(t) \in {sizes[t], 0, at}
      BY <2>1, <2>2 DEF SlotDrained, Sent, Landed
    <3>2. QED BY <1>1, <2>1, <3>1
  <2>3. CASE CopyReturns
    <3>1. Sent(t)' = Sent(t) /\ Sent(t) \in {sizes[t], 0, at}
      BY <2>1, <2>3 DEF CopyReturns, Sent, Landed
    <3>2. QED BY <1>1, <2>1, <3>1
  <2>4. CASE LeaveLoop
    <3>1. Sent(t) \in {sizes[t], 0, at, sizes[tensor]} BY DEF Sent, Landed
    <3>2. Sent(t) \in Nat BY <1>1, <2>1, <3>1
    <3>3. CASE t < tensor
      <4>1. Sent(t)' = sizes[t] /\ Sent(t) = sizes[t] BY <2>1, <3>3 DEF Sent
      <4>2. QED BY <2>1, <4>1
    <3>4. CASE ~(t < tensor) /\ failed'
      <4>1. upPc' = "closing" /\ ~(t < tensor') BY <2>1, <2>4, <3>4 DEF LeaveLoop
      <4>2. Sent(t)' = 0 BY <3>4, <4>1 DEF Sent
      <4>3. QED BY <3>2, <4>2
    <3>5. CASE ~failed'
      <4>1. upPc = "next" /\ upPc' = "closing" BY <2>4, <3>5 DEF LeaveLoop
      <4>2. Sent(t)' = sizes[t] /\ Sent(t) = sizes[t] BY <2>1, <3>5, <4>1 DEF Sent
      <4>3. QED BY <2>1, <4>2
    <3>6. QED BY <3>3, <3>4, <3>5
  <2>5. QED BY <2>2, <2>3, <2>4
<1>6. QED BY <1>1, <1>2, <1>3, <1>4, <1>5, QuietKeepsUploader

\* A full slot is recorded, and the other one is turned to.
LEMMA TurnSlotKeepsUploader == ASSUME UploaderInv, TurnSlot PROVE UploaderInv'
<1> DEFINE e == <<"emptied", current>>
           r == <<RecordOf(e)>>
<1>1. /\ UploaderTypeOK /\ UploadPieces /\ upPc = "copy" /\ upPc' = "drain" /\ current' = 1 - current /\ used' = 0
      /\ UNCHANGED <<memory, sizes, kind, at, locked, failed>> /\ tensor' = tensor /\ tensor > 0 /\ at <= sizes[tensor]
  BY DEF UploaderInv, UploadPieces, TurnSlot, tensor
<1>2. current \in {0, 1} /\ current' \in {0, 1} /\ tensor \in Nat /\ 0 \in 0 .. StageUnits
  BY <1>1, TensorsAreCounted
<1>3. e \in Events /\ e \in EventsOf("compute") /\ recorded[e] + 1 \in Nat
  <2>1. e \in Events /\ e \in EventsOf("compute") BY <1>2 DEF Events, EventsOf, Signals
  <2>2. QED BY <2>1 DEF UploaderInv, QueueInv
<1>4. Issuable(r, "compute", {e}) /\ Len(r) = 1 /\ r[1] = RecordOf(e)
  <2>1. IsSeq(r) /\ Len(r) = 1 /\ r[1] = RecordOf(e) BY ShortSeqs
  <2>2. Proper(RecordOf(e), "compute") /\ RecordOf(e).event = e /\ RecordOf(e).at = recorded[e] + 1
        /\ RecordOf(e).kind = "record"
    BY <1>3 DEF Proper, RecordOf
  <2>3. QED BY <2>1, <2>2 DEF Issuable
<1>5. Issue(r, <<>>, {e}) BY DEF TurnSlot
<1>6. QueueInv' /\ Appends(r) BY <1>3, <1>4, <1>5, UploadIssues
<1>7. Records(r, 1, e, recorded[e] + 1) /\ \A p : ~Gives(r, 1, p) /\ ~Wants(r, 1, p)
  BY <1>4 DEF Records, RecordOf, Gives, Wants
<1>8. r[1].kind # "work" BY <1>7 DEF Records
<1> HIDE DEF r
<1>9. HostWrites BY <1>1 DEF HostWrites
<1>10. UploadPieces' BY <1>1, <1>2 DEF UploadPieces, UploaderTypeOK
<1>11. UploadItems' /\ UploadMemory' /\ LandingsFound'
  <2>1. tensor' = tensor /\ tensor' \in Nat /\ tensor' >= tensor /\ locked' = locked BY <1>1, <1>2
  <2>2. \A k \in 1 .. Len(r) : UploadItem(r[k], tensor', locked) BY <1>4, <1>8 DEF UploadItem
  <2>3. UploadItems' BY <1>6, <2>1, <2>2, AppendsKeepItems
  <2>4. UploadMemory' BY <1>1, <1>9, WritesKeepMemory
  <2>5. \A k \in 1 .. Len(r), u \in Units : ~Wants(r, k, Landing(u)) BY <1>4, <1>7
  <2>6. LandingsFound' BY <1>1, <1>6, <1>9, <2>5, AppendsKeepLandings
  <2>7. QED BY <2>3, <2>4, <2>6
<1>12. StagesKept'
  <2> SUFFICES ASSUME NEW i \in 1 .. Len(Compute'), NEW t \in {0, 1}, NEW u \in 0 .. StageUnits - 1,
                      Wants(Compute', i, Stage(t, u))
               PROVE  StageKept(i, t, u)'
    BY DEF StagesKept, Stage
  <2>1. Len(Compute) \in Nat /\ Len(Compute') = Len(Compute) + 1 BY <1>4, <1>6 DEF Appends
  <2>2. Compute'[Len(Compute) + 1] = r[1]
    <3>1. Len(Compute) + 1 \in Len(Compute) + 1 .. Len(Compute') /\ (Len(Compute) + 1) - Len(Compute) = 1
      BY <2>1
    <3>2. QED BY <1>6, <3>1 DEF Appends
  <2>3. i \in 1 .. Len(Compute)
    <3>1. i # Len(Compute) + 1 BY <1>8, <2>2 DEF Wants
    <3>2. QED BY <2>1, <3>1
  <2>4. Compute'[i] = Compute[i] BY <1>6, <2>3 DEF Appends
  <2>5. StageKept(i, t, u) BY <2>3, <2>4 DEF UploaderInv, StagesKept, Wants
  <2>6. \E k \in i + 1 .. Len(Compute'), n \in Nat : Records(Compute', k, <<"emptied", t>>, n)
    <3>1. CASE t = current
      <4>1. Len(Compute) + 1 \in i + 1 .. Len(Compute') BY <2>1, <2>3
      <4>2. Records(Compute', Len(Compute) + 1, <<"emptied", t>>, recorded[e] + 1)
        BY <1>7, <2>2, <3>1 DEF Records
      <4>3. QED BY <1>3, <4>1, <4>2
    <3>2. CASE t # current
      <4>1. PICK k \in i + 1 .. Len(Compute), n \in Nat : Records(Compute, k, <<"emptied", t>>, n)
        BY <1>1, <2>5, <3>2 DEF StageKept
      <4>2. Compute'[k] = Compute[k] /\ k \in i + 1 .. Len(Compute') BY <1>6, <2>1, <2>3 DEF Appends
      <4>3. QED BY <4>1, <4>2 DEF Records
    <3>3. QED BY <3>1, <3>2
  <2>7. Stage(t, u) \in DOMAIN memory' /\ memory'[Stage(t, u)] = Compute'[i].wants[Stage(t, u)]
    BY <1>1, <2>4, <2>5 DEF StageKept
  <2>8. QED BY <1>1, <2>6, <2>7 DEF StageKept, Records, Stage
<1>13. LandingReady'
  <2>1. Landed' = at /\ Landed = at BY <1>1 DEF Landed
  <2> SUFFICES ASSUME kind = "half", NEW u \in 0 .. at - 1
               PROVE  InStream(Compute', memory', End', Landing(u), TensorData(tensor, u))
    BY <1>1, <2>1 DEF LandingReady, InStream, Gives, Landing, TensorData
  <2>2. InStream(Compute, memory, End, Landing(u), TensorData(tensor, u))
    BY <1>1, <2>1 DEF UploaderInv, LandingReady
  <2>3. u \in Units
    <3>1. sizes[tensor] \in Nat /\ sizes[tensor] <= Max(TensorSizes) /\ at \in Nat
      BY <1>1, <1>2, TensorsAreCounted
    <3>2. QED BY <1>1, <3>1, UnitsAreCounted
  <2>4. End \in 1 .. End BY <1>6 DEF Appends, End
  <2>5. \A k \in 1 .. Len(r) : ~Gives(r, k, Landing(u)) BY <1>4, <1>7
  <2>6. QED BY <1>1, <1>6, <1>9, <2>2, <2>3, <2>4, <2>5, AppendsKeepLanding
<1>14. ArenaFilled'
  <2> SUFFICES ASSUME NEW t \in 1 .. tensor, NEW u \in 0 .. Sent(t)' - 1 PROVE Arrives(t, u)'
    BY <1>1 DEF ArenaFilled
  <2>1. Sent(t)' = Sent(t) BY <1>1 DEF Sent, Landed
  <2>2. Arrives(t, u) /\ ArenaAt(t, u) \in WeightArena
    BY <1>1, <2>1, SentAreUnits DEF UploaderInv, ArenaFilled
  <2>3. QED BY <1>6, <1>9, <2>2, AppendsKeepArrivals
<1>15. QED BY <1>6, <1>10, <1>11, <1>12, <1>13, <1>14 DEF UploaderInv

\* The stream is drained and the staging freed.
LEMMA CloseKeepsUploader == ASSUME UploaderInv, CloseUploader PROVE UploaderInv'
<1>1. /\ UploaderTypeOK /\ UploadPieces /\ Compute = <<>> /\ upPc = "closing" /\ upPc' = "closed" /\ tensor' = tensor
      /\ UNCHANGED <<queue, running, recorded, reached, sizes, kind, at, current, used, locked, failed>>
  BY DEF UploaderInv, UploadPieces, CloseUploader, tensor, StreamDrained, Idle, Compute
<1>2. QueueInv' /\ Compute' = <<>> /\ Copy' = <<>> /\ Len(<<>>) = 0
  BY <1>1, QueueStays, ShortSeqs DEF UploaderInv, UploadItems, Compute, Copy
<1>3. WeightArena \subseteq DOMAIN memory' /\ \A p \in WeightArena : memory'[p] = memory[p]
  BY DEF UploaderInv, UploadMemory, CloseUploader, Restrict
<1>4. UploadPieces' /\ UploadItems' /\ UploadMemory' /\ StagesKept' /\ LandingsFound' /\ LandingReady'
  BY <1>1, <1>2, <1>3
     DEF UploadPieces, UploaderTypeOK, UploadItems, UploadMemory, StagesKept, LandingsFound, LandingReady
<1>5. \A t \in 1 .. tensor : Sent(t)' = Sent(t) BY <1>1 DEF Sent, Landed
<1>6. ASSUME NEW t \in 1 .. tensor, NEW u \in 0 .. Sent(t) - 1
      PROVE  memory'[ArenaAt(t, u)] = TensorData(t, u)
  <2>1. Arrives(t, u) /\ ArenaAt(t, u) \in WeightArena
    BY <1>1, SentAreUnits DEF UploaderInv, ArenaFilled
  <2>2. QED BY <1>1, <1>2, <1>3, <2>1 DEF Arrives
<1>7. ArenaFilled' BY <1>1, <1>5, <1>6 DEF ArenaFilled, Arrives, ArenaAt, TensorData
<1>8. QED BY <1>2, <1>4, <1>7 DEF UploaderInv

\* When an upload is closed and nothing failed, every unit of every tensor is in its place.
LEMMA UploadIsComplete == UploaderInv => LoadedIsComplete
<1> SUFFICES ASSUME UploaderInv, upPc = "closed", ~failed, NEW t \in DOMAIN sizes, NEW u \in 0 .. sizes[t] - 1
             PROVE  memory[ArenaAt(t, u)] = TensorData(t, u)
  BY DEF LoadedIsComplete
<1>1. t \in 1 .. tensor BY DEF UploaderInv, UploadPieces, UploaderTypeOK, tensor
<1>2. Sent(t) = sizes[t] BY DEF Sent
<1>3. Arrives(t, u) BY <1>1, <1>2 DEF UploaderInv, ArenaFilled
<1>4. Len(Compute) = 0 BY ShortSeqs DEF UploaderInv, UploadMemory
<1>5. QED BY <1>3, <1>4 DEF Arrives

\* A piece is written behind what the slot has and copied from there.
LEMMA CopyPieceKeepsUploader == ASSUME UploaderInv, CopyPiece PROVE UploaderInv'
<1> DEFINE n == Min({sizes[tensor] - at, StageUnits - used})
           staged == [p \in {Stage(current, used + i) : i \in 0 .. n - 1} |-> TensorData(tensor, at + p[3] - used)]
           us == at .. at + n - 1
           r == <<Work(staged, Written(us))>>
<1>1. /\ UploaderTypeOK /\ UploadPieces /\ upPc = "copy" /\ upPc' = "copy" /\ tensor > 0 /\ at < sizes[tensor]
      /\ used < StageUnits
      /\ UNCHANGED <<sizes, kind, current, locked, failed>> /\ tensor' = tensor
  BY DEF UploaderInv, UploadPieces, CopyPiece, tensor
<1>2. /\ sizes[tensor] \in Nat /\ sizes[tensor] <= Max(TensorSizes) /\ tensor \in Nat /\ tensor \in 1 .. MaxTensors
      /\ at \in Nat /\ used \in Nat /\ StageUnits \in Nat /\ current \in {0, 1} /\ tensor \in 1 .. tensor
  BY <1>1, TensorsAreCounted
<1>3. n \in Nat /\ n > 0 /\ n <= sizes[tensor] - at /\ n <= StageUnits - used
  <2>1. {sizes[tensor] - at, StageUnits - used} \in SUBSET Nat BY <1>1, <1>2
  <2>2. n \in {sizes[tensor] - at, StageUnits - used} /\ \A y \in {sizes[tensor] - at, StageUnits - used} : n <= y
    BY <2>1, MinIsLeast
  <2>3. QED BY <1>1, <1>2, <2>2
<1>4. memory' = Over(staged, memory) /\ Issue(r, <<>>, {}) /\ at' = at + n /\ used' = used + n
  BY DEF CopyPiece
<1>5. DOMAIN staged = {Stage(current, used + i) : i \in 0 .. n - 1} OBVIOUS
<1> HIDE DEF n, staged
<1>6. us \in SUBSET Units BY <1>2, <1>3, UnitsAreCounted
<1>7. \A p \in DOMAIN staged : \E u \in 0 .. StageUnits - 1 : p = Stage(current, u) /\ u >= used /\ u < used + n
  <2> TAKE p \in DOMAIN staged
  <2>1. PICK i \in 0 .. n - 1 : p = Stage(current, used + i) BY <1>5
  <2>2. used + i \in 0 .. StageUnits - 1 /\ used + i >= used /\ used + i < used + n BY <1>2, <1>3
  <2>3. QED BY <2>1, <2>2
<1> HIDE DEF us
<1>8. QueueInv' /\ Appends(r) /\ Len(r) = 1 BY <1>4, UploadIssues, WorkIsIssuable, ShortSeqs
<1>9. /\ UploadItem(r[1], tensor, locked)
      /\ \A p : Gives(r, 1, p) <=> p \in DOMAIN Written(us)
      /\ \A p : Wants(r, 1, p) <=> p \in DOMAIN staged
      /\ r[1].gives = Written(us) /\ r[1].wants = staged
  <2>1. UploadItem(Work(staged, Written(us)), tensor, locked)
        /\ (\A p : Gives(r, 1, p) <=> p \in DOMAIN Written(us))
        /\ (\A p : Wants(r, 1, p) <=> p \in DOMAIN staged) /\ r[1].gives = Written(us) /\ r[1].wants = staged
    BY <1>1, <1>2, <1>6, <1>7, CopyIsUploadItem
  <2>2. r[1] = Work(staged, Written(us)) OBVIOUS
  <2>3. QED BY <2>1, <2>2
<1> HIDE DEF r
<1>10. /\ DOMAIN memory' = DOMAIN staged \cup DOMAIN memory
       /\ \A p \in DOMAIN memory' : memory'[p] = IF p \in DOMAIN staged THEN staged[p] ELSE memory[p]
  BY <1>4 DEF Over
<1>11. HostWrites BY <1>7, <1>10 DEF HostWrites
<1>12. UploadPieces'
  <2>1. at' \in 0 .. Max(TensorSizes) /\ used' \in 0 .. StageUnits /\ at' <= sizes[tensor]
    BY <1>2, <1>3, <1>4, UnitsAreCounted
  <2>2. QED BY <1>1, <2>1 DEF UploadPieces, UploaderTypeOK
<1>13. UploadItems' /\ UploadMemory' /\ LandingsFound'
  <2>1. tensor' = tensor /\ tensor' \in Nat /\ tensor' >= tensor /\ locked' = locked BY <1>1, <1>2
  <2>2. \A k \in 1 .. Len(r) : k = 1 BY <1>8
  <2>3. \A k \in 1 .. Len(r) : UploadItem(r[k], tensor', locked) BY <1>9, <2>1, <2>2
  <2>4. UploadItems' BY <1>8, <2>1, <2>3, AppendsKeepItems
  <2>5. UploadMemory' BY <1>1, <1>11, WritesKeepMemory
  <2>6. \A k \in 1 .. Len(r), u \in Units : ~Wants(r, k, Landing(u))
    BY <1>7, <1>9, <2>2, UploadPlacesDiffer
  <2>7. LandingsFound' BY <1>1, <1>8, <1>11, <2>6, AppendsKeepLandings
  <2>8. QED BY <2>4, <2>5, <2>7
<1>14. StagesKept'
  <2> SUFFICES ASSUME NEW i \in 1 .. Len(Compute'), NEW t \in {0, 1}, NEW u \in 0 .. StageUnits - 1,
                      Wants(Compute', i, Stage(t, u))
               PROVE  StageKept(i, t, u)'
    BY DEF StagesKept, Stage
  <2>1. Len(Compute) \in Nat /\ Len(Compute') = Len(Compute) + 1 BY <1>8 DEF Appends
  <2>2. CASE i \in 1 .. Len(Compute)
    <3>1. Compute'[i] = Compute[i] BY <1>8, <2>2 DEF Appends
    <3>2. StageKept(i, t, u) BY <2>2, <3>1 DEF UploaderInv, StagesKept, Wants
    <3>3. Stage(t, u) \notin DOMAIN staged
      <4>1. CASE t = current
        <5>1. u < used BY <1>1, <3>2, <4>1 DEF StageKept
        <5>2. QED BY <1>2, <1>7, <5>1, UploadPlacesDiffer
      <4>2. CASE t # current BY <1>7, <4>2, UploadPlacesDiffer
      <4>3. QED BY <4>1, <4>2
    <3>4. Stage(t, u) \in DOMAIN memory' /\ memory'[Stage(t, u)] = Compute'[i].wants[Stage(t, u)]
      BY <1>10, <3>1, <3>2, <3>3 DEF StageKept
    <3>5. t = current => u < used' BY <1>1, <1>2, <1>3, <1>4, <3>2 DEF StageKept
    <3>6. t # current => \E k \in i + 1 .. Len(Compute'), m \in Nat : Records(Compute', k, <<"emptied", t>>, m)
      <4> HAVE t # current
      <4>1. PICK k \in i + 1 .. Len(Compute), m \in Nat : Records(Compute, k, <<"emptied", t>>, m)
        BY <1>1, <3>2 DEF StageKept
      <4>2. Compute'[k] = Compute[k] /\ k \in i + 1 .. Len(Compute') BY <1>8, <2>1, <2>2 DEF Appends
      <4>3. QED BY <4>1, <4>2 DEF Records
    <3>7. QED BY <1>1, <3>4, <3>5, <3>6 DEF StageKept, Records, Stage
  <2>3. CASE i \notin 1 .. Len(Compute)
    <3>1. i \in Len(Compute) + 1 .. Len(Compute') /\ i - Len(Compute) = 1 BY <2>1, <2>3
    <3>2. Compute'[i] = r[1] BY <1>8, <3>1 DEF Appends
    <3>3. Stage(t, u) \in DOMAIN staged /\ Compute'[i].wants = staged BY <1>9, <3>2 DEF Wants
    <3>4. Stage(t, u) \in DOMAIN memory' /\ memory'[Stage(t, u)] = Compute'[i].wants[Stage(t, u)]
      BY <1>10, <3>3
    <3>5. t = current /\ u < used' BY <1>4, <1>7, <3>3, UploadPlacesDiffer
    <3>6. QED BY <1>1, <3>4, <3>5 DEF StageKept, Records, Stage
  <2>4. QED BY <2>2, <2>3
<1>15. LandingReady'
  <2> SUFFICES ASSUME kind = "half", NEW u \in 0 .. at' - 1
               PROVE  InStream(Compute', memory', End', Landing(u), TensorData(tensor, u))
    BY <1>1 DEF LandingReady, Landed, InStream, Gives, Landing, TensorData
  <2>1. CASE u \in us
    <3>1. Gives(r, 1, Landing(u)) /\ r[1].gives[Landing(u)] = TensorData(tensor, u)
      BY <1>9, <2>1, WrittenPlaces
    <3>2. QED BY <1>8, <3>1, AppendsBringLanding
  <2>2. CASE u \notin us
    <3>1. u \in 0 .. at - 1 /\ u \in Units
      <4>1. u \in Nat /\ u < at + n BY <1>2, <1>3, <1>4
      <4>2. u < at BY <1>2, <1>3, <2>2, <4>1 DEF us
      <4>3. QED BY <1>1, <1>2, <4>1, <4>2, UnitsAreCounted
    <3>2. InStream(Compute, memory, End, Landing(u), TensorData(tensor, u))
      BY <1>1, <3>1 DEF UploaderInv, LandingReady, Landed
    <3>3. ~Gives(r, 1, Landing(u))
      <4>1. \A p \in DOMAIN Written(us) : \E w \in us : p = Landing(w) BY WrittenPlaces
      <4>2. Landing(u) \notin DOMAIN Written(us) BY <2>2, <4>1, UploadPlacesDiffer
      <4>3. QED BY <1>9, <4>2
    <3>4. \A k \in 1 .. Len(r) : ~Gives(r, k, Landing(u))
      <4>1. \A k \in 1 .. Len(r) : k = 1 BY <1>8
      <4>2. QED BY <3>3, <4>1
    <3>5. End \in 1 .. End BY <1>8 DEF Appends, End
    <3>6. QED BY <1>1, <1>8, <1>11, <3>1, <3>2, <3>4, <3>5, AppendsKeepLanding
  <2>3. QED BY <2>1, <2>2
<1>16. ArenaFilled'
  <2> SUFFICES ASSUME NEW t \in 1 .. tensor, NEW u \in 0 .. Sent(t)' - 1 PROVE Arrives(t, u)'
    BY <1>1 DEF ArenaFilled
  <2>1. CASE u \in 0 .. Sent(t) - 1
    <3>1. Arrives(t, u) /\ ArenaAt(t, u) \in WeightArena
      BY <1>1, <2>1, SentAreUnits DEF UploaderInv, ArenaFilled
    <3>2. QED BY <1>8, <1>11, <3>1, AppendsKeepArrivals
  <2>2. CASE u \notin 0 .. Sent(t) - 1
    <3>1. ~(t < tensor) BY <1>1, <2>2 DEF Sent
    <3>2. t = tensor /\ ~(t < tensor') BY <1>1, <1>2, <3>1
    <3>3. Sent(t) = (IF kind = "half" THEN 0 ELSE at) /\ Sent(t)' = (IF kind = "half" THEN 0 ELSE at')
      BY <1>1, <3>1, <3>2 DEF Sent, Landed
    <3>4. kind # "half" /\ u \in us BY <1>2, <1>3, <1>4, <2>2, <3>3 DEF us
    <3>5. Gives(r, 1, ArenaAt(t, u)) /\ ArenaAt(t, u) \in WeightArena
      BY <1>2, <1>6, <1>9, <3>2, <3>4, WrittenPlaces DEF WeightArena
    <3>6. QED BY <1>8, <1>11, <3>5, AppendsKeepArrivals
  <2>3. QED BY <2>1, <2>2
<1>17. QED BY <1>8, <1>12, <1>13, <1>14, <1>15, <1>16 DEF UploaderInv

\* A landed tensor is widened into the arena.
LEMMA WidenKeepsUploader == ASSUME UploaderInv, Widen PROVE UploaderInv'
<1> DEFINE us == 0 .. sizes[tensor] - 1
           wants == [p \in {Landing(u) : u \in us} |-> TensorData(tensor, p[2])]
           gives == [p \in {ArenaAt(tensor, u) : u \in us} |-> TensorData(tensor, p[3])]
           r == <<Work(wants, gives)>>
<1>1. /\ UploaderTypeOK /\ UploadPieces /\ upPc = "copied" /\ upPc' = "next" /\ tensor > 0
      /\ UNCHANGED <<memory, sizes, kind, at, current, used, locked, failed>> /\ tensor' = tensor
  BY DEF UploaderInv, UploadPieces, Widen, tensor
<1>2. /\ sizes[tensor] \in Nat /\ sizes[tensor] <= Max(TensorSizes) /\ tensor \in Nat /\ tensor \in 1 .. MaxTensors
      /\ tensor \in 1 .. tensor /\ us \in SUBSET Units /\ \A t \in 1 .. tensor : sizes[t] \in Nat
  BY <1>1, TensorsAreCounted, UnitsAreCounted
<1>3. UploadPieces' BY <1>1 DEF UploadPieces, UploaderTypeOK
<1>4. LandingReady' BY <1>1 DEF LandingReady
<1>5. \A t \in 1 .. tensor : Sent(t)' = sizes[t] BY <1>1 DEF Sent
<1>6. CASE kind # "half"
  <2>1. UNCHANGED <<cudaVars, sizes, kind, current, used, locked>> BY <1>1, <1>6 DEF Widen, cudaVars
  <2>2. ASSUME NEW t \in 1 .. tensor PROVE Sent(t)' <= Sent(t) /\ Sent(t)' \in Nat /\ Sent(t) \in Nat
    <3>1. t < tensor \/ (t = tensor /\ ~(t < tensor)) BY <1>2
    <3>2. Sent(t) = sizes[t] BY <1>1, <1>6, <3>1 DEF Sent, Landed
    <3>3. QED BY <1>2, <1>5, <3>2
  <2>3. QED BY <1>1, <1>3, <2>1, <2>2, QuietKeepsUploader
<1>7. ASSUME kind = "half" PROVE UploaderInv'
  <2>1. Issue(r, <<>>, {}) BY <1>7 DEF Widen
  <2>2. /\ DOMAIN wants = {Landing(u) : u \in us} /\ DOMAIN gives = {ArenaAt(tensor, u) : u \in us}
    OBVIOUS
  <2>3. \A u \in us : wants[Landing(u)] = TensorData(tensor, u)
    <3>1. \A u : Landing(u)[2] = u BY DEF Landing
    <3>2. QED BY <3>1
  <2>4. \A u \in us : gives[ArenaAt(tensor, u)] = TensorData(tensor, u)
    <3>1. \A u : ArenaAt(tensor, u)[3] = u BY DEF ArenaAt
    <3>2. QED BY <3>1
  <2> HIDE DEF wants, gives, us
  <2>5. QueueInv' /\ Appends(r) /\ Len(r) = 1 BY <2>1, UploadIssues, WorkIsIssuable, ShortSeqs
  <2>6. r[1].kind = "work" /\ r[1].wants = wants /\ r[1].gives = gives BY DEF Work
  <2> HIDE DEF r
  <2>7. UploadItem(r[1], tensor, locked)
    <3>1. \A p \in DOMAIN gives : \E t \in 1 .. tensor, u \in Units : p = ArenaAt(t, u) /\ gives[p] = TensorData(t, u)
      BY <1>2, <2>2, <2>4
    <3>2. \A p \in DOMAIN wants : \E u \in Units : p = Landing(u) BY <1>2, <2>2
    <3>3. QED BY <2>6, <3>1, <3>2 DEF UploadItem
  <2>8. \A k \in 1 .. Len(r) : k = 1 BY <2>5
  <2>9. HostWrites /\ \A s, u : Stage(s, u) \in DOMAIN memory => memory'[Stage(s, u)] = memory[Stage(s, u)]
    BY <1>1 DEF HostWrites
  <2>10. UploadItems' /\ UploadMemory'
    <3>1. tensor' = tensor /\ tensor' \in Nat /\ tensor' >= tensor /\ locked' = locked BY <1>1, <1>2
    <3>2. \A k \in 1 .. Len(r) : UploadItem(r[k], tensor', locked) BY <2>7, <2>8, <3>1
    <3>3. UploadItems' BY <2>5, <3>1, <3>2, AppendsKeepItems
    <3>4. UploadMemory' BY <1>1, <2>9, WritesKeepMemory
    <3>5. QED BY <3>3, <3>4
  <2>11. StagesKept'
    <3>1. \A k \in 1 .. Len(r) : \A s, u : ~Wants(r, k, Stage(s, u))
      BY <2>2, <2>6, <2>8, UploadPlacesDiffer DEF Wants
    <3>2. QED BY <1>1, <2>5, <2>9, <3>1, AppendsKeepStages
  <2>12. LandingsFound'
    <3>1. ASSUME NEW k \in 1 .. Len(r), NEW u \in Units, Wants(r, k, Landing(u))
          PROVE  k = 1 /\ InStream(Compute, memory, End, Landing(u), r[k].wants[Landing(u)])
      <4>1. k = 1 /\ u \in us BY <2>2, <2>6, <2>8, <3>1, UploadPlacesDiffer DEF Wants
      <4>2. r[k].wants[Landing(u)] = TensorData(tensor, u) BY <2>3, <2>6, <4>1
      <4>3. InStream(Compute, memory, End, Landing(u), TensorData(tensor, u))
        BY <1>1, <1>7, <4>1 DEF UploaderInv, LandingReady, Landed, us
      <4>4. QED BY <4>1, <4>2, <4>3
    <3>2. QED BY <1>1, <2>5, <2>9, <3>1, AppendsKeepLandings
  <2>13. ArenaFilled'
    <3> SUFFICES ASSUME NEW t \in 1 .. tensor, NEW u \in 0 .. sizes[t] - 1 PROVE Arrives(t, u)'
      BY <1>1, <1>5 DEF ArenaFilled
    <3>1. CASE t < tensor
      <4>1. Sent(t) = sizes[t] BY <3>1 DEF Sent
      <4>2. Arrives(t, u) /\ ArenaAt(t, u) \in WeightArena
        BY <1>1, <4>1, SentAreUnits DEF UploaderInv, ArenaFilled
      <4>3. QED BY <2>5, <2>9, <4>2, AppendsKeepArrivals
    <3>2. CASE t = tensor
      <4>1. u \in us BY <3>2 DEF us
      <4>2. Gives(r, 1, ArenaAt(t, u)) /\ ArenaAt(t, u) \in WeightArena
        <5>1. Gives(r, 1, ArenaAt(t, u)) BY <2>2, <2>6, <3>2, <4>1 DEF Gives
        <5>2. u \in Units /\ t \in 1 .. MaxTensors BY <1>2, <3>2, <4>1
        <5>3. QED BY <5>1, <5>2 DEF WeightArena
      <4>3. \E k \in 1 .. Len(r) : Gives(r, k, ArenaAt(t, u)) BY <2>5, <4>2
      <4>4. QED BY <2>5, <2>9, <4>2, <4>3, AppendsKeepArrivals
    <3>3. QED BY <1>2, <3>1, <3>2
  <2>14. QED BY <1>3, <1>4, <2>5, <2>10, <2>11, <2>12, <2>13 DEF UploaderInv
<1>8. QED BY <1>6, <1>7

\* Every step of the uploader keeps its invariant.
LEMMA UploaderStepKeepsInv == ASSUME UploaderInv, UploaderStep PROVE UploaderInv'
BY NextTensorKeepsUploader, CopyDirectKeepsUploader, TurnSlotKeepsUploader, QuietStepsKeepUploader,
   CopyPieceKeepsUploader, WidenKeepsUploader, CloseKeepsUploader
   DEF UploaderStep

\* What the invariant says of the running item and of those that are queued.
LEMMA UploaderIsOrdered == UploaderInv => StreamsAreOrdered
<1> SUFFICES ASSUME UploaderInv PROVE WorkFindsItsInput /\ NothingUsesFreedMemory
  BY DEF StreamsAreOrdered
<1>1. queue["copy"] = <<>> /\ QueueInv /\ Len(Compute) \in Nat /\ Len(<<>>) = 0
  BY IsSeqLen, ShortSeqs DEF UploaderInv, UploadItems, Copy, QueueInv, Compute, Streams
<1>2. ASSUME NEW i \in 1 .. Len(Compute), Compute[i].kind = "work" PROVE Places(Compute[i]) \subseteq DOMAIN memory
  <2>1. UploadItem(Compute[i], tensor, locked) /\ upPc # "closed"
    BY <1>1, <1>2 DEF UploaderInv, UploadItems, UploadMemory
  <2>2. tensor \in 0 .. MaxTensors /\ MaxTensors \in Nat
    BY TensorsAreCounted DEF UploaderInv, UploadPieces
  <2>3. \A t \in 1 .. tensor, u \in Units : ArenaAt(t, u) \in DOMAIN memory
    <3>1. \A t \in 1 .. tensor : t \in 1 .. MaxTensors BY <2>2
    <3>2. QED BY <3>1 DEF UploaderInv, UploadMemory, WeightArena
  <2>4. \A u \in Units : Landing(u) \in DOMAIN memory BY <2>1 DEF UploaderInv, UploadMemory
  <2>5. DOMAIN Compute[i].gives \subseteq DOMAIN memory BY <1>2, <2>1, <2>3, <2>4 DEF UploadItem
  <2>6. ASSUME NEW p \in DOMAIN Compute[i].wants PROVE p \in DOMAIN memory
    <3>1. CASE \E s \in {0, 1}, u \in 0 .. StageUnits - 1 : p = Stage(s, u)
      BY <1>2, <3>1 DEF UploaderInv, StagesKept, StageKept, Wants
    <3>2. CASE p = CheckpointMap /\ locked BY <2>1, <3>2 DEF UploaderInv, UploadMemory
    <3>3. QED BY <1>2, <2>1, <2>4, <3>1, <3>2 DEF UploadItem
  <2>7. QED BY <2>5, <2>6 DEF Places
<1>3. NothingUsesFreedMemory
  <2>1. ASSUME NEW s \in Streams, NEW i \in DOMAIN queue[s], queue[s][i].kind = "work"
        PROVE  Places(queue[s][i]) \subseteq DOMAIN memory
    <3>1. s = "compute" /\ i \in 1 .. Len(Compute)
      <4>1. IsSeq(queue[s]) BY <1>1 DEF QueueInv
      <4>2. i \in 1 .. Len(queue[s]) BY <4>1, IsSeqLen
      <4>3. QED BY <1>1, <4>2 DEF Streams, Compute
    <3>2. QED BY <1>2, <2>1, <3>1 DEF Compute
  <2>2. QED BY <2>1 DEF NothingUsesFreedMemory
<1>4. WorkFindsItsInput
  <2> SUFFICES ASSUME NEW s \in Streams, running[s], NEW p \in DOMAIN Head(queue[s]).wants
               PROVE  p \in DOMAIN memory /\ memory[p] = Head(queue[s]).wants[p]
    BY DEF WorkFindsItsInput
  <2>1. s = "compute" /\ Compute # <<>> /\ Head(Compute).kind = "work" /\ IsSeq(Compute)
    BY <1>1 DEF QueueInv, Runs, Streams, Compute
  <2>2. Head(Compute) = Compute[1] /\ 1 \in 1 .. Len(Compute) BY <2>1, Beheaded DEF Popped
  <2>3. p \in DOMAIN Compute[1].wants /\ Wants(Compute, 1, p) /\ p \in DOMAIN memory
    BY <1>2, <2>1, <2>2 DEF Wants, Compute, Places
  <2>4. UploadItem(Compute[1], tensor, locked) /\ upPc # "closed"
    BY <2>2, <1>1 DEF UploaderInv, UploadItems, UploadMemory
  <2>5. memory[p] = Compute[1].wants[p]
    <3>1. CASE \E t \in {0, 1}, u \in 0 .. StageUnits - 1 : p = Stage(t, u)
      BY <2>2, <2>3, <3>1 DEF UploaderInv, StagesKept, StageKept
    <3>2. CASE \E u \in Units : p = Landing(u)
      BY <2>2, <2>3, <3>2 DEF UploaderInv, LandingsFound, InStream
    <3>3. CASE p = CheckpointMap /\ locked /\ Compute[1].wants[p] = <<"bytes">>
      BY <2>4, <3>3 DEF UploaderInv, UploadMemory
    <3>4. QED BY <2>1, <2>2, <2>3, <2>4, <3>1, <3>2, <3>3 DEF UploadItem
  <2>6. QED BY <2>1, <2>2, <2>3, <2>5 DEF Compute
<1>5. QED BY <1>3, <1>4

-----------------------------------------------------------------------------
(* The text encoder.                                                       *)

Layers == 0 .. NumLayers - 1

\* Where layer l is computed from.
ArenaOf(isResident, l) == IF isResident THEN Resident(l) ELSE Ping(l % 2)

\* The compute stream reads the arenas, the copy stream fills them.
LayerItem(x, isResident) ==
  x.kind = "work" =>
    /\ x.gives = None
    /\ x.wants = None \/ \E l \in Layers : x.wants = At(ArenaOf(isResident, l), LayerWeights(l))
UploadOf(x, l, isDirect) ==
  \/ isDirect /\ x.wants = At(Mapping, File)
  \/ ~isDirect /\ \E slot \in {0, 1} : x.wants = At(Staging(slot), LayerWeights(l))
UploadItemOf(x, isResident, isDirect) ==
  x.kind = "work" =>
    \E l \in Layers : x.gives = At(ArenaOf(isResident, l), LayerWeights(l)) /\ UploadOf(x, l, isDirect)
EncoderItems(comp, copy, isResident, isDirect) ==
  /\ \A i \in 1 .. Len(comp) : LayerItem(comp[i], isResident)
  /\ \A c \in 1 .. Len(copy) : UploadItemOf(copy[c], isResident, isDirect)

EncoderPlaces(pc, comp, copy, mem, isResident, isDirect) ==
  /\ pc = "unloaded" => comp = <<>> /\ copy = <<>>
  /\ pc = "upload" => isResident /\ comp = <<>>
  /\ isResident /\ pc # "upload" => copy = <<>>
  /\ pc # "unloaded" =>
       /\ \A l \in Layers : ArenaOf(isResident, l) \in DOMAIN mem
       /\ isDirect => Mapping \in DOMAIN mem /\ mem[Mapping] = File
       /\ ~isDirect /\ (~isResident \/ pc = "upload") => \A slot \in {0, 1} : Staging(slot) \in DOMAIN mem

\* A staging buffer holds what its transfer is to carry, and the record behind that tells when it may go.
StagingKept(copy, mem) ==
  \A c \in 1 .. Len(copy), slot \in {0, 1} : Wants(copy, c, Staging(slot)) =>
    /\ mem[Staging(slot)] = copy[c].wants[Staging(slot)]
    /\ \E r \in c + 1 .. Len(copy) : Records(copy, r, <<"filled", slot>>, copy[r].at)

\* Resident layers are there, or on their way.
Arriving(pc, l) == IF pc = "upload" THEN 0 .. l - 1 ELSE Layers
ResidentFilled(pc, l, copy, mem, isResident) ==
  isResident /\ pc # "unloaded" =>
    \A m \in Arriving(pc, l) : InStream(copy, mem, Len(copy) + 1, Resident(m), LayerWeights(m))

\* A streamed layer finds its weights, and the last record of its arena is behind it.
LayersCovered(comp, copy, mem, rec) ==
  \A i \in 1 .. Len(comp), slot \in {0, 1} : Wants(comp, i, Ping(slot)) =>
    /\ Covered(comp, copy, mem, i, slot, Ping(slot), comp[i].wants[Ping(slot)])
    /\ \E k \in i + 1 .. Len(comp) : Records(comp, k, <<"emptied", slot>>, rec[<<"emptied", slot>>])

\* Nothing in the compute stream reads this arena.
Unread(comp, slot) == \A i \in 1 .. Len(comp) : ~Wants(comp, i, Ping(slot))

LayerReady(pc, l, comp, copy, mem, isResident, rec) ==
  /\ pc \in {"first", "layer", "ahead"} => l < NumLayers
  /\ pc = "ahead" => l + 1 < NumLayers /\ ~isResident
  /\ pc = "first" => l = 0 /\ ~isResident
  /\ pc \in {"loaded", "first"} => Unread(comp, 0) /\ Unread(comp, 1)
  /\ pc \in {"layer", "ahead"} /\ l = 0 => Unread(comp, 1)
  /\ pc = "layer" /\ ~isResident =>
       Holds(copy, mem, l % 2, Ping(l % 2), LayerWeights(l), rec[<<"filled", l % 2>>])

EncoderInv ==
  /\ EncoderTypeOK /\ QueueInv
  /\ EncoderItems(Compute, Copy, resident, direct)
  /\ EncoderPlaces(enPc, Compute, Copy, memory, resident, direct)
  /\ StagingKept(Copy, memory)
  /\ ResidentFilled(enPc, layer, Copy, memory, resident)
  /\ LayersCovered(Compute, Copy, memory, recorded)
  /\ LayerReady(enPc, layer, Compute, Copy, memory, resident, recorded)

\* The parts of the invariant after a step.
LEMMA EncoderInvAfter ==
  ASSUME EncoderTypeOK', QueueInv',
         EncoderItems(Compute', Copy', resident', direct'),
         EncoderPlaces(enPc', Compute', Copy', memory', resident', direct'),
         StagingKept(Copy', memory'),
         ResidentFilled(enPc', layer', Copy', memory', resident'),
         LayersCovered(Compute', Copy', memory', recorded'),
         LayerReady(enPc', layer', Compute', Copy', memory', resident', recorded')
  PROVE  EncoderInv'
<1>1. EncoderItems(Compute, Copy, resident, direct)' = EncoderItems(Compute', Copy', resident', direct')
  BY DEF EncoderItems, LayerItem, UploadItemOf, UploadOf, ArenaOf, Layers, Resident, Ping, Mapping, File, Staging,
         LayerWeights, At, None
<1>2. EncoderPlaces(enPc, Compute, Copy, memory, resident, direct)'
        = EncoderPlaces(enPc', Compute', Copy', memory', resident', direct')
  BY DEF EncoderPlaces, ArenaOf, Layers, Resident, Ping, Mapping, File, Staging
<1>3. StagingKept(Copy, memory)' = StagingKept(Copy', memory')
  BY DEF StagingKept, Wants, Staging, Records
<1>4. ResidentFilled(enPc, layer, Copy, memory, resident)' = ResidentFilled(enPc', layer', Copy', memory', resident')
  BY DEF ResidentFilled, InStream, Gives, Arriving, Layers, Resident, LayerWeights
<1>5. LayersCovered(Compute, Copy, memory, recorded)' = LayersCovered(Compute', Copy', memory', recorded')
  BY DEF LayersCovered, Covered, Brings, Gives, GuardedFrom, Guarded, Awaits, Records, Wants, Ping
<1>6. LayerReady(enPc, layer, Compute, Copy, memory, resident, recorded)'
        = LayerReady(enPc', layer', Compute', Copy', memory', resident', recorded')
  BY DEF LayerReady, Unread, Wants, Holds, Gives, Records, Ping, LayerWeights
<1>7. QED BY <1>1, <1>2, <1>3, <1>4, <1>5, <1>6 DEF EncoderInv

\* The encoder's places differ.
LEMMA EncoderPlacesDiffer ==
  \A a, b : /\ Resident(a) # Ping(b) /\ Resident(a) # Staging(b) /\ Resident(a) # Mapping
            /\ Ping(a) # Staging(b) /\ Ping(a) # Mapping /\ Staging(a) # Mapping
            /\ (Resident(a) = Resident(b) => a = b) /\ (Ping(a) = Ping(b) => a = b)
            /\ (Staging(a) = Staging(b) => a = b)
BY DEF Resident, Ping, Staging, Mapping

\* Layers are numbers, and neighbours use different slots.
LEMMA LayersAreCounted ==
  /\ NumLayers \in Nat \ {0} /\ \A l \in Layers : l \in Nat /\ l < NumLayers /\ l % 2 \in {0, 1}
  /\ \A l \in Nat : l % 2 \in {0, 1} /\ (l + 1) % 2 # l % 2 /\ (l + 1) % 2 \in {0, 1}
<1>1. NumLayers \in Nat \ {0} BY EncoderAssumption
<1>2. \A l \in Layers : l \in Nat /\ l < NumLayers BY <1>1 DEF Layers
<1>3. \A n \in Nat : n % 2 \in {0, 1} /\ (n + 1) % 2 # n % 2 /\ (n + 1) % 2 \in {0, 1} OBVIOUS
<1>4. QED BY <1>1, <1>2, <1>3

\* The encoder begins well.
LEMMA EncoderInitInv == ASSUME EncoderInit, CudaInit(None) PROVE EncoderInv
<1>1. QueueInv /\ Compute = <<>> /\ Copy = <<>> /\ Len(<<>>) = 0
  BY CudaInit_Inv, ShortSeqs DEF CudaInit, Compute, Copy, Streams
<1>2. \A i \in 1 .. Len(<<>>) : FALSE BY <1>1
<1>3. EncoderTypeOK
  <2>1. layer \in 0 .. NumLayers /\ loads \in 0 .. MaxLoads /\ encodes \in 0 .. MaxEncodes
    BY EncoderAssumption DEF EncoderInit
  <2>2. QED BY <2>1 DEF EncoderInit, EncoderTypeOK
<1>4. enPc = "unloaded" /\ resident = FALSE BY DEF EncoderInit
<1>5. EncoderItems(Compute, Copy, resident, direct) /\ StagingKept(Copy, memory) /\ LayersCovered(Compute, Copy, memory, recorded)
  BY <1>1, <1>2 DEF EncoderItems, StagingKept, LayersCovered
<1>6. EncoderPlaces(enPc, Compute, Copy, memory, resident, direct) /\ ResidentFilled(enPc, layer, Copy, memory, resident)
  BY <1>1, <1>4 DEF EncoderPlaces, ResidentFilled
<1>7. LayerReady(enPc, layer, Compute, Copy, memory, resident, recorded) BY <1>4 DEF LayerReady
<1>8. QED BY <1>1, <1>3, <1>5, <1>6, <1>7 DEF EncoderInv

\* What the streams read and write.
LEMMA EncoderReads ==
  ASSUME NEW comp, NEW copy, NEW isResident, NEW isDirect, EncoderItems(comp, copy, isResident, isDirect)
  PROVE  /\ \A i \in 1 .. Len(comp) : \A p : ~Gives(comp, i, p)
         /\ \A i \in 1 .. Len(comp) : \A p : Wants(comp, i, p) =>
              \E l \in Layers : p = ArenaOf(isResident, l) /\ comp[i].wants[p] = LayerWeights(l)
         /\ \A c \in 1 .. Len(copy) : \A p : Gives(copy, c, p) =>
              \E l \in Layers : p = ArenaOf(isResident, l) /\ copy[c].gives[p] = LayerWeights(l)
         /\ \A c \in 1 .. Len(copy) : \A p : Wants(copy, c, p) =>
              \/ isDirect /\ p = Mapping /\ copy[c].wants[p] = File
              \/ ~isDirect /\ \E slot \in {0, 1} : p = Staging(slot)
<1>1. ASSUME NEW i \in 1 .. Len(comp), comp[i].kind = "work"
      PROVE  /\ DOMAIN comp[i].gives = {}
             /\ \A p \in DOMAIN comp[i].wants :
                  \E l \in Layers : p = ArenaOf(isResident, l) /\ comp[i].wants[p] = LayerWeights(l)
  <2>1. /\ comp[i].gives = None
        /\ comp[i].wants = None \/ \E l \in Layers : comp[i].wants = At(ArenaOf(isResident, l), LayerWeights(l))
    BY <1>1 DEF EncoderItems, LayerItem
  <2>2. CASE comp[i].wants = None BY <2>1, <2>2 DEF None
  <2>3. ASSUME NEW l \in Layers, comp[i].wants = At(ArenaOf(isResident, l), LayerWeights(l))
        PROVE  \A p \in DOMAIN comp[i].wants : p = ArenaOf(isResident, l) /\ comp[i].wants[p] = LayerWeights(l)
    BY <2>3 DEF At
  <2>4. DOMAIN comp[i].gives = {} BY <2>1 DEF None
  <2>5. QED BY <2>1, <2>2, <2>3, <2>4
<1>2. ASSUME NEW c \in 1 .. Len(copy), copy[c].kind = "work"
      PROVE  /\ \A p \in DOMAIN copy[c].gives :
                  \E l \in Layers : p = ArenaOf(isResident, l) /\ copy[c].gives[p] = LayerWeights(l)
             /\ \A p \in DOMAIN copy[c].wants :
                  \/ isDirect /\ p = Mapping /\ copy[c].wants[p] = File
                  \/ ~isDirect /\ \E slot \in {0, 1} : p = Staging(slot)
  <2>1. PICK l \in Layers : /\ copy[c].gives = At(ArenaOf(isResident, l), LayerWeights(l))
                            /\ UploadOf(copy[c], l, isDirect)
    BY <1>2 DEF EncoderItems, UploadItemOf
  <2>2. \A p \in DOMAIN copy[c].gives : p = ArenaOf(isResident, l) /\ copy[c].gives[p] = LayerWeights(l)
    BY <2>1 DEF At
  <2>3. ASSUME isDirect, copy[c].wants = At(Mapping, File)
        PROVE  \A p \in DOMAIN copy[c].wants : p = Mapping /\ copy[c].wants[p] = File
    BY <2>3 DEF At
  <2>4. ASSUME NEW slot \in {0, 1}, copy[c].wants = At(Staging(slot), LayerWeights(l))
        PROVE  \A p \in DOMAIN copy[c].wants : p = Staging(slot)
    BY <2>4 DEF At
  <2>5. QED BY <2>1, <2>2, <2>3, <2>4 DEF UploadOf
<1>3. QED BY <1>1, <1>2 DEF Wants, Gives

\* What the host issues for the upload of a layer, behind the wait it may need.
Sending(before, from, to, slot) == before \o <<Work(from, to), RecordOf(<<"filled", slot>>)>>
Before(before, slot) == before = <<>> \/ before = <<WaitFor(<<"emptied", slot>>)>>

\* The items of an upload: the wait if there is one, the transfer and its record.
LEMMA SendingItems ==
  ASSUME NEW slot \in {0, 1}, NEW before, Before(before, slot), NEW from, NEW to
  PROVE  LET s == Sending(before, from, to, slot)
             n == Len(before)
         IN /\ IsSeq(s) /\ n \in {0, 1} /\ Len(s) = n + 2
            /\ \A k \in 1 .. Len(s) : k = n + 1 \/ k = n + 2 \/ (n = 1 /\ k = 1)
            /\ n = 0 <=> before = <<>>
            /\ n = 1 => Awaits(s, 1, <<"emptied", slot>>) /\ s[1].at = recorded[<<"emptied", slot>>]
            /\ s[n + 1] = Work(from, to)
            /\ Records(s, n + 2, <<"filled", slot>>, recorded[<<"filled", slot>>] + 1)
<1> DEFINE r == <<Work(from, to), RecordOf(<<"filled", slot>>)>>
           s == before \o r
           n == Len(before)
<1>1. IsSeq(r) /\ Len(r) = 2 /\ r[1] = Work(from, to) /\ r[2] = RecordOf(<<"filled", slot>>)
  BY ShortSeqs
<1>2. IsSeq(before) /\ n \in {0, 1} /\ (n = 0 <=> before = <<>>) /\ (n = 1 => before[1] = WaitFor(<<"emptied", slot>>))
  BY ShortSeqs DEF Before
<1> HIDE DEF r, n
<1>3. /\ IsSeq(s) /\ Len(s) = n + 2 /\ Longer(before, s)
      /\ \A i \in 1 .. Len(r) : s[Len(before) + i] = r[i]
  <2>1. /\ IsSeq(before \o r) /\ Longer(before, before \o r) /\ Len(before \o r) = Len(before) + Len(r)
        /\ \A i \in 1 .. Len(r) : (before \o r)[Len(before) + i] = r[i]
    <3>1. IsSeq(before) /\ IsSeq(r) BY <1>1, <1>2
    <3>2. QED BY <3>1, Joined
  <2>2. QED BY <1>1, <2>1 DEF n
<1>4. s[n + 1] = r[1] /\ s[n + 2] = r[2]
  <2>1. 1 \in 1 .. Len(r) /\ 2 \in 1 .. Len(r) BY <1>1
  <2>2. QED BY <1>3, <2>1 DEF n
<1>5. n = 1 => s[1] = before[1]
  <2>1. n = 1 => 1 \in 1 .. Len(before) BY DEF n
  <2>2. QED BY <1>3, <2>1 DEF Longer
<1> HIDE DEF s
<1>6. \A k \in 1 .. Len(s) : k = n + 1 \/ k = n + 2 \/ (n = 1 /\ k = 1) BY <1>2, <1>3
<1>7. Records(s, n + 2, <<"filled", slot>>, recorded[<<"filled", slot>>] + 1)
  BY <1>1, <1>4, ItemKinds DEF Records
<1>8. n = 1 => Awaits(s, 1, <<"emptied", slot>>) /\ s[1].at = recorded[<<"emptied", slot>>]
  BY <1>2, <1>5, ItemKinds DEF Awaits
<1>9. QED BY <1>1, <1>2, <1>3, <1>4, <1>6, <1>7, <1>8 DEF Sending, s, r, n

\* An upload may be issued.
LEMMA SendingIsIssuable ==
  ASSUME NEW slot \in {0, 1}, NEW before, Before(before, slot), NEW from, NEW to
  PROVE  Issuable(Sending(before, from, to, slot), "copy", {<<"filled", slot>>})
<1> DEFINE s == Sending(before, from, to, slot)
           n == Len(before)
<1>1. /\ IsSeq(s) /\ n \in {0, 1} /\ Len(s) = n + 2
      /\ \A k \in 1 .. Len(s) : k = n + 1 \/ k = n + 2 \/ (n = 1 /\ k = 1)
      /\ n = 1 => Awaits(s, 1, <<"emptied", slot>>) /\ s[1].at = recorded[<<"emptied", slot>>]
      /\ s[n + 1] = Work(from, to)
      /\ Records(s, n + 2, <<"filled", slot>>, recorded[<<"filled", slot>>] + 1)
  BY SendingItems
<1> HIDE DEF s, n
<1>2. <<"filled", slot>> \in EventsOf("copy") /\ <<"emptied", slot>> \in Events
  BY DEF EventsOf, Signals, Events
<1>3. Proper(s[n + 1], "copy") /\ s[n + 1].kind = "work" BY <1>1, WorkIsProper DEF Work
<1>4. Proper(s[n + 2], "copy") /\ (n = 1 => Proper(s[1], "copy") /\ s[1].kind = "wait")
  BY <1>1, <1>2 DEF Proper, Records, Awaits
<1>5. \A k \in 1 .. Len(s) : Proper(s[k], "copy") BY <1>1, <1>3, <1>4
<1>6. ASSUME NEW k \in 1 .. Len(s), s[k].kind = "record"
      PROVE  /\ s[k].event \in {<<"filled", slot>>} /\ s[k].at = recorded[s[k].event] + 1
             /\ \A j \in 1 .. k - 1 : ~Records(s, j, s[k].event, s[j].at)
  <2>1. k = n + 2 BY <1>1, <1>3, <1>4, <1>6
  <2>2. ASSUME NEW j \in 1 .. k - 1 PROVE s[j].kind # "record"
    <3>1. j = n + 1 \/ (n = 1 /\ j = 1) BY <1>1, <2>1
    <3>2. QED BY <1>3, <1>4, <3>1
  <2>3. QED BY <1>1, <2>1, <2>2 DEF Records
<1>7. QED BY <1>1, <1>5, <1>6 DEF Issuable, s

-----------------------------------------------------------------------------
\* An upload: the buffer it packs is free, its arena is read by nobody it does not wait for.
LEMMA UploadKeeps ==
  ASSUME EncoderInv, NEW l \in Layers, NEW slot \in {0, 1}, NEW before, Before(before, slot),
         StageUpload(l, slot, ArenaOf(resident, l), before), UNCHANGED <<resident, direct>>,
         enPc # "unloaded", ~resident \/ enPc = "upload",
         ~resident => slot = l % 2 /\ (before = <<>> => Unread(Compute, slot))
  PROVE  /\ QueueInv' /\ Compute' = Compute /\ DOMAIN memory' = DOMAIN memory
         /\ \A p \in DOMAIN memory : (\A t \in {0, 1} : p # Staging(t)) => memory'[p] = memory[p]
         /\ EncoderItems(Compute', Copy', resident', direct') /\ StagingKept(Copy', memory')
         /\ LayersCovered(Compute', Copy', memory', recorded')
         /\ ~resident => Holds(Copy', memory', slot, Ping(slot), LayerWeights(l), recorded'[<<"filled", slot>>])
         /\ resident => /\ InStream(Copy', memory', Len(Copy') + 1, Resident(l), LayerWeights(l))
                        /\ \A m \in Layers : m # l /\ InStream(Copy, memory, Len(Copy) + 1, Resident(m), LayerWeights(m))
                             => InStream(Copy', memory', Len(Copy') + 1, Resident(m), LayerWeights(m))
<1> DEFINE e1 == <<"emptied", slot>>
           e2 == <<"filled", slot>>
           from == IF direct THEN At(Mapping, File) ELSE At(Staging(slot), LayerWeights(l))
           to == At(ArenaOf(resident, l), LayerWeights(l))
           f == Sending(before, from, to, slot)
           n == Len(before)
<1>0. /\ QueueInv /\ EncoderItems(Compute, Copy, resident, direct)
      /\ EncoderPlaces(enPc, Compute, Copy, memory, resident, direct)
      /\ StagingKept(Copy, memory) /\ LayersCovered(Compute, Copy, memory, recorded)
  BY DEF EncoderInv
<1>1. {e2} \subseteq Events /\ e1 \in Events /\ e2 \in Events /\ e1 # e2 BY DEF Events
<1>2. /\ Passed(e2) /\ Issue(<<>>, f, {e2}) /\ memory' = IF direct THEN memory ELSE Over(from, memory)
  BY DEF StageUpload, Uploaded, Sending
<1>3. recorded' = [e \in Events |-> IF e \in {e2} THEN recorded[e] + 1 ELSE recorded[e]]
  BY <1>2 DEF Issue
<1>4. /\ recorded'[e2] = recorded[e2] + 1
      /\ \A t \in {0, 1} : recorded'[<<"emptied", t>>] = recorded[<<"emptied", t>>]
  BY <1>1, <1>3 DEF Events
<1>5. /\ n \in {0, 1} /\ Len(f) = n + 2 /\ (n = 0 <=> before = <<>>)
      /\ \A k \in 1 .. Len(f) : k = n + 1 \/ k = n + 2 \/ (n = 1 /\ k = 1)
      /\ n = 1 => Awaits(f, 1, e1) /\ f[1].at = recorded[e1]
      /\ f[n + 1] = Work(from, to)
      /\ Records(f, n + 2, e2, recorded[e2] + 1)
  BY SendingItems
<1>6. Issuable(f, "copy", {e2}) BY SendingIsIssuable
<1>7. f[n + 1].kind = "work" /\ f[n + 1].gives = to /\ f[n + 1].wants = from BY <1>5 DEF Work
<1>8. DOMAIN to = {ArenaOf(resident, l)} /\ to[ArenaOf(resident, l)] = LayerWeights(l) BY DEF At
<1>9. ~direct => DOMAIN from = {Staging(slot)} /\ from[Staging(slot)] = LayerWeights(l) BY DEF At
<1>10. DOMAIN from = {IF direct THEN Mapping ELSE Staging(slot)} BY DEF At
<1> HIDE DEF e1, e2, f, n, from, to
<1>11. QueueInv' /\ Extends(<<>>, Compute, Compute') /\ Extends(f, Copy, Copy')
  BY <1>0, <1>1, <1>2, <1>6, NothingIsIssuable, IssueExtends
<1>12. Compute' = Compute
  <2>1. IsSeq(Compute) /\ queue["compute"] = Compute BY <1>0 DEF QueueInv, Compute, Streams
  <2>2. queue'["compute"] = queue["compute"] \o <<>>
    BY <1>0, <1>1, <1>2, <1>6, IssueKeepsQueue, NothingIsIssuable
  <2>3. Compute \o <<>> = Compute BY <2>1 DEF IsSeq
  <2>4. QED BY <2>1, <2>2, <2>3 DEF Compute
<1>13. /\ Longer(Copy, Copy') /\ Len(Copy) \in Nat /\ Len(Copy') = Len(Copy) + (n + 2) /\ Len(Copy') \in Nat
       /\ Len(Compute) \in Nat
  BY <1>5, <1>11, ExtendsIsLonger DEF Extends
<1>14. /\ n = 1 => Copy'[Len(Copy) + 1] = f[1]
       /\ Copy'[Len(Copy) + (n + 1)] = f[n + 1] /\ Copy'[Len(Copy) + (n + 2)] = f[n + 2]
  <2>1. (n = 1 => 1 \in 1 .. Len(f)) /\ n + 1 \in 1 .. Len(f) /\ n + 2 \in 1 .. Len(f) BY <1>5
  <2>2. QED BY <1>11, <2>1, ExtendedAt
<1>15. DOMAIN memory' = DOMAIN memory
  <2>1. CASE direct BY <1>2, <2>1
  <2>2. CASE ~direct
    <3>1. Staging(slot) \in DOMAIN memory BY <1>0, <2>2 DEF EncoderPlaces
    <3>2. QED BY <1>2, <1>9, <2>2, <3>1 DEF Over
  <2>3. QED BY <2>1, <2>2
<1>16. \A p \in DOMAIN memory : direct \/ p # Staging(slot) => memory'[p] = memory[p]
  BY <1>2, <1>9 DEF Over
<1>17. ~direct => Staging(slot) \in DOMAIN memory /\ memory'[Staging(slot)] = LayerWeights(l)
  <2> HAVE ~direct
  <2>1. Staging(slot) \in DOMAIN memory BY <1>0 DEF EncoderPlaces
  <2>2. QED BY <1>2, <1>9, <2>1 DEF Over
<1>18. ASSUME NEW d \in Len(Copy) + 1 .. Len(Copy')
       PROVE  /\ \A p : Gives(Copy', d, p) => d = Len(Copy) + (n + 1) /\ p = ArenaOf(resident, l)
              /\ \A p : Wants(Copy', d, p) => d = Len(Copy) + (n + 1) /\ p = IF direct THEN Mapping ELSE Staging(slot)
  <2>1. d = Len(Copy) + (n + 1) \/ d = Len(Copy) + (n + 2) \/ (n = 1 /\ d = Len(Copy) + 1)
    BY <1>5, <1>13
  <2>2. \A p : ~Gives(Copy', Len(Copy) + (n + 2), p) /\ ~Wants(Copy', Len(Copy) + (n + 2), p)
    BY <1>5, <1>14 DEF Gives, Wants, Records
  <2>3. n = 1 => \A p : ~Gives(Copy', Len(Copy) + 1, p) /\ ~Wants(Copy', Len(Copy) + 1, p)
    BY <1>5, <1>14 DEF Gives, Wants, Awaits
  <2>4. \A p : Gives(Copy', Len(Copy) + (n + 1), p) => p = ArenaOf(resident, l)
    BY <1>7, <1>8, <1>14 DEF Gives
  <2>5. \A p : Wants(Copy', Len(Copy) + (n + 1), p) => p = IF direct THEN Mapping ELSE Staging(slot)
    BY <1>7, <1>10, <1>14 DEF Wants
  <2>6. QED BY <2>1, <2>2, <2>3, <2>4, <2>5
<1>19. /\ Len(Copy) + (n + 1) \in Len(Copy) + 1 .. Len(Copy') /\ Len(Copy) + (n + 1) \in 1 .. Len(Copy') - 1
       /\ (Len(Copy) + (n + 1)) + 1 = Len(Copy') /\ Len(Copy) + (n + 2) = Len(Copy')
       /\ \A i \in 1 .. Len(Copy') : i \in 1 .. Len(Copy) \/ i \in Len(Copy) + 1 .. Len(Copy')
  BY <1>5, <1>13
<1>20. /\ Gives(Copy', Len(Copy) + (n + 1), ArenaOf(resident, l))
       /\ Copy'[Len(Copy) + (n + 1)].gives[ArenaOf(resident, l)] = LayerWeights(l)
  BY <1>7, <1>8, <1>14 DEF Gives
<1>21. Records(Copy', Len(Copy'), <<"filled", slot>>, recorded'[<<"filled", slot>>])
  BY <1>4, <1>5, <1>14, <1>19 DEF Records, e2
<1>22. EncoderItems(Compute', Copy', resident', direct')
  <2>1. \A k \in 1 .. Len(f) : f[k].kind = "work" => k = n + 1 BY <1>5 DEF Records, Awaits
  <2>2. UploadItemOf(f[n + 1], resident, direct)
    <3>1. UploadOf(f[n + 1], l, direct) BY <1>7 DEF UploadOf, from
    <3>2. QED BY <1>7, <3>1 DEF UploadItemOf, to
  <2>3. \A k \in 1 .. Len(f) : UploadItemOf(f[k], resident, direct) BY <2>1, <2>2 DEF UploadItemOf
  <2>4. \A i \in 1 .. Len(Copy') : UploadItemOf(Copy'[i], resident, direct)
    BY <1>0, <1>11, <2>3, ItemsExtended DEF EncoderItems
  <2>5. QED BY <1>0, <1>12, <2>4 DEF EncoderItems
<1>23. StagingKept(Copy', memory')
  <2> SUFFICES ASSUME NEW c \in 1 .. Len(Copy'), NEW t \in {0, 1}, Wants(Copy', c, Staging(t))
               PROVE  /\ memory'[Staging(t)] = Copy'[c].wants[Staging(t)]
                      /\ \E r \in c + 1 .. Len(Copy') : Records(Copy', r, <<"filled", t>>, Copy'[r].at)
    BY DEF StagingKept
  <2>1. CASE c \in 1 .. Len(Copy)
    <3>1. Copy'[c] = Copy[c] /\ Wants(Copy, c, Staging(t)) BY <1>13, <2>1 DEF Longer, Wants
    <3>2. /\ memory[Staging(t)] = Copy[c].wants[Staging(t)]
          /\ \E r \in c + 1 .. Len(Copy) : Records(Copy, r, <<"filled", t>>, Copy[r].at)
      BY <1>0, <2>1, <3>1 DEF StagingKept
    <3>3. PICK r \in c + 1 .. Len(Copy) : Records(Copy, r, <<"filled", t>>, Copy[r].at) BY <3>2
    <3>4. r \in 1 .. Len(Copy) /\ r \in c + 1 .. Len(Copy') /\ Copy'[r] = Copy[r]
      BY <1>5, <1>13, <2>1, <3>3 DEF Longer
    <3>5. t # slot
      <4> SUFFICES ASSUME t = slot PROVE FALSE OBVIOUS
      <4>1. "copy" \in Streams /\ r \in 1 .. Len(queue["copy"]) /\ Records(queue["copy"], r, e2, Copy[r].at)
        BY <3>3, <3>4 DEF Copy, Streams, e2
      <4>2. QED BY <1>0, <1>1, <1>2, <4>1, PassedHasNone
    <3>6. ~direct /\ Staging(t) \in DOMAIN memory
      <4>1. ~direct BY <1>0, <2>1, <3>1, EncoderReads, EncoderPlacesDiffer
      <4>2. QED BY <1>0, <4>1 DEF EncoderPlaces
    <3>7. memory'[Staging(t)] = memory[Staging(t)] BY <1>16, <3>5, <3>6, EncoderPlacesDiffer
    <3>8. QED BY <3>1, <3>2, <3>3, <3>4, <3>7 DEF Records
  <2>2. CASE c \in Len(Copy) + 1 .. Len(Copy')
    <3>1. c = Len(Copy) + (n + 1) /\ t = slot /\ ~direct BY <1>18, <2>2, EncoderPlacesDiffer
    <3>2. memory'[Staging(t)] = Copy'[c].wants[Staging(t)] BY <1>7, <1>9, <1>14, <1>17, <3>1
    <3>3. Len(Copy') \in c + 1 .. Len(Copy') BY <1>13, <1>19, <3>1
    <3>4. QED BY <1>21, <3>1, <3>2, <3>3 DEF Records
  <2>3. QED BY <1>19, <2>1, <2>2
<1>24. LayersCovered(Compute', Copy', memory', recorded')
  <2> SUFFICES ASSUME NEW i \in 1 .. Len(Compute), NEW t \in {0, 1}, Wants(Compute, i, Ping(t))
               PROVE  /\ Covered(Compute, Copy', memory', i, t, Ping(t), Compute[i].wants[Ping(t)])
                      /\ \E k \in i + 1 .. Len(Compute) :
                           Records(Compute, k, <<"emptied", t>>, recorded'[<<"emptied", t>>])
    BY <1>12 DEF LayersCovered
  <2> DEFINE v == Compute[i].wants[Ping(t)]
  <2>1. /\ Covered(Compute, Copy, memory, i, t, Ping(t), v)
        /\ \E k \in i + 1 .. Len(Compute) : Records(Compute, k, <<"emptied", t>>, recorded[<<"emptied", t>>])
    BY <1>0 DEF LayersCovered
  <2> HIDE DEF v
  <2>2. PICK k \in i + 1 .. Len(Compute) : Records(Compute, k, <<"emptied", t>>, recorded[<<"emptied", t>>])
    BY <2>1
  <2>3. PICK m \in Layers : Ping(t) = ArenaOf(resident, m) BY <1>0, EncoderReads
  <2>4. ~resident /\ Ping(t) \in DOMAIN memory
    BY <1>0, <2>3, EncoderPlacesDiffer DEF EncoderPlaces, ArenaOf
  <2>5. memory'[Ping(t)] = memory[Ping(t)] BY <1>16, <2>4, EncoderPlacesDiffer
  <2>6. ASSUME NEW d \in Len(Copy) + 1 .. Len(Copy'), Gives(Copy', d, Ping(t)) PROVE Guarded(Compute, Copy', d, i, t)
    <3>1. d = Len(Copy) + (n + 1) /\ Ping(t) = Ping(l % 2) BY <1>18, <2>4, <2>6 DEF ArenaOf
    <3>2. t = slot BY <2>4, <3>1, EncoderPlacesDiffer
    <3>3. n = 1 BY <1>5, <2>4, <3>2 DEF Unread
    <3>4. Len(Copy) + 1 \in 1 .. d - 1 BY <1>13, <3>1, <3>3
    <3>5. Awaits(Copy', Len(Copy) + 1, <<"emptied", t>>) /\ Copy'[Len(Copy) + 1].at = recorded[<<"emptied", t>>]
      BY <1>5, <1>14, <3>2, <3>3 DEF Awaits, e1
    <3>6. QED BY <2>2, <3>4, <3>5 DEF Guarded
  <2>7. GuardedFrom(Compute, Copy', Len(Copy) + 1, i, t, Ping(t)) BY <2>6 DEF GuardedFrom
  <2>8. Covered(Compute, Copy', memory, i, t, Ping(t), v) BY <1>13, <2>1, <2>7, CoveredOnCopy
  <2>9. Covered(Compute, Copy', memory', i, t, Ping(t), v) BY <2>5, <2>8 DEF Covered
  <2>10. QED BY <1>4, <2>1, <2>9 DEF v
<1>25. ASSUME ~resident
       PROVE  Holds(Copy', memory', slot, Ping(slot), LayerWeights(l), recorded'[<<"filled", slot>>])
  <2>1. ArenaOf(resident, l) = Ping(slot) BY <1>25 DEF ArenaOf
  <2>2. /\ Gives(Copy', Len(Copy) + (n + 1), Ping(slot))
        /\ Copy'[Len(Copy) + (n + 1)].gives[Ping(slot)] = LayerWeights(l)
        /\ Records(Copy', (Len(Copy) + (n + 1)) + 1, <<"filled", slot>>, recorded'[<<"filled", slot>>])
    BY <1>19, <1>20, <1>21, <2>1
  <2>3. Len(Copy) + (n + 1) \in 1 .. Len(Copy') - 1 /\ (Len(Copy) + (n + 1)) + 1 = Len(Copy')
    BY <1>19
  <2>4. QED BY <1>13, <2>2, <2>3, HoldsNew
<1>26. ASSUME resident
       PROVE  InStream(Copy', memory', Len(Copy') + 1, Resident(l), LayerWeights(l))
  <2>1. /\ Gives(Copy', Len(Copy) + (n + 1), Resident(l))
        /\ Copy'[Len(Copy) + (n + 1)].gives[Resident(l)] = LayerWeights(l)
    BY <1>20, <1>26 DEF ArenaOf
  <2>2. Len(Copy) + (n + 1) \in 1 .. (Len(Copy') + 1) - 1 BY <1>13, <1>19
  <2>3. \A k \in (Len(Copy) + (n + 1)) + 1 .. (Len(Copy') + 1) - 1 : k = Len(Copy')
    BY <1>5, <1>13, <1>19
  <2>4. ~Gives(Copy', Len(Copy'), Resident(l)) BY <1>21 DEF Gives, Records
  <2>5. QED BY <2>1, <2>2, <2>3, <2>4 DEF InStream
<1>27. ASSUME resident, NEW m \in Layers, m # l, InStream(Copy, memory, Len(Copy) + 1, Resident(m), LayerWeights(m))
       PROVE  InStream(Copy', memory', Len(Copy') + 1, Resident(m), LayerWeights(m))
  <2>1. Resident(m) \in DOMAIN memory BY <1>0, <1>27 DEF EncoderPlaces, ArenaOf
  <2>2. memory'[Resident(m)] = memory[Resident(m)] BY <1>16, <2>1, EncoderPlacesDiffer
  <2>3. \A k \in 1 .. Len(f) : ~Gives(f, k, Resident(m))
    <3>1. \A k \in 1 .. Len(f) : f[k].kind = "work" => k = n + 1 BY <1>5 DEF Records, Awaits
    <3>2. Resident(m) \notin DOMAIN f[n + 1].gives
      BY <1>7, <1>8, <1>27, EncoderPlacesDiffer DEF ArenaOf
    <3>3. QED BY <3>1, <3>2 DEF Gives
  <2>4. InStream(Copy', memory, Len(Copy') + 1, Resident(m), LayerWeights(m))
    BY <1>11, <1>27, <2>3, InStreamLater
  <2>5. QED BY <2>2, <2>4 DEF InStream
<1>28. \A p \in DOMAIN memory : (\A t \in {0, 1} : p # Staging(t)) => memory'[p] = memory[p]
  BY <1>16
<1>29. QED BY <1>11, <1>12, <1>15, <1>22, <1>23, <1>24, <1>25, <1>26, <1>27, <1>28

\* A resident layer is uploaded.
LEMMA UploadResidentKeeps == ASSUME EncoderInv, UploadResident PROVE EncoderInv'
<1> DEFINE l == layer
<1>0. /\ EncoderTypeOK /\ enPc = "upload" /\ l \in Layers /\ l % 2 \in {0, 1} /\ l \in Nat
      /\ EncoderPlaces(enPc, Compute, Copy, memory, resident, direct)
      /\ ResidentFilled(enPc, layer, Copy, memory, resident)
  BY LayersAreCounted DEF UploadResident, EncoderInv, EncoderTypeOK, Layers
<1>1. /\ enPc' = enPc /\ resident' = resident /\ direct' = direct /\ layer' = l + 1 /\ loads' = loads /\ encodes' = encodes
      /\ StageUpload(l, l % 2, Resident(l), <<>>)
  BY DEF UploadResident
<1>2. resident BY <1>0 DEF EncoderPlaces
<1>3. Before(<<>>, l % 2) /\ ArenaOf(resident, l) = Resident(l) BY <1>2 DEF Before, ArenaOf
<1> HIDE DEF l
<1>4. /\ QueueInv' /\ Compute' = Compute /\ DOMAIN memory' = DOMAIN memory
      /\ \A p \in DOMAIN memory : (\A t \in {0, 1} : p # Staging(t)) => memory'[p] = memory[p]
      /\ EncoderItems(Compute', Copy', resident', direct') /\ StagingKept(Copy', memory')
      /\ LayersCovered(Compute', Copy', memory', recorded')
      /\ resident => /\ InStream(Copy', memory', Len(Copy') + 1, Resident(l), LayerWeights(l))
                     /\ \A m \in Layers : m # l /\ InStream(Copy, memory, Len(Copy) + 1, Resident(m), LayerWeights(m))
                          => InStream(Copy', memory', Len(Copy') + 1, Resident(m), LayerWeights(m))
  BY <1>0, <1>1, <1>2, <1>3, UploadKeeps
<1>5. EncoderTypeOK'
  <2>1. layer' \in 0 .. NumLayers BY <1>0, <1>1, LayersAreCounted DEF Layers
  <2>2. QED BY <1>0, <1>1, <2>1 DEF EncoderTypeOK
<1>6. EncoderPlaces(enPc', Compute', Copy', memory', resident', direct')
  BY <1>0, <1>1, <1>4, EncoderPlacesDiffer DEF EncoderPlaces
<1>7. ResidentFilled(enPc', layer', Copy', memory', resident')
  <2>1. \A m \in 0 .. (l + 1) - 1 : m \in Layers /\ (m = l \/ m \in 0 .. l - 1)
    BY <1>0, LayersAreCounted DEF Layers
  <2>2. \A m \in 0 .. l - 1 : InStream(Copy, memory, Len(Copy) + 1, Resident(m), LayerWeights(m))
    BY <1>0, <1>2 DEF ResidentFilled, Arriving, l
  <2>3. \A m \in 0 .. l - 1 : m # l BY <1>0
  <2>4. QED BY <1>0, <1>1, <1>2, <1>4, <2>1, <2>2, <2>3 DEF ResidentFilled, Arriving
<1>8. LayerReady(enPc', layer', Compute', Copy', memory', resident', recorded')
  BY <1>0, <1>1 DEF LayerReady
<1>9. QED BY <1>4, <1>5, <1>6, <1>7, <1>8, EncoderInvAfter

\* The first layer is uploaded.
LEMMA UploadFirstKeeps == ASSUME EncoderInv, UploadFirst PROVE EncoderInv'
<1>0. /\ EncoderTypeOK /\ enPc = "first" /\ ~resident /\ layer = 0 /\ 0 \in Layers /\ 0 % 2 = 0
      /\ Unread(Compute, 0) /\ Unread(Compute, 1)
      /\ EncoderPlaces(enPc, Compute, Copy, memory, resident, direct)
  BY LayersAreCounted DEF UploadFirst, EncoderInv, LayerReady, Layers
<1>1. /\ enPc' = "layer" /\ resident' = resident /\ direct' = direct /\ layer' = layer /\ loads' = loads /\ encodes' = encodes
      /\ StageUpload(0, 0, Ping(0), <<>>)
  BY DEF UploadFirst
<1>2. Before(<<>>, 0) /\ ArenaOf(resident, 0) = Ping(0) BY <1>0 DEF Before, ArenaOf
<1>3. /\ QueueInv' /\ Compute' = Compute /\ DOMAIN memory' = DOMAIN memory
      /\ \A p \in DOMAIN memory : (\A t \in {0, 1} : p # Staging(t)) => memory'[p] = memory[p]
      /\ EncoderItems(Compute', Copy', resident', direct') /\ StagingKept(Copy', memory')
      /\ LayersCovered(Compute', Copy', memory', recorded')
      /\ Holds(Copy', memory', 0, Ping(0), LayerWeights(0), recorded'[<<"filled", 0>>])
  BY <1>0, <1>1, <1>2, UploadKeeps
<1>4. EncoderTypeOK' BY <1>0, <1>1 DEF EncoderTypeOK
<1>5. EncoderPlaces(enPc', Compute', Copy', memory', resident', direct')
  BY <1>0, <1>1, <1>3, EncoderPlacesDiffer DEF EncoderPlaces
<1>6. ResidentFilled(enPc', layer', Copy', memory', resident') BY <1>0, <1>1 DEF ResidentFilled
<1>7. LayerReady(enPc', layer', Compute', Copy', memory', resident', recorded')
  <2>1. layer' = 0 /\ Unread(Compute', 1) /\ 0 < NumLayers BY <1>0, <1>1, <1>3, LayersAreCounted
  <2>2. QED BY <1>0, <1>1, <1>3, <2>1 DEF LayerReady
<1>8. QED BY <1>3, <1>4, <1>5, <1>6, <1>7, EncoderInvAfter

\* The next layer is uploaded while the present one computes.
LEMMA UploadAheadKeeps == ASSUME EncoderInv, UploadAhead PROVE EncoderInv'
<1> DEFINE l == layer + 1
           slot == (layer + 1) % 2
<1>0. /\ EncoderTypeOK /\ enPc = "ahead" /\ ~resident /\ layer \in Nat /\ l \in Layers /\ slot \in {0, 1}
      /\ l \in Nat /\ l < NumLayers /\ l # 0
      /\ EncoderPlaces(enPc, Compute, Copy, memory, resident, direct)
      /\ (layer = 0 => Unread(Compute, 1) /\ slot = 1)
  BY LayersAreCounted DEF UploadAhead, EncoderInv, LayerReady, EncoderTypeOK, Layers
<1>1. /\ enPc' = "layer" /\ resident' = resident /\ direct' = direct /\ layer' = l /\ loads' = loads /\ encodes' = encodes
      /\ StageUpload(l, slot, Ping(slot), ComputedBefore(slot))
  BY DEF UploadAhead
<1>2. /\ Before(ComputedBefore(slot), slot) /\ ArenaOf(resident, l) = Ping(slot) /\ slot = l % 2
      /\ (ComputedBefore(slot) = <<>> => Unread(Compute, slot))
  <2>1. CASE layer >= 1
    <3>1. ComputedBefore(slot) = <<WaitFor(<<"emptied", slot>>)>> BY <2>1 DEF ComputedBefore
    <3>2. Len(<<WaitFor(<<"emptied", slot>>)>>) = 1 /\ Len(<<>>) = 0 BY ShortSeqs
    <3>3. ComputedBefore(slot) # <<>> BY <3>1, <3>2
    <3>4. QED BY <1>0, <3>1, <3>3 DEF Before, ArenaOf
  <2>2. CASE ~(layer >= 1)
    <3>1. layer = 0 BY <1>0, <2>2
    <3>2. QED BY <1>0, <2>2, <3>1 DEF ComputedBefore, Before, ArenaOf
  <2>3. QED BY <2>1, <2>2
<1> HIDE DEF l, slot
<1> DEFINE b == ComputedBefore(slot)
<1>9. Before(b, slot) /\ (b = <<>> => Unread(Compute, slot)) /\ StageUpload(l, slot, ArenaOf(resident, l), b)
  BY <1>1, <1>2
<1> HIDE DEF b
<1>3. /\ QueueInv' /\ Compute' = Compute /\ DOMAIN memory' = DOMAIN memory
      /\ \A p \in DOMAIN memory : (\A t \in {0, 1} : p # Staging(t)) => memory'[p] = memory[p]
      /\ EncoderItems(Compute', Copy', resident', direct') /\ StagingKept(Copy', memory')
      /\ LayersCovered(Compute', Copy', memory', recorded')
      /\ Holds(Copy', memory', slot, Ping(slot), LayerWeights(l), recorded'[<<"filled", slot>>])
  BY <1>0, <1>1, <1>2, <1>9, UploadKeeps
<1>4. EncoderTypeOK'
  <2>1. layer' \in 0 .. NumLayers BY <1>0, <1>1, LayersAreCounted DEF Layers
  <2>2. QED BY <1>0, <1>1, <2>1 DEF EncoderTypeOK
<1>5. EncoderPlaces(enPc', Compute', Copy', memory', resident', direct')
  BY <1>0, <1>1, <1>3, EncoderPlacesDiffer DEF EncoderPlaces
<1>6. ResidentFilled(enPc', layer', Copy', memory', resident') BY <1>0, <1>1 DEF ResidentFilled
<1>7. LayerReady(enPc', layer', Compute', Copy', memory', resident', recorded')
  BY <1>0, <1>1, <1>2, <1>3 DEF LayerReady
<1>8. QED BY <1>3, <1>4, <1>5, <1>6, <1>7, EncoderInvAfter

\* A host step that leaves the streams alone.
LEMMA StreamsStay ==
  ASSUME EncoderInv, UNCHANGED <<queue, running, recorded, reached>>
  PROVE  QueueInv' /\ Compute' = Compute /\ Copy' = Copy
BY QueueStays DEF EncoderInv, Compute, Copy

\* The staging buffers go once the copy stream is idle.
LEMMA FinishLoadKeeps == ASSUME EncoderInv, FinishLoad PROVE EncoderInv'
<1>0. /\ EncoderTypeOK /\ EncoderItems(Compute, Copy, resident, direct)
      /\ EncoderPlaces(enPc, Compute, Copy, memory, resident, direct)
      /\ ResidentFilled(enPc, layer, Copy, memory, resident)
      /\ enPc = "upload" /\ layer = NumLayers /\ enPc' = "loaded"
      /\ UNCHANGED <<resident, direct, layer, loads, encodes>>
      /\ memory' = Restrict(memory, DOMAIN memory \ {Staging(0), Staging(1)})
  BY DEF EncoderInv, FinishLoad
<1>1. QueueInv' /\ Compute' = Compute /\ Copy' = Copy
  <2>1. UNCHANGED <<queue, running, recorded, reached>> BY DEF FinishLoad
  <2>2. QED BY <2>1, StreamsStay
<1>2. resident /\ Compute = <<>> /\ Copy = <<>> /\ Len(<<>>) = 0 /\ \A i \in 1 .. Len(<<>>) : FALSE
  <2>1. Copy = <<>> /\ Len(<<>>) = 0 BY ShortSeqs DEF FinishLoad, Idle, Copy
  <2>2. \A i \in 1 .. 0 : FALSE OBVIOUS
  <2>3. QED BY <1>0, <2>1, <2>2 DEF EncoderPlaces
<1>3. \A p \in DOMAIN memory : p # Staging(0) /\ p # Staging(1) => p \in DOMAIN memory' /\ memory'[p] = memory[p]
  BY <1>0 DEF Restrict
<1>4. EncoderTypeOK' BY <1>0 DEF EncoderTypeOK
<1>5. EncoderItems(Compute', Copy', resident', direct') BY <1>0, <1>1
<1>6. EncoderPlaces(enPc', Compute', Copy', memory', resident', direct')
  BY <1>0, <1>1, <1>2, <1>3, EncoderPlacesDiffer DEF EncoderPlaces, ArenaOf
<1>7. StagingKept(Copy', memory') /\ LayersCovered(Compute', Copy', memory', recorded')
  BY <1>1, <1>2 DEF StagingKept, LayersCovered
<1>8. ResidentFilled(enPc', layer', Copy', memory', resident')
  <2>1. \A m \in Layers : Resident(m) \in DOMAIN memory /\ m \in 0 .. NumLayers - 1
    BY <1>0, <1>2 DEF EncoderPlaces, ArenaOf, Layers
  <2>2. \A m \in Layers : memory[Resident(m)] = LayerWeights(m)
    <3> TAKE m \in Layers
    <3>1. InStream(Copy, memory, Len(Copy) + 1, Resident(m), LayerWeights(m))
      BY <1>0, <1>2, <2>1 DEF ResidentFilled, Arriving
    <3>2. \A j \in 1 .. (Len(Copy) + 1) - 1 : FALSE BY <1>2
    <3>3. QED BY <3>1, <3>2 DEF InStream
  <2>3. \A m \in Layers : memory'[Resident(m)] = LayerWeights(m)
    BY <1>3, <2>1, <2>2, EncoderPlacesDiffer
  <2>4. \A k \in 1 .. (Len(Copy) + 1) - 1 : FALSE BY <1>2
  <2>5. \A m \in Layers : InStream(Copy', memory', Len(Copy') + 1, Resident(m), LayerWeights(m))
    BY <1>1, <2>3, <2>4 DEF InStream
  <2>6. QED BY <1>0, <2>5 DEF ResidentFilled, Arriving
<1>9. LayerReady(enPc', layer', Compute', Copy', memory', resident', recorded')
  BY <1>0, <1>1, <1>2 DEF LayerReady, Unread
<1>10. QED BY <1>1, <1>4, <1>5, <1>6, <1>7, <1>8, <1>9, EncoderInvAfter

\* The streams are idle and the memory is another one: loading, or letting go.
LEMMA NothingQueuedKeeps ==
  ASSUME EncoderInv, UNCHANGED <<queue, running, recorded, reached>>, Compute = <<>>, Copy = <<>>, EncoderTypeOK',
         EncoderPlaces(enPc', <<>>, <<>>, memory', resident', direct'),
         resident' => enPc' = "unloaded" \/ (enPc' = "upload" /\ layer' = 0), enPc' \notin {"first", "layer", "ahead"}
  PROVE  EncoderInv'
<1>1. QueueInv' /\ Compute' = <<>> /\ Copy' = <<>> BY StreamsStay
<1>2. Len(<<>>) = 0 /\ (\A i \in 1 .. Len(<<>>) : FALSE) /\ (\A m \in 0 .. 0 - 1 : FALSE)
  <2>1. Len(<<>>) = 0 BY ShortSeqs
  <2>2. (\A i \in 1 .. 0 : FALSE) /\ (\A m \in 0 .. 0 - 1 : FALSE) OBVIOUS
  <2>3. QED BY <2>1, <2>2
<1>3. EncoderItems(Compute', Copy', resident', direct') /\ StagingKept(Copy', memory')
      /\ LayersCovered(Compute', Copy', memory', recorded')
  BY <1>1, <1>2 DEF EncoderItems, StagingKept, LayersCovered
<1>4. ResidentFilled(enPc', layer', Copy', memory', resident') BY <1>2 DEF ResidentFilled, Arriving
<1>5. LayerReady(enPc', layer', Compute', Copy', memory', resident', recorded')
  BY <1>1, <1>2 DEF LayerReady, Unread
<1>6. QED BY <1>1, <1>3, <1>4, <1>5, EncoderInvAfter

\* load() allocates, and registers the mapping or not.
LEMMA LoadKeeps == ASSUME EncoderInv, Load PROVE EncoderInv'
<1>0. /\ EncoderTypeOK /\ EncoderPlaces(enPc, Compute, Copy, memory, resident, direct) /\ enPc = "unloaded"
      /\ loads' = loads + 1 /\ layer' = 0 /\ resident' \in BOOLEAN /\ direct' \in BOOLEAN /\ encodes' = encodes
      /\ enPc' = IF resident' THEN "upload" ELSE "loaded"
      /\ memory' = Over([p \in Arenas(resident') |-> Torn],
                        IF direct' THEN At(Mapping, File) ELSE [p \in {Staging(0), Staging(1)} |-> Torn])
  BY DEF EncoderInv, Load
<1>1. Compute = <<>> /\ Copy = <<>> BY <1>0 DEF EncoderPlaces
<1>2. EncoderTypeOK'
  <2>1. loads' \in 0 .. MaxLoads /\ layer' \in 0 .. NumLayers
    BY <1>0, EncoderAssumption DEF Load, EncoderTypeOK
  <2>2. QED BY <1>0, <2>1 DEF EncoderTypeOK
<1>3. \A l \in Layers : ArenaOf(resident', l) \in Arenas(resident')
  <2> TAKE l \in Layers
  <2>1. CASE resident' BY <2>1 DEF ArenaOf, Arenas, Layers
  <2>2. CASE ~resident'
    <3>1. l % 2 = 0 \/ l % 2 = 1 BY LayersAreCounted
    <3>2. QED BY <2>2, <3>1 DEF ArenaOf, Arenas
  <2>3. QED BY <2>1, <2>2
<1>4. Mapping \notin Arenas(resident') BY EncoderPlacesDiffer DEF Arenas
<1>5. Arenas(resident') \subseteq DOMAIN memory' BY <1>0 DEF Over
<1>6. direct' => Mapping \in DOMAIN memory' /\ memory'[Mapping] = File
  <2> HAVE direct'
  <2>1. memory' = Over([p \in Arenas(resident') |-> Torn], At(Mapping, File)) BY <1>0
  <2>2. DOMAIN At(Mapping, File) = {Mapping} /\ At(Mapping, File)[Mapping] = File BY DEF At
  <2>3. QED BY <1>4, <2>1, <2>2 DEF Over
<1>7. ~direct' => \A slot \in {0, 1} : Staging(slot) \in DOMAIN memory'
  <2> HAVE ~direct'
  <2>1. memory' = Over([p \in Arenas(resident') |-> Torn], [p \in {Staging(0), Staging(1)} |-> Torn])
    BY <1>0
  <2>2. QED BY <2>1 DEF Over
<1>8. EncoderPlaces(enPc', <<>>, <<>>, memory', resident', direct')
  BY <1>0, <1>3, <1>5, <1>6, <1>7 DEF EncoderPlaces
<1>9. UNCHANGED <<queue, running, recorded, reached>> BY DEF Load
<1>10. QED BY <1>0, <1>1, <1>2, <1>8, <1>9, NothingQueuedKeeps

\* unload(), or a load that failed, drains the streams and frees.
LEMMA ResetKeeps == ASSUME EncoderInv, Reset PROVE EncoderInv'
<1>1. /\ EncoderTypeOK /\ enPc' = "unloaded" /\ UNCHANGED <<resident, direct, layer, loads, encodes>>
      /\ Compute = <<>> /\ Copy = <<>>
  BY DEF EncoderInv, Reset, StreamsDrained, Idle, Compute, Copy
<1>2. EncoderTypeOK' BY <1>1 DEF EncoderTypeOK
<1>3. EncoderPlaces(enPc', <<>>, <<>>, memory', resident', direct') BY <1>1 DEF EncoderPlaces
<1>4. UNCHANGED <<queue, running, recorded, reached>> BY DEF Reset
<1>5. QED BY <1>1, <1>2, <1>3, <1>4, NothingQueuedKeeps

\* A step of the host's program alone.
LEMMA EncoderGoesOn ==
  ASSUME EncoderInv, UNCHANGED <<cudaVars, resident, direct, loads>>, EncoderTypeOK',
         enPc \notin {"unloaded", "upload"}, enPc' \notin {"unloaded", "upload", "ahead"},
         LayerReady(enPc', layer', Compute, Copy, memory, resident, recorded)
  PROVE  EncoderInv'
<1>1. UNCHANGED <<queue, running, recorded, reached>> /\ memory' = memory /\ recorded' = recorded
      /\ resident' = resident /\ direct' = direct
  BY DEF cudaVars
<1>2. QueueInv' /\ Compute' = Compute /\ Copy' = Copy BY <1>1, StreamsStay
<1>3. /\ EncoderItems(Compute, Copy, resident, direct)
      /\ EncoderPlaces(enPc, Compute, Copy, memory, resident, direct) /\ StagingKept(Copy, memory)
      /\ ResidentFilled(enPc, layer, Copy, memory, resident) /\ LayersCovered(Compute, Copy, memory, recorded)
  BY DEF EncoderInv
<1>4. EncoderPlaces(enPc', Compute, Copy, memory, resident, direct) BY <1>3 DEF EncoderPlaces
<1>5. ResidentFilled(enPc', layer', Copy, memory, resident) BY <1>3 DEF ResidentFilled, Arriving
<1>6. QED BY <1>1, <1>2, <1>3, <1>4, <1>5, EncoderInvAfter

\* encode() begins.
LEMMA BeginEncodeKeeps == ASSUME EncoderInv, BeginEncode PROVE EncoderInv'
<1>0. /\ EncoderTypeOK /\ enPc = "loaded" /\ encodes < MaxEncodes /\ encodes' = encodes + 1 /\ layer' = 0
      /\ enPc' = (IF resident THEN "layer" ELSE "first") /\ UNCHANGED <<cudaVars, resident, direct, loads>>
      /\ LayerReady(enPc, layer, Compute, Copy, memory, resident, recorded)
  BY DEF EncoderInv, BeginEncode
<1>1. EncoderTypeOK'
  <2>1. encodes' \in 0 .. MaxEncodes /\ layer' \in 0 .. NumLayers
    BY <1>0, EncoderAssumption DEF EncoderTypeOK
  <2>2. enPc' \in {"layer", "first"} /\ UNCHANGED <<resident, direct, loads>> BY <1>0
  <2>3. QED BY <1>0, <2>1, <2>2 DEF EncoderTypeOK
<1>2. LayerReady(enPc', layer', Compute, Copy, memory, resident, recorded)
  <2>1. 0 < NumLayers BY LayersAreCounted
  <2>2. QED BY <1>0, <2>1 DEF LayerReady
<1>3. QED BY <1>0, <1>1, <1>2, EncoderGoesOn

\* encode() returns.
LEMMA EncodeReturnsKeeps == ASSUME EncoderInv, EncodeReturns PROVE EncoderInv'
<1>0. /\ EncoderTypeOK /\ enPc = "sync" /\ enPc' = "loaded" /\ UNCHANGED <<cudaVars, resident, direct, loads>>
      /\ layer' = layer /\ encodes' = encodes /\ Compute = <<>>
  BY DEF EncoderInv, EncodeReturns, Idle, Compute
<1>1. EncoderTypeOK' BY <1>0 DEF EncoderTypeOK
<1>2. LayerReady(enPc', layer', Compute, Copy, memory, resident, recorded)
  <2>1. \A i \in 1 .. Len(Compute) : FALSE
    <3>1. Len(Compute) = 0 BY <1>0, ShortSeqs
    <3>2. QED BY <3>1
  <2>2. QED BY <1>0, <2>1 DEF LayerReady, Unread
<1>3. QED BY <1>0, <1>1, <1>2, EncoderGoesOn

\* What the host issues for the layer at hand.
LayerIssue == LayerWaits \o LayerKernels \o LayerDone
LayerSlot == layer % 2

\* The items of a layer: the wait, its kernels and the record.
LEMMA LayerItems ==
  ASSUME resident \in BOOLEAN
  PROVE  /\ IsSeq(LayerWaits \o LayerKernels) /\ IsSeq(LayerWaits) /\ IsSeq(LayerKernels) /\ IsSeq(LayerIssue)
         /\ Len(LayerWaits) = (IF resident THEN 0 ELSE 1) /\ Len(LayerKernels) = 1
         /\ Len(LayerIssue) = (IF resident THEN 1 ELSE 3)
         /\ resident => LayerIssue[1] = Work(At(Arena(layer), LayerWeights(layer)), None)
         /\ ~resident => /\ LayerIssue[1] = WaitFor(<<"filled", LayerSlot>>) /\ LayerWaits[1] = LayerIssue[1]
                         /\ LayerIssue[2] = Work(At(Arena(layer), LayerWeights(layer)), None)
                         /\ LayerIssue[3] = RecordOf(<<"emptied", LayerSlot>>)
         /\ LayerKernels[1] = Work(At(Arena(layer), LayerWeights(layer)), None)
<1> DEFINE x == Work(At(Arena(layer), LayerWeights(layer)), None)
           a == LayerWaits
           k == LayerKernels
           d == LayerDone
<1>1. IsSeq(k) /\ Len(k) = 1 /\ k[1] = x BY ShortSeqs DEF LayerKernels
<1>2. resident => IsSeq(a) /\ Len(a) = 0 /\ IsSeq(d) /\ Len(d) = 0
  BY ShortSeqs DEF LayerWaits, LayerDone
<1>3. ~resident => /\ IsSeq(a) /\ Len(a) = 1 /\ a[1] = WaitFor(<<"filled", LayerSlot>>)
                   /\ IsSeq(d) /\ Len(d) = 1 /\ d[1] = RecordOf(<<"emptied", LayerSlot>>)
  BY ShortSeqs DEF LayerWaits, LayerDone, LayerSlot
<1> HIDE DEF a, k, d
<1>4. /\ IsSeq(a \o k) /\ Longer(a, a \o k) /\ Len(a \o k) = Len(a) + Len(k)
      /\ \A i \in 1 .. Len(k) : (a \o k)[Len(a) + i] = k[i]
  <2>1. IsSeq(a) /\ IsSeq(k) BY <1>1, <1>2, <1>3
  <2>2. QED BY <2>1, Joined
<1> DEFINE b == a \o k
<1> HIDE DEF b
<1>5. IsSeq(b) /\ (resident => Len(b) = 1 /\ b[1] = x) /\ (~resident => Len(b) = 2 /\ b[1] = a[1] /\ b[2] = x)
  <2>1. 1 \in 1 .. Len(k) BY <1>1
  <2>2. CASE resident BY <1>1, <1>2, <1>4, <2>1, <2>2 DEF b
  <2>3. CASE ~resident
    <3>1. 1 \in 1 .. Len(a) BY <1>3, <2>3
    <3>2. b[1] = a[1] BY <1>4, <3>1 DEF b, Longer
    <3>3. QED BY <1>1, <1>3, <1>4, <2>1, <2>3, <3>2 DEF b
  <2>4. QED BY <2>2, <2>3
<1>6. /\ IsSeq(b \o d) /\ Longer(b, b \o d) /\ Len(b \o d) = Len(b) + Len(d)
      /\ \A i \in 1 .. Len(d) : (b \o d)[Len(b) + i] = d[i]
  <2>1. IsSeq(b) /\ IsSeq(d) BY <1>2, <1>3, <1>5
  <2>2. QED BY <2>1, Joined
<1> DEFINE e == b \o d
<1> HIDE DEF e
<1>7. /\ IsSeq(e) /\ (resident => Len(e) = 1 /\ e[1] = x)
      /\ (~resident => Len(e) = 3 /\ e[1] = a[1] /\ e[2] = x /\ e[3] = d[1])
  <2>1. CASE resident
    <3>1. 1 \in 1 .. Len(b) BY <1>5, <2>1
    <3>2. QED BY <1>2, <1>5, <1>6, <2>1, <3>1 DEF e, Longer
  <2>2. CASE ~resident
    <3>1. 1 \in 1 .. Len(b) /\ 2 \in 1 .. Len(b) /\ 1 \in 1 .. Len(d) BY <1>3, <1>5, <2>2
    <3>2. e[1] = b[1] /\ e[2] = b[2] BY <1>6, <3>1 DEF e, Longer
    <3>0. Len(b) = 2 /\ Len(d) = 1 BY <1>3, <1>5, <2>2, Zenon
    <3>3. e[3] = d[1]
      <4>1. (b \o d)[Len(b) + 1] = d[1] /\ Len(b) + 1 = 3 BY <1>6, <3>0, <3>1
      <4>2. QED BY <4>1 DEF e
    <3>4. Len(b) + Len(d) = 3 BY <3>0
    <3>5. IsSeq(e) /\ Len(e) = Len(b) + Len(d) BY <1>6 DEF e
    <3>6. QED BY <1>5, <2>2, <3>2, <3>3, <3>4, <3>5
  <2>3. QED BY <2>1, <2>2
<1>8. LayerIssue = e BY DEF e, b, a, k, d, LayerIssue
<1>9. QED BY <1>1, <1>2, <1>3, <1>4, <1>7, <1>8 DEF a, k

\* A layer may be issued.
LEMMA LayerIsIssuable ==
  ASSUME EncoderTypeOK
  PROVE  /\ LayerEvents \subseteq Events /\ Issuable(LayerIssue, "compute", LayerEvents)
         /\ \A k \in 1 .. Len(LayerIssue) : LayerIssue[k].kind = "work" => LayerIssue[k] = Work(At(Arena(layer), LayerWeights(layer)), None)
         /\ \A k \in 1 .. Len(LayerIssue) : LayerIssue[k].kind = "work" => k = IF resident THEN 1 ELSE 2
<1> DEFINE x == Work(At(Arena(layer), LayerWeights(layer)), None)
           e == LayerIssue
<1>1. /\ IsSeq(e) /\ Len(e) = (IF resident THEN 1 ELSE 3) /\ (resident => e[1] = x)
      /\ ~resident => /\ e[1] = WaitFor(<<"filled", LayerSlot>>) /\ e[2] = x
                      /\ e[3] = RecordOf(<<"emptied", LayerSlot>>)
  BY LayerItems DEF EncoderTypeOK
<1>2. LayerSlot \in {0, 1} BY LayersAreCounted DEF EncoderTypeOK, LayerSlot
<1>3. /\ <<"filled", LayerSlot>> \in Events /\ <<"emptied", LayerSlot>> \in Events
      /\ <<"emptied", LayerSlot>> \in EventsOf("compute")
  BY <1>2 DEF Events, EventsOf, Signals
<1>4. LayerEvents = IF resident THEN {} ELSE {<<"emptied", LayerSlot>>}
  BY DEF LayerEvents, LayerSlot
<1>5. x.kind = "work" /\ Proper(x, "compute") BY WorkIsProper DEF Work
<1> HIDE DEF x, e
<1>6. CASE resident
  <2>1. Len(e) = 1 /\ e[1] = x /\ \A k \in 1 .. Len(e) : k = 1
    <3>1. \A k \in 1 .. 1 : k = 1 OBVIOUS
    <3>2. QED BY <1>1, <1>6, <3>1
  <2>2. Issuable(e, "compute", LayerEvents) BY <1>1, <1>5, <2>1 DEF Issuable
  <2>3. QED BY <1>3, <1>4, <1>6, <2>1, <2>2 DEF e, x
<1>7. CASE ~resident
  <2>1. Len(e) = 3 /\ \A k \in 1 .. Len(e) : k \in {1, 2, 3}
    <3>1. \A k \in 1 .. 3 : k \in {1, 2, 3} OBVIOUS
    <3>2. QED BY <1>1, <1>7, <3>1
  <2>2. /\ e[1].kind = "wait" /\ e[1].event = <<"filled", LayerSlot>>
        /\ e[3].kind = "record" /\ e[3].event = <<"emptied", LayerSlot>> /\ e[3].at = recorded[<<"emptied", LayerSlot>>] + 1
    BY <1>1, <1>7, ItemKinds
  <2>3. Proper(e[1], "compute") /\ Proper(e[3], "compute") BY <1>3, <2>2 DEF Proper
  <2>4. \A k \in 1 .. Len(e) : Proper(e[k], "compute") BY <1>1, <1>5, <1>7, <2>1, <2>3
  <2>5. ASSUME NEW k \in 1 .. Len(e), e[k].kind = "record"
        PROVE  /\ e[k].event \in LayerEvents /\ e[k].at = recorded[e[k].event] + 1
               /\ \A j \in 1 .. k - 1 : ~Records(e, j, e[k].event, e[j].at)
    <3>1. k = 3 BY <1>1, <1>5, <1>7, <2>1, <2>2, <2>5
    <3>2. \A j \in 1 .. k - 1 : j = 1 \/ j = 2 BY <3>1
    <3>3. \A j \in 1 .. k - 1 : e[j].kind # "record" BY <1>1, <1>5, <1>7, <2>2, <3>2
    <3>4. QED BY <1>4, <1>7, <2>2, <3>1, <3>3 DEF Records
  <2>6. Issuable(e, "compute", LayerEvents) BY <1>1, <2>4, <2>5 DEF Issuable
  <2>7. QED BY <1>1, <1>3, <1>4, <1>7, <2>1, <2>2, <2>6 DEF e, x
<1>8. QED BY <1>6, <1>7

\* A layer is computed.
LEMMA EncodeLayerKeeps == ASSUME EncoderInv, EncodeLayer PROVE EncoderInv'
<1> DEFINE x == Work(At(Arena(layer), LayerWeights(layer)), None)
           a == LayerIssue
           n == IF resident THEN 1 ELSE 2
<1>0. /\ EncoderTypeOK /\ QueueInv /\ EncoderItems(Compute, Copy, resident, direct)
      /\ EncoderPlaces(enPc, Compute, Copy, memory, resident, direct) /\ StagingKept(Copy, memory)
      /\ ResidentFilled(enPc, layer, Copy, memory, resident) /\ LayersCovered(Compute, Copy, memory, recorded)
      /\ LayerReady(enPc, layer, Compute, Copy, memory, resident, recorded)
      /\ enPc = "layer" /\ layer \in Nat /\ layer < NumLayers /\ layer \in Layers
      /\ NumLayers \in Nat /\ resident \in BOOLEAN
  BY LayersAreCounted DEF EncoderInv, EncodeLayer, LayerReady, EncoderTypeOK, Layers
<1>1. /\ Issue(a, <<>>, LayerEvents) /\ memory' = memory /\ resident' = resident /\ direct' = direct
      /\ loads' = loads /\ encodes' = encodes
      /\ \/ layer + 1 = NumLayers /\ enPc' = "sync" /\ layer' = layer
         \/ layer + 1 # NumLayers /\ resident /\ enPc' = enPc /\ layer' = layer + 1
         \/ layer + 1 # NumLayers /\ ~resident /\ enPc' = "ahead" /\ layer' = layer
  BY DEF EncodeLayer, LayerIssue
<1>2. /\ LayerEvents \subseteq Events /\ Issuable(a, "compute", LayerEvents)
      /\ \A k \in 1 .. Len(a) : a[k].kind = "work" => a[k] = x /\ k = n
  BY <1>0, LayerIsIssuable
<1>3. LayerSlot \in {0, 1} /\ Arena(layer) = ArenaOf(resident, layer)
  BY <1>0, LayersAreCounted DEF LayerSlot, Arena, ArenaOf
<1>4. /\ Len(a) = (IF resident THEN 1 ELSE 3) /\ a[n] = x
      /\ ~resident => /\ Awaits(a, 1, <<"filled", LayerSlot>>) /\ a[1].at = recorded[<<"filled", LayerSlot>>]
                      /\ Records(a, 3, <<"emptied", LayerSlot>>, recorded[<<"emptied", LayerSlot>>] + 1)
  BY <1>0, LayerItems, ItemKinds DEF Awaits, Records
<1>5. x.kind = "work" /\ x.gives = None /\ x.wants = At(Arena(layer), LayerWeights(layer))
  BY DEF Work
<1>6. DOMAIN x.wants = {ArenaOf(resident, layer)} /\ x.wants[ArenaOf(resident, layer)] = LayerWeights(layer)
  BY <1>3, <1>5 DEF At
<1>7. recorded' = [e \in Events |-> IF e \in LayerEvents THEN recorded[e] + 1 ELSE recorded[e]]
  BY <1>1 DEF Issue
<1>8. /\ ~resident => recorded'[<<"emptied", LayerSlot>>] = recorded[<<"emptied", LayerSlot>>] + 1
      /\ \A t \in {0, 1} : resident \/ t # LayerSlot => recorded'[<<"emptied", t>>] = recorded[<<"emptied", t>>]
  <2>1. \A t \in {0, 1} : <<"emptied", t>> \in Events BY DEF Events
  <2>2. LayerEvents = IF resident THEN {} ELSE {<<"emptied", LayerSlot>>}
    BY DEF LayerEvents, LayerSlot
  <2>3. QED BY <1>3, <1>7, <2>1, <2>2
<1> HIDE DEF a, x
<1>9. QueueInv' /\ Extends(a, Compute, Compute') /\ Extends(<<>>, Copy, Copy')
  BY <1>0, <1>1, <1>2, NothingIsIssuable, IssueExtends
<1>10. Copy' = Copy
  <2>1. IsSeq(Copy) /\ queue["copy"] = Copy BY <1>0 DEF QueueInv, Copy, Streams
  <2>2. queue'["copy"] = queue["copy"] \o <<>>
    BY <1>0, <1>1, <1>2, IssueKeepsQueue, NothingIsIssuable
  <2>3. Copy \o <<>> = Copy BY <2>1 DEF IsSeq
  <2>4. QED BY <2>1, <2>2, <2>3 DEF Copy
<1>11. /\ Longer(Compute, Compute') /\ SameSignals(Compute, Compute') /\ Len(Compute) \in Nat /\ Len(Compute') \in Nat
       /\ Len(Compute') = Len(Compute) + Len(a)
  BY <1>9, ExtendsIsLonger, LongerHasSignals DEF Extends
<1>12. \A k \in 1 .. Len(a) : Compute'[Len(Compute) + k] = a[k] /\ Len(Compute) + k \in Len(Compute) + 1 .. Len(Compute')
  BY <1>9, ExtendedAt
<1>13. /\ EncoderTypeOK'
       /\ enPc' \in {"sync", "layer", "ahead"}
  <2>1. layer' \in 0 .. NumLayers /\ enPc' \in {"sync", "layer", "ahead"} BY <1>0, <1>1
  <2>2. QED BY <1>0, <1>1, <2>1 DEF EncoderTypeOK
<1>14. EncoderItems(Compute', Copy', resident', direct')
  <2>1. LayerItem(x, resident) BY <1>0, <1>3, <1>5 DEF LayerItem
  <2>2. \A k \in 1 .. Len(a) : LayerItem(a[k], resident) BY <1>2, <2>1 DEF LayerItem
  <2>3. \A i \in 1 .. Len(Compute') : LayerItem(Compute'[i], resident)
    BY <1>0, <1>9, <2>2, ItemsExtended DEF EncoderItems
  <2>4. QED BY <1>0, <1>1, <1>10, <2>3 DEF EncoderItems
<1>15. EncoderPlaces(enPc', Compute', Copy', memory', resident', direct')
  BY <1>0, <1>1, <1>10, <1>13 DEF EncoderPlaces
<1>16. StagingKept(Copy', memory') BY <1>0, <1>1, <1>10
<1>17. ResidentFilled(enPc', layer', Copy', memory', resident')
  BY <1>0, <1>1, <1>10, <1>13 DEF ResidentFilled, Arriving
<1>18. ASSUME NEW i \in 1 .. Len(Compute'), NEW t \in {0, 1}, Wants(Compute', i, Ping(t)), i \notin 1 .. Len(Compute)
       PROVE  i = Len(Compute) + n /\ ~resident /\ t = LayerSlot /\ Compute'[i] = x
  <2>1. i - Len(Compute) \in 1 .. Len(a) /\ Compute'[i] = a[i - Len(Compute)]
    BY <1>9, <1>18, ItemsExtended
  <2>2. i - Len(Compute) = n /\ Compute'[i] = x BY <1>2, <1>18, <2>1 DEF Wants
  <2>3. Ping(t) = ArenaOf(resident, layer) BY <1>6, <1>18, <2>2 DEF Wants
  <2>4. ~resident /\ t = layer % 2 BY <2>3, EncoderPlacesDiffer DEF ArenaOf
  <2>5. i = Len(Compute) + n BY <1>11, <2>2
  <2>6. QED BY <2>2, <2>4, <2>5 DEF LayerSlot
<1>19. LayersCovered(Compute', Copy', memory', recorded')
  <2> SUFFICES ASSUME NEW i \in 1 .. Len(Compute'), NEW t \in {0, 1}, Wants(Compute', i, Ping(t))
               PROVE  /\ Covered(Compute', Copy, memory, i, t, Ping(t), Compute'[i].wants[Ping(t)])
                      /\ \E k \in i + 1 .. Len(Compute') :
                           Records(Compute', k, <<"emptied", t>>, recorded'[<<"emptied", t>>])
    BY <1>1, <1>10 DEF LayersCovered
  <2>1. ASSUME ~resident, t = LayerSlot, i < Len(Compute) + 3
        PROVE  \E k \in i + 1 .. Len(Compute') : Records(Compute', k, <<"emptied", t>>, recorded'[<<"emptied", t>>])
    <3>1. Len(Compute) + 3 \in i + 1 .. Len(Compute') /\ 3 \in 1 .. Len(a) BY <1>4, <1>11, <2>1
    <3>2. Records(Compute', Len(Compute) + 3, <<"emptied", t>>, recorded'[<<"emptied", t>>])
      BY <1>4, <1>8, <1>12, <2>1, <3>1 DEF Records
    <3>3. QED BY <3>1, <3>2
  <2>2. CASE i \in 1 .. Len(Compute)
    <3> DEFINE v == Compute[i].wants[Ping(t)]
    <3>1. Compute'[i] = Compute[i] /\ Wants(Compute, i, Ping(t)) /\ i \in 1 .. Len(Compute) + 1
      BY <1>11, <2>2 DEF Longer, Wants
    <3>2. /\ Covered(Compute, Copy, memory, i, t, Ping(t), v)
          /\ \E k \in i + 1 .. Len(Compute) : Records(Compute, k, <<"emptied", t>>, recorded[<<"emptied", t>>])
      BY <1>0, <2>2, <3>1 DEF LayersCovered
    <3> HIDE DEF v
    <3>3. Covered(Compute', Copy, memory, i, t, Ping(t), v) BY <1>11, <3>1, <3>2, CoveredOnCompute
    <3>4. \E k \in i + 1 .. Len(Compute') : Records(Compute', k, <<"emptied", t>>, recorded'[<<"emptied", t>>])
      <4>1. CASE ~resident /\ t = LayerSlot BY <1>11, <2>1, <2>2, <4>1
      <4>2. CASE resident \/ t # LayerSlot
        <5>1. PICK k \in i + 1 .. Len(Compute) : Records(Compute, k, <<"emptied", t>>, recorded[<<"emptied", t>>])
          BY <3>2
        <5>2. k \in i + 1 .. Len(Compute') /\ Compute'[k] = Compute[k]
          BY <1>11, <2>2, <5>1 DEF Longer
        <5>3. recorded'[<<"emptied", t>>] = recorded[<<"emptied", t>>] BY <1>8, <4>2
        <5>4. QED BY <5>1, <5>2, <5>3 DEF Records
      <4>3. QED BY <4>1, <4>2
    <3>5. QED BY <3>1, <3>3, <3>4 DEF v
  <2>3. CASE i \notin 1 .. Len(Compute)
    <3>1. i = Len(Compute) + 2 /\ ~resident /\ t = LayerSlot /\ Compute'[i] = x BY <1>18, <2>3
    <3>2. Compute'[i].wants[Ping(t)] = LayerWeights(layer) /\ Ping(t) = Ping(layer % 2)
      BY <1>6, <3>1 DEF ArenaOf, LayerSlot
    <3>3. Holds(Copy, memory, t, Ping(t), LayerWeights(layer), recorded[<<"filled", t>>])
      BY <1>0, <3>1 DEF LayerReady, LayerSlot
    <3>4. Len(Compute) + 1 \in 1 .. i - 1 /\ 1 \in 1 .. Len(a) /\ i \in Nat BY <1>4, <1>11, <3>1
    <3>5. Awaits(Compute', Len(Compute) + 1, <<"filled", t>>) /\ Compute'[Len(Compute) + 1].at = recorded[<<"filled", t>>]
      BY <1>4, <1>12, <3>1, <3>4 DEF Awaits
    <3>6. Covered(Compute', Copy, memory, i, t, Ping(t), LayerWeights(layer))
      BY <3>3, <3>4, <3>5, HeldIsCovered
    <3>7. QED BY <1>11, <2>1, <3>1, <3>2, <3>6
  <2>4. QED BY <2>2, <2>3
<1>20. LayerReady(enPc', layer', Compute', Copy', memory', resident', recorded')
  <2>1. ASSUME layer = 0, ~resident PROVE Unread(Compute', 1)
    <3> SUFFICES ASSUME NEW i \in 1 .. Len(Compute'), Wants(Compute', i, Ping(1)) PROVE FALSE
      BY DEF Unread
    <3>1. CASE i \in 1 .. Len(Compute)
      <4>1. Wants(Compute, i, Ping(1)) BY <1>11, <3>1 DEF Longer, Wants
      <4>2. QED BY <1>0, <2>1, <3>1, <4>1 DEF LayerReady, Unread
    <3>2. CASE i \notin 1 .. Len(Compute)
      <4>1. LayerSlot = 1 BY <1>18, <3>2
      <4>2. QED BY <2>1, <4>1 DEF LayerSlot
    <3>3. QED BY <3>1, <3>2
  <2>2. layer + 1 # NumLayers => layer + 1 < NumLayers BY <1>0
  <2>3. layer + 1 # 0 BY <1>0
  <2>4. QED BY <1>0, <1>1, <2>1, <2>2, <2>3 DEF LayerReady
<1>21. QED BY <1>9, <1>13, <1>14, <1>15, <1>16, <1>17, <1>19, <1>20, EncoderInvAfter

\* An item nobody looks at any more.
Dropped(x) == IF x.kind = "work" THEN [x EXCEPT !.wants = None] ELSE x

\* Work whose result nobody wants is still well formed, and no other item changes.
LEMMA DroppedItem ==
  ASSUME NEW x, Proper(x, "compute")
  PROVE  /\ Proper(Dropped(x), "compute") /\ Dropped(x).kind = x.kind
         /\ x.kind = "work" => Dropped(x).wants = None /\ Dropped(x).gives = x.gives
         /\ x.kind # "work" => Dropped(x) = x
<1>1. CASE x.kind # "work" BY <1>1 DEF Dropped
<1>2. CASE x.kind = "work"
  <2>1. x = Work(x.wants, x.gives) BY <1>2 DEF Proper
  <2> DEFINE w == x.wants
             g == x.gives
  <2> HIDE DEF w, g
  <2>2. x = [kind |-> "work", wants |-> w, gives |-> g] BY <2>1 DEF Work, w, g
  <2>3. Dropped(x) = [kind |-> "work", wants |-> None, gives |-> g] BY <2>2 DEF Dropped
  <2>4. Dropped(x) = Work(None, g) BY <2>3 DEF Work
  <2>5. Dropped(x).kind = "work" /\ Dropped(x).wants = None /\ Dropped(x).gives = g BY <2>3
  <2>6. QED BY <1>2, <2>4, <2>5, WorkIsProper DEF g
<1>3. QED BY <1>1, <1>2

\* An abandoned stream has the items it had, its work dropped.
LEMMA AbandonedItems ==
  ASSUME NEW q, IsSeq(q)
  PROVE  /\ IsSeq(Abandoned(q)) /\ Len(Abandoned(q)) = Len(q)
         /\ \A i \in 1 .. Len(q) : Abandoned(q)[i] = Dropped(q[i])
<1>1. Len(q) \in Nat /\ DOMAIN q = 1 .. Len(q) BY IsSeqLen
<1>2. Abandoned(q) = [i \in 1 .. Len(q) |-> Dropped(q[i])] BY <1>1 DEF Abandoned, Dropped
<1> DEFINE n == Len(q)
           d(i) == Dropped(q[i])
           S == {d(i) : i \in 1 .. n}
<1> HIDE DEF n, d
<1>3. [i \in 1 .. n |-> d(i)] \in [1 .. n -> S] /\ n \in Nat BY <1>1 DEF n
<1> HIDE DEF S
<1>4. [i \in 1 .. n |-> d(i)] \in Seq(S) BY <1>3
<1>5. Len([i \in 1 .. n |-> d(i)]) = n BY <1>3
<1>6. \A i \in 1 .. n : [j \in 1 .. n |-> d(j)][i] = d(i) OBVIOUS
<1>7. Abandoned(q) = [i \in 1 .. n |-> d(i)] BY <1>2 DEF n, d
<1>8. QED BY <1>4, <1>5, <1>6, <1>7 DEF IsSeq, n, d

\* A layer throws, its wait issued, and its kernels or not.
LEMMA LayerThrowsKeeps == ASSUME EncoderInv, LayerThrows PROVE EncoderInv'
<1>0. /\ EncoderTypeOK /\ QueueInv /\ EncoderItems(Compute, Copy, resident, direct)
      /\ EncoderPlaces(enPc, Compute, Copy, memory, resident, direct) /\ StagingKept(Copy, memory)
      /\ ResidentFilled(enPc, layer, Copy, memory, resident)
  BY DEF EncoderInv
<1>1. /\ enPc = "layer" /\ enPc' = "loaded"
      /\ UNCHANGED <<running, recorded, reached, memory, resident, direct, layer, loads, encodes>>
  BY DEF LayerThrows
<1>2. PICK started \in BOOLEAN :
        queue' = [queue EXCEPT !["compute"] =
                    Abandoned(@ \o LayerWaits \o (IF started THEN LayerKernels ELSE <<>>))]
  BY DEF LayerThrows
<1> DEFINE k == IF started THEN LayerKernels ELSE <<>>
           q == Compute \o LayerWaits \o k
<1>3. queue = [s \in Streams |-> queue[s]] /\ "compute" \in Streams /\ "copy" \in Streams
  BY <1>0 DEF QueueInv, Streams
<1>4. queue' = [s \in Streams |-> queue'[s]] /\ Compute' = Abandoned(q) /\ Copy' = Copy
  BY <1>2, <1>3 DEF Compute, Copy
<1>5. /\ IsSeq(LayerWaits) /\ IsSeq(k) /\ Len(k) \in {0, 1} /\ Len(LayerWaits) \in {0, 1}
      /\ \A i \in 1 .. Len(LayerWaits) : LayerWaits[i] = WaitFor(<<"filled", LayerSlot>>)
      /\ \A i \in 1 .. Len(k) : k[i] = Work(At(Arena(layer), LayerWeights(layer)), None)
  <2>1. IsSeq(k) /\ Len(k) \in {0, 1} /\ \A i \in 1 .. Len(k) : k[i] = Work(At(Arena(layer), LayerWeights(layer)), None)
    <3>1. CASE started
      <4>1. IsSeq(k) /\ Len(k) = 1 /\ k[1] = Work(At(Arena(layer), LayerWeights(layer)), None)
        BY <1>0, <3>1, LayerItems DEF EncoderTypeOK
      <4>2. \A i \in 1 .. 1 : i = 1 OBVIOUS
      <4>3. QED BY <4>1, <4>2
    <3>2. CASE ~started
      <4>1. k = <<>> /\ Len(k) = 0 /\ IsSeq(k) BY <3>2, ShortSeqs
      <4>2. \A i \in 1 .. 0 : FALSE OBVIOUS
      <4>3. QED BY <4>1, <4>2
    <3>3. QED BY <3>1, <3>2
  <2>2. /\ IsSeq(LayerWaits) /\ Len(LayerWaits) \in {0, 1}
        /\ \A i \in 1 .. Len(LayerWaits) : LayerWaits[i] = WaitFor(<<"filled", LayerSlot>>)
    <3>1. CASE resident
      <4>1. IsSeq(LayerWaits) /\ Len(LayerWaits) = 0 BY <1>0, <3>1, LayerItems DEF EncoderTypeOK
      <4>2. \A i \in 1 .. 0 : FALSE OBVIOUS
      <4>3. QED BY <4>1, <4>2
    <3>2. CASE ~resident
      <4>1. IsSeq(LayerWaits) /\ Len(LayerWaits) = 1 /\ LayerWaits[1] = WaitFor(<<"filled", LayerSlot>>)
        BY <1>0, <3>2, LayerItems DEF EncoderTypeOK
      <4>2. \A i \in 1 .. 1 : i = 1 OBVIOUS
      <4>3. QED BY <4>1, <4>2
    <3>3. QED BY <3>1, <3>2
  <2>3. QED BY <2>1, <2>2
<1>6. LayerSlot \in {0, 1} /\ <<"filled", LayerSlot>> \in Events
  BY <1>0, LayersAreCounted DEF LayerSlot, Events, EncoderTypeOK
<1> HIDE DEF k
<1>7. IsSeq(Compute) /\ Len(Compute) \in Nat BY <1>0, IsSeqLen DEF QueueInv, Compute, Streams
<1>8. /\ IsSeq(q) /\ Longer(Compute, q) /\ Len(q) \in Nat /\ Len(Compute) <= Len(q)
      /\ \A i \in Len(Compute) + 1 .. Len(q) :
           q[i] = WaitFor(<<"filled", LayerSlot>>) \/ q[i] = Work(At(Arena(layer), LayerWeights(layer)), None)
  <2> DEFINE b == Compute \o LayerWaits
  <2>1. /\ IsSeq(b) /\ Longer(Compute, b) /\ Len(b) = Len(Compute) + Len(LayerWaits)
        /\ \A i \in Len(Compute) + 1 .. Len(b) :
             i - Len(Compute) \in 1 .. Len(LayerWaits) /\ b[i] = LayerWaits[i - Len(Compute)]
    BY <1>5, <1>7, Joined
  <2> HIDE DEF b
  <2>2. /\ IsSeq(b \o k) /\ Longer(b, b \o k) /\ Len(b \o k) = Len(b) + Len(k)
        /\ \A i \in Len(b) + 1 .. Len(b \o k) : i - Len(b) \in 1 .. Len(k) /\ (b \o k)[i] = k[i - Len(b)]
    BY <1>5, <2>1, Joined
  <2>3. q = b \o k BY DEF b
  <2> HIDE DEF q
  <2>4. Len(q) \in Nat /\ Len(Compute) <= Len(b) /\ Len(b) <= Len(q) /\ Len(b) \in Nat
    BY <1>5, <1>7, <2>1, <2>2, <2>3
  <2>5. Longer(Compute, q) BY <1>7, <2>1, <2>2, <2>3, <2>4 DEF Longer
  <2>6. ASSUME NEW i \in Len(Compute) + 1 .. Len(q)
        PROVE  q[i] = WaitFor(<<"filled", LayerSlot>>) \/ q[i] = Work(At(Arena(layer), LayerWeights(layer)), None)
    <3>1. i \in Len(Compute) + 1 .. Len(b) \/ i \in Len(b) + 1 .. Len(q) BY <1>7, <2>4
    <3>2. CASE i \in Len(Compute) + 1 .. Len(b)
      <4>1. q[i] = b[i]
        <5>1. i \in 1 .. Len(b) BY <1>7, <2>4, <3>2
        <5>2. QED BY <2>2, <2>3, <5>1 DEF Longer
      <4>2. QED BY <1>5, <2>1, <3>2, <4>1
    <3>3. CASE i \in Len(b) + 1 .. Len(q) BY <1>5, <2>2, <2>3, <3>3
    <3>4. QED BY <3>1, <3>2, <3>3
  <2>7. IsSeq(q) BY <2>2, <2>3
  <2>8. Len(Compute) <= Len(q) BY <1>7, <2>4
  <2>9. QED BY <2>4, <2>5, <2>6, <2>7, <2>8
<1> HIDE DEF q
<1>9. IsSeq(Compute') /\ Len(Compute') = Len(q) /\ \A i \in 1 .. Len(q) : Compute'[i] = Dropped(q[i])
  BY <1>4, <1>8, AbandonedItems
<1>10. \A i \in 1 .. Len(q) : Proper(q[i], "compute") /\ (i \notin 1 .. Len(Compute) => q[i].kind # "record")
  <2> TAKE i \in 1 .. Len(q)
  <2>1. CASE i \in 1 .. Len(Compute) BY <1>0, <1>8, <2>1 DEF QueueInv, Compute, Streams, Longer
  <2>2. CASE i \in Len(Compute) + 1 .. Len(q)
    <3>1. Proper(WaitFor(<<"filled", LayerSlot>>), "compute") /\ WaitFor(<<"filled", LayerSlot>>).kind = "wait"
      BY <1>6 DEF Proper, WaitFor
    <3>2. /\ Proper(Work(At(Arena(layer), LayerWeights(layer)), None), "compute")
          /\ Work(At(Arena(layer), LayerWeights(layer)), None).kind = "work"
      BY WorkIsProper DEF Work
    <3>3. QED BY <1>7, <1>8, <2>2, <3>1, <3>2
  <2>3. QED BY <1>7, <1>8, <2>1, <2>2
<1>11. \A i \in 1 .. Len(q) : /\ Proper(Compute'[i], "compute") /\ Compute'[i].kind = q[i].kind
                              /\ q[i].kind = "work" => Compute'[i].wants = None /\ Compute'[i].gives = q[i].gives
                              /\ q[i].kind # "work" => Compute'[i] = q[i]
  BY <1>9, <1>10, DroppedItem
<1>12. RecordsAhead(Compute) BY <1>0 DEF QueueInv, Compute, Streams
<1>13. ASSUME NEW i \in 1 .. Len(q), q[i].kind = "record" PROVE i \in 1 .. Len(Compute) /\ Compute'[i] = Compute[i]
  <2>1. i \in 1 .. Len(Compute) BY <1>10, <1>13
  <2>2. q[i] = Compute[i] BY <1>8, <2>1 DEF Longer
  <2>3. Compute'[i] = q[i] BY <1>11, <1>13
  <2>4. QED BY <2>1, <2>2, <2>3
<1>14. RecordsAhead(queue["compute"])'
  <2> SUFFICES ASSUME NEW i \in 1 .. Len(Compute'), Compute'[i].kind = "record"
               PROVE  /\ Compute'[i].at \in reached'[Compute'[i].event] + 1 .. recorded'[Compute'[i].event]
                      /\ \A j \in 1 .. i - 1 : Records(Compute', j, Compute'[i].event, Compute'[j].at)
                                                 => Compute'[j].at < Compute'[i].at
    BY DEF RecordsAhead, Records, Compute
  <2>1. i \in 1 .. Len(q) /\ q[i].kind = "record" BY <1>9, <1>11
  <2>2. i \in 1 .. Len(Compute) /\ Compute'[i] = Compute[i] BY <1>13, <2>1
  <2>3. /\ Compute[i].at \in reached[Compute[i].event] + 1 .. recorded[Compute[i].event]
        /\ \A j \in 1 .. i - 1 : Records(Compute, j, Compute[i].event, Compute[j].at) => Compute[j].at < Compute[i].at
    BY <1>12, <2>2 DEF RecordsAhead
  <2>4. ASSUME NEW j \in 1 .. i - 1, Records(Compute', j, Compute'[i].event, Compute'[j].at)
        PROVE  Compute'[j].at < Compute'[i].at
    <3>1. j \in 1 .. Len(q) /\ q[j].kind = "record"
      <4>1. j \in 1 .. Len(q) BY <1>8, <2>1
      <4>2. QED BY <1>11, <2>4, <4>1 DEF Records
    <3>2. Compute'[j] = Compute[j] BY <1>13, <3>1
    <3>3. QED BY <2>2, <2>3, <2>4, <3>2 DEF Records
  <2>5. QED BY <1>1, <2>2, <2>3, <2>4
<1>15. running["compute"] => Runs("compute", "work")'
  <2> HAVE running["compute"]
  <2>1. Compute # <<>> /\ Head(Compute).kind = "work" BY <1>0 DEF QueueInv, Runs, Compute, Streams
  <2>2. Compute[1].kind = "work" /\ 1 \in 1 .. Len(Compute) BY <1>7, <2>1, Beheaded, IsSeqLen
  <2>3. 1 \in 1 .. Len(q) /\ q[1] = Compute[1] BY <1>7, <1>8, <2>2 DEF Longer
  <2>4. Compute'[1].kind = "work" /\ Compute' # <<>>
    <3>1. Compute'[1].kind = "work" BY <1>11, <2>2, <2>3
    <3>2. Len(Compute') # 0 BY <1>7, <1>8, <1>9, <2>2
    <3>3. QED BY <3>1, <3>2, ShortSeqs
  <2>5. Head(Compute') = Compute'[1] BY <1>9, <2>4, Beheaded
  <2>6. QED BY <2>4, <2>5 DEF Runs, Compute
<1>16. QueueInv'
  <2>1. /\ IsSeq(queue["copy"]) /\ (running["copy"] => Runs("copy", "work"))
        /\ \A i \in 1 .. Len(queue["copy"]) : Proper(queue["copy"][i], "copy")
        /\ RecordsAhead(queue["copy"])
    BY <1>0, <1>3 DEF QueueInv
  <2>2. queue'["copy"] = queue["copy"] BY <1>4 DEF Copy
  <2>3. /\ IsSeq(queue'["copy"]) /\ (running'["copy"] => Runs("copy", "work")')
        /\ \A i \in 1 .. Len(queue'["copy"]) : Proper(queue'["copy"][i], "copy")
        /\ RecordsAhead(queue["copy"])'
    BY <1>1, <2>1, <2>2 DEF Runs, RecordsAhead, Records
  <2>4. /\ IsSeq(queue'["compute"]) /\ (running'["compute"] => Runs("compute", "work")')
        /\ \A i \in 1 .. Len(queue'["compute"]) : Proper(queue'["compute"][i], "compute")
        /\ RecordsAhead(queue["compute"])'
    BY <1>1, <1>9, <1>11, <1>14, <1>15 DEF Compute
  <2>5. \A s \in Streams : /\ IsSeq(queue'[s]) /\ (running'[s] => Runs(s, "work")')
                           /\ \A i \in 1 .. Len(queue'[s]) : Proper(queue'[s][i], s)
                           /\ RecordsAhead(queue[s])'
    BY <2>3, <2>4 DEF Streams
  <2>6. /\ running' \in [Streams -> BOOLEAN] /\ recorded' \in [Events -> Nat] /\ reached' \in [Events -> Nat]
        /\ \A e \in Events : reached'[e] <= recorded'[e]
    BY <1>0, <1>1 DEF QueueInv
  <2>7. QED BY <1>4, <2>5, <2>6 DEF QueueInv
<1>17. \A i \in 1 .. Len(Compute') : \A p : ~Wants(Compute', i, p) BY <1>9, <1>11 DEF Wants, None
<1>18. EncoderTypeOK' BY <1>0, <1>1 DEF EncoderTypeOK
<1>19. EncoderItems(Compute', Copy', resident', direct')
  <2>1. \A i \in 1 .. Len(Compute') : LayerItem(Compute'[i], resident)
    <3> SUFFICES ASSUME NEW i \in 1 .. Len(q), Compute'[i].kind = "work"
                 PROVE  Compute'[i].gives = None /\ Compute'[i].wants = None
      BY <1>9 DEF LayerItem
    <3>1. q[i].kind = "work" /\ Compute'[i].gives = q[i].gives /\ Compute'[i].wants = None BY <1>11
    <3>2. CASE i \in 1 .. Len(Compute)
      <4>1. q[i] = Compute[i] /\ LayerItem(Compute[i], resident)
        BY <1>0, <1>8, <3>2 DEF Longer, EncoderItems
      <4>2. QED BY <3>1, <4>1 DEF LayerItem
    <3>3. CASE i \in Len(Compute) + 1 .. Len(q)
      <4>1. WaitFor(<<"filled", LayerSlot>>).kind # "work" BY DEF WaitFor
      <4>2. q[i] = Work(At(Arena(layer), LayerWeights(layer)), None) BY <1>8, <3>1, <3>3, <4>1
      <4>3. QED BY <3>1, <4>2 DEF Work
    <3>4. QED BY <1>7, <1>8, <3>2, <3>3
  <2>2. QED BY <1>0, <1>1, <1>4, <2>1 DEF EncoderItems
<1>20. /\ EncoderPlaces(enPc', Compute', Copy', memory', resident', direct') /\ StagingKept(Copy', memory')
       /\ ResidentFilled(enPc', layer', Copy', memory', resident')
  BY <1>0, <1>1, <1>4 DEF EncoderPlaces, ResidentFilled, Arriving
<1>21. /\ LayersCovered(Compute', Copy', memory', recorded')
       /\ LayerReady(enPc', layer', Compute', Copy', memory', resident', recorded')
  BY <1>1, <1>17 DEF LayersCovered, LayerReady, Unread
<1>22. QED BY <1>16, <1>18, <1>19, <1>20, <1>21, EncoderInvAfter

\* Every step of the encoder's host code keeps the invariant.
LEMMA EncoderStepKeepsInv == ASSUME EncoderInv, EncoderNext PROVE EncoderInv'
BY LoadKeeps, ResetKeeps, BeginEncodeKeeps, UploadResidentKeeps, FinishLoadKeeps, UploadFirstKeeps, EncodeLayerKeeps,
   UploadAheadKeeps, EncodeReturnsKeeps, LayerThrowsKeeps DEF EncoderNext, EncoderStep

\* So does every step of the device.
LEMMA DeviceKeepsEncoder ==
  ASSUME EncoderInv, NEW s \in Streams, StreamStep(s), UNCHANGED enVars PROVE EncoderInv'
<1>0. /\ EncoderTypeOK /\ QueueInv /\ EncoderItems(Compute, Copy, resident, direct)
      /\ EncoderPlaces(enPc, Compute, Copy, memory, resident, direct) /\ StagingKept(Copy, memory)
      /\ ResidentFilled(enPc, layer, Copy, memory, resident) /\ LayersCovered(Compute, Copy, memory, recorded)
      /\ LayerReady(enPc, layer, Compute, Copy, memory, resident, recorded)
  BY DEF EncoderInv
<1>1. QueueInv' /\ (Starting(s) \/ Finishing(s) \/ Passing(s)) BY <1>0, StreamStepKeepsQueue
<1>2. UNCHANGED <<enPc, resident, direct, layer, loads, encodes>> BY DEF enVars
<1>3. recorded' = recorded BY <1>1 DEF Starting, Finishing, Passing, Pop
<1>4. /\ DOMAIN memory' = DOMAIN memory /\ Len(Compute) \in Nat /\ Len(Copy) \in Nat
      /\ queue[s] # <<>> /\ 1 \in 1 .. Len(queue[s]) /\ Len(Compute') \in Nat /\ Len(Copy') \in Nat
      /\ \/ Starting(s) /\ Compute' = Compute /\ Copy' = Copy
         \/ /\ s = "compute" /\ (Finishing(s) \/ Passing(s)) /\ Copy' = Copy
            /\ Len(Compute') = Len(Compute) - 1 /\ \A k \in 1 .. Len(Compute') : Compute'[k] = Compute[k + 1]
         \/ /\ s = "copy" /\ (Finishing(s) \/ Passing(s)) /\ Compute' = Compute
            /\ Len(Copy') = Len(Copy) - 1 /\ \A k \in 1 .. Len(Copy') : Copy'[k] = Copy[k + 1]
  BY <1>0, <1>1, DeviceQueues
<1>5. /\ enPc # "unloaded" /\ (enPc = "upload" => s = "copy") /\ (resident /\ enPc # "upload" => s = "compute")
  BY <1>0, <1>4 DEF EncoderPlaces, Compute, Copy, Streams
<1>6. ASSUME NEW i \in 1 .. Len(Compute')
      PROVE  \E j \in 1 .. Len(Compute) :
               /\ Compute'[i] = Compute[j]
               /\ \/ Compute' = Compute /\ j = i
                  \/ Compute' # Compute /\ j = i + 1 /\ j # 1 /\ Len(Compute') = Len(Compute) - 1
                     /\ \A k \in 1 .. Len(Compute') : Compute'[k] = Compute[k + 1]
  <2>1. CASE Compute' = Compute BY <2>1
  <2>2. CASE Compute' # Compute
    <3>1. Len(Compute') = Len(Compute) - 1 /\ \A k \in 1 .. Len(Compute') : Compute'[k] = Compute[k + 1]
      BY <1>4, <2>2
    <3>2. i + 1 \in 1 .. Len(Compute) /\ i + 1 # 1 BY <1>4, <3>1
    <3>3. QED BY <2>2, <3>1, <3>2
  <2>3. QED BY <2>1, <2>2
<1>7. ASSUME NEW c \in 1 .. Len(Copy')
      PROVE  \E d \in 1 .. Len(Copy) :
               /\ Copy'[c] = Copy[d]
               /\ \/ Copy' = Copy /\ d = c
                  \/ Copy' # Copy /\ d = c + 1 /\ Len(Copy') = Len(Copy) - 1
                     /\ \A k \in 1 .. Len(Copy') : Copy'[k] = Copy[k + 1]
  <2>1. CASE Copy' = Copy BY <2>1
  <2>2. CASE Copy' # Copy
    <3>1. Len(Copy') = Len(Copy) - 1 /\ \A k \in 1 .. Len(Copy') : Copy'[k] = Copy[k + 1]
      BY <1>4, <2>2
    <3>2. c + 1 \in 1 .. Len(Copy) BY <1>4, <3>1
    <3>3. QED BY <2>2, <3>1, <3>2
  <2>3. QED BY <2>1, <2>2
<1>8. EncoderTypeOK' BY <1>0, <1>2 DEF EncoderTypeOK
<1>9. EncoderItems(Compute', Copy', resident', direct')
  <2>1. \A i \in 1 .. Len(Compute') : LayerItem(Compute'[i], resident)
    BY <1>0, <1>6 DEF EncoderItems
  <2>2. \A c \in 1 .. Len(Copy') : UploadItemOf(Copy'[c], resident, direct)
    BY <1>0, <1>7 DEF EncoderItems
  <2>3. QED BY <1>2, <2>1, <2>2 DEF EncoderItems
<1>10. /\ \A p : ~Gives(Compute, 1, p) \/ s # "compute"
       /\ \A p : Gives(queue[s], 1, p) => s = "copy" /\ \E l \in Layers : p = ArenaOf(resident, l)
  <2>1. CASE s = "compute"
    <3>1. 1 \in 1 .. Len(Compute) /\ queue[s] = Compute BY <1>4, <2>1 DEF Compute
    <3>2. QED BY <1>0, <3>1, EncoderReads
  <2>2. CASE s = "copy"
    <3>1. 1 \in 1 .. Len(Copy) /\ queue[s] = Copy BY <1>4, <2>2 DEF Copy
    <3>2. QED BY <1>0, <2>2, <3>1, EncoderReads
  <2>3. QED BY <2>1, <2>2 DEF Streams
<1>11. \A p \in DOMAIN memory : ~Gives(queue[s], 1, p) => memory'[p] = memory[p]
  BY <1>1 DEF Starting, Finishing, Passing, Gives
<1>12. EncoderPlaces(enPc', Compute', Copy', memory', resident', direct')
  <2>1. direct => Mapping \in DOMAIN memory' /\ memory'[Mapping] = File
    <3>1. ~Gives(queue[s], 1, Mapping) BY <1>10, EncoderPlacesDiffer DEF ArenaOf
    <3>2. QED BY <1>0, <1>4, <1>5, <1>11, <3>1 DEF EncoderPlaces
  <2>2. enPc = "upload" => resident /\ Compute' = <<>> BY <1>0, <1>4, <1>5 DEF EncoderPlaces
  <2>3. resident /\ enPc # "upload" => Copy' = <<>> BY <1>0, <1>4, <1>5 DEF EncoderPlaces
  <2>4. QED BY <1>0, <1>2, <1>4, <1>5, <2>1, <2>2, <2>3 DEF EncoderPlaces
<1>13. StagingKept(Copy', memory')
  <2> SUFFICES ASSUME NEW c \in 1 .. Len(Copy'), NEW t \in {0, 1}, Wants(Copy', c, Staging(t))
               PROVE  /\ memory'[Staging(t)] = Copy'[c].wants[Staging(t)]
                      /\ \E r \in c + 1 .. Len(Copy') : Records(Copy', r, <<"filled", t>>, Copy'[r].at)
    BY DEF StagingKept
  <2>1. PICK d \in 1 .. Len(Copy) :
               /\ Copy'[c] = Copy[d]
               /\ \/ Copy' = Copy /\ d = c
                  \/ Copy' # Copy /\ d = c + 1 /\ Len(Copy') = Len(Copy) - 1
                     /\ \A k \in 1 .. Len(Copy') : Copy'[k] = Copy[k + 1]
    BY <1>7
  <2>2. Wants(Copy, d, Staging(t)) BY <2>1 DEF Wants
  <2>3. /\ memory[Staging(t)] = Copy[d].wants[Staging(t)]
        /\ \E r \in d + 1 .. Len(Copy) : Records(Copy, r, <<"filled", t>>, Copy[r].at)
    BY <1>0, <2>2 DEF StagingKept
  <2>4. memory'[Staging(t)] = memory[Staging(t)]
    <3>1. ~Gives(queue[s], 1, Staging(t)) BY <1>10, EncoderPlacesDiffer DEF ArenaOf
    <3>2. ~direct BY <1>0, <2>2, EncoderReads, EncoderPlacesDiffer
    <3>3. ~resident \/ enPc = "upload"
      <4>1. Copy # <<>> BY <2>1, ShortSeqs
      <4>2. QED BY <1>0, <4>1 DEF EncoderPlaces
    <3>4. Staging(t) \in DOMAIN memory BY <1>0, <1>5, <3>2, <3>3 DEF EncoderPlaces
    <3>5. QED BY <1>11, <3>1, <3>4
  <2>5. PICK r \in d + 1 .. Len(Copy) : Records(Copy, r, <<"filled", t>>, Copy[r].at) BY <2>3
  <2>6. \E k \in c + 1 .. Len(Copy') : Copy'[k] = Copy[r]
    <3>1. CASE Copy' = Copy BY <2>1, <3>1
    <3>2. CASE Copy' # Copy
      <4>1. r - 1 \in c + 1 .. Len(Copy') /\ r - 1 \in 1 .. Len(Copy') /\ (r - 1) + 1 = r
        BY <1>4, <2>1, <3>2
      <4>2. QED BY <2>1, <3>2, <4>1
    <3>3. QED BY <3>1, <3>2
  <2>7. QED BY <2>1, <2>3, <2>4, <2>5, <2>6 DEF Records
<1>14. ResidentFilled(enPc', layer', Copy', memory', resident')
  <2> SUFFICES ASSUME resident, NEW m \in Arriving(enPc, layer)
               PROVE  InStream(Copy', memory', Len(Copy') + 1, Resident(m), LayerWeights(m))
    BY <1>2 DEF ResidentFilled
  <2>1. InStream(Copy, memory, Len(Copy) + 1, Resident(m), LayerWeights(m))
    BY <1>0, <1>5 DEF ResidentFilled
  <2>2. m \in Layers BY <1>0, LayersAreCounted DEF Arriving, Layers, EncoderTypeOK
  <2>3. Resident(m) \in DOMAIN memory BY <1>0, <1>5, <2>2 DEF EncoderPlaces, ArenaOf
  <2> DEFINE p == Resident(m)
             v == LayerWeights(m)
  <2> HIDE DEF p, v
  <2>4. InStream(Copy, memory, Len(Copy) + 1, p, v) /\ p \in DOMAIN memory BY <2>1, <2>3 DEF p, v
  <2>5. CASE s = "compute"
    <3>1. Copy' = Copy BY <1>4, <2>5
    <3>2. memory'[p] = memory[p] BY <1>10, <1>11, <2>4, <2>5
    <3>3. QED BY <2>4, <3>1, <3>2 DEF InStream, p, v
  <2>6. CASE s = "copy" /\ Starting(s)
    <3>1. "copy" \in Streams /\ Starting("copy") /\ queue["copy"] = Copy /\ queue'["copy"] = Copy' /\ Copy' = Copy
      BY <2>6 DEF Streams, Copy, Starting
    <3>2. Len(Copy) + 1 \in 1 .. Len(queue["copy"]) + 1 /\ Len(Copy) + 1 # 1 BY <1>4, <2>6, <3>1
    <3>3. InStream(queue'["copy"], memory', Len(Copy) + 1, p, v)
      BY <1>0, <2>4, <3>1, <3>2, InStreamStarted
    <3>4. QED BY <3>1, <3>3 DEF p, v
  <2>7. CASE s = "copy" /\ (Finishing(s) \/ Passing(s))
    <3>1. /\ "copy" \in Streams /\ (Finishing("copy") \/ Passing("copy"))
          /\ queue["copy"] = Copy /\ queue'["copy"] = Copy'
      BY <2>7 DEF Streams, Copy
    <3>2. Len(Copy') = Len(Copy) - 1
      <4>1. Popped(queue["copy"], queue'["copy"]) BY <3>1 DEF Finishing, Passing, Pop
      <4>2. QED BY <3>1, <4>1 DEF Popped
    <3>3. Len(Copy) + 1 \in 2 .. Len(queue["copy"]) + 1 /\ (Len(Copy) + 1) - 1 = Len(Copy') + 1
      BY <1>4, <2>7, <3>1, <3>2
    <3>4. InStream(queue'["copy"], memory', (Len(Copy) + 1) - 1, p, v)
      BY <1>0, <2>4, <3>1, <3>3, InStreamPopped
    <3>5. QED BY <3>1, <3>3, <3>4 DEF p, v
  <2>8. QED BY <1>1, <2>5, <2>6, <2>7 DEF Streams
<1>15. ASSUME NEW i \in 1 .. Len(Compute), NEW t \in {0, 1}, Wants(Compute, i, Ping(t)) PROVE Ping(t) \in DOMAIN memory
  BY <1>0, <1>5, <1>15, EncoderReads DEF EncoderPlaces
<1>16. LayersCovered(Compute', Copy', memory', recorded')
  <2> SUFFICES ASSUME NEW i \in 1 .. Len(Compute'), NEW t \in {0, 1}, Wants(Compute', i, Ping(t))
               PROVE  /\ Covered(Compute', Copy', memory', i, t, Ping(t), Compute'[i].wants[Ping(t)])
                      /\ \E k \in i + 1 .. Len(Compute') : Records(Compute', k, <<"emptied", t>>, recorded[<<"emptied", t>>])
    BY <1>3 DEF LayersCovered
  <2>1. PICK j \in 1 .. Len(Compute) :
               /\ Compute'[i] = Compute[j]
               /\ \/ Compute' = Compute /\ j = i
                  \/ Compute' # Compute /\ j = i + 1 /\ j # 1 /\ Len(Compute') = Len(Compute) - 1
                     /\ \A k \in 1 .. Len(Compute') : Compute'[k] = Compute[k + 1]
    BY <1>6
  <2>2. Wants(Compute, j, Ping(t)) /\ Ping(t) \in DOMAIN memory /\ j \in 1 .. Len(Compute) + 1
    BY <1>4, <1>15, <2>1 DEF Wants
  <2> DEFINE v == Compute[j].wants[Ping(t)]
  <2>3. /\ Covered(Compute, Copy, memory, j, t, Ping(t), v)
        /\ \E k \in j + 1 .. Len(Compute) : Records(Compute, k, <<"emptied", t>>, recorded[<<"emptied", t>>])
    BY <1>0, <2>2 DEF LayersCovered
  <2>4. v = Compute'[i].wants[Ping(t)] BY <2>1
  <2> HIDE DEF v
  <2>5. /\ Compute' = Compute => Covered(Compute', Copy', memory', j, t, Ping(t), v)
        /\ Compute' # Compute /\ j # 1 => Covered(Compute', Copy', memory', j - 1, t, Ping(t), v)
    BY <1>0, <1>1, <1>10, <2>2, <2>3, DeviceKeepsCovered
  <2>6. j = i + 1 => j - 1 = i OBVIOUS
  <2>7. Covered(Compute', Copy', memory', i, t, Ping(t), Compute'[i].wants[Ping(t)])
    BY <2>1, <2>4, <2>5, <2>6
  <2>8. PICK r \in j + 1 .. Len(Compute) : Records(Compute, r, <<"emptied", t>>, recorded[<<"emptied", t>>])
    BY <2>3
  <2>9. \E k \in i + 1 .. Len(Compute') : Compute'[k] = Compute[r]
    <3>1. CASE Compute' = Compute BY <2>1, <3>1
    <3>2. CASE Compute' # Compute
      <4>1. r - 1 \in i + 1 .. Len(Compute') /\ r - 1 \in 1 .. Len(Compute') /\ (r - 1) + 1 = r
        BY <1>4, <2>1, <3>2
      <4>2. QED BY <2>1, <3>2, <4>1
    <3>3. QED BY <3>1, <3>2
  <2>10. QED BY <2>7, <2>8, <2>9 DEF Records
<1>17. LayerReady(enPc', layer', Compute', Copy', memory', resident', recorded')
  <2>1. \A t : Unread(Compute, t) => Unread(Compute', t) BY <1>6 DEF Unread, Wants
  <2>2. ASSUME enPc = "layer", ~resident
        PROVE  Holds(Copy', memory', layer % 2, Ping(layer % 2), LayerWeights(layer), recorded[<<"filled", layer % 2>>])
    <3>1. layer \in Layers BY <1>0, <2>2, LayersAreCounted DEF LayerReady, Layers, EncoderTypeOK
    <3>2. Ping(layer % 2) \in DOMAIN memory BY <1>0, <1>5, <2>2, <3>1 DEF EncoderPlaces, ArenaOf
    <3> DEFINE p == Ping(layer % 2)
               v == LayerWeights(layer)
               n == recorded[<<"filled", layer % 2>>]
               t == layer % 2
    <3>3. Holds(Copy, memory, t, p, v, n) /\ p \in DOMAIN memory BY <1>0, <2>2, <3>2 DEF LayerReady
    <3> HIDE DEF p, v, n, t
    <3>4. Holds(Copy', memory', t, p, v, n) BY <1>0, <1>1, <1>10, <3>3, DeviceKeepsHeld
    <3>5. QED BY <3>4 DEF p, v, n, t
  <2>3. QED BY <1>0, <1>2, <1>3, <2>1, <2>2 DEF LayerReady
<1>18. QED BY <1>1, <1>8, <1>9, <1>12, <1>13, <1>14, <1>16, <1>17, EncoderInvAfter

\* What the encoder's invariant says of the running item and of those that are queued.
LEMMA EncoderIsOrdered == EncoderInv => StreamsAreOrdered
<1> SUFFICES ASSUME EncoderInv PROVE WorkFindsItsInput /\ NothingUsesFreedMemory
  BY DEF StreamsAreOrdered
<1>0. /\ QueueInv /\ EncoderItems(Compute, Copy, resident, direct)
      /\ EncoderPlaces(enPc, Compute, Copy, memory, resident, direct) /\ StagingKept(Copy, memory)
      /\ ResidentFilled(enPc, layer, Copy, memory, resident) /\ LayersCovered(Compute, Copy, memory, recorded)
  BY DEF EncoderInv
<1>1. /\ IsSeq(Compute) /\ IsSeq(Copy) /\ queue["compute"] = Compute /\ queue["copy"] = Copy
      /\ Len(<<>>) = 0
  BY <1>0, ShortSeqs DEF QueueInv, Compute, Copy, Streams
<1>2. /\ \A i \in 1 .. Len(Compute) : enPc # "unloaded" /\ enPc # "upload"
      /\ \A c \in 1 .. Len(Copy) : enPc # "unloaded" /\ (~resident \/ enPc = "upload")
  <2>1. \A i \in 1 .. Len(Compute) : Compute # <<>> BY <1>1
  <2>2. \A c \in 1 .. Len(Copy) : Copy # <<>> BY <1>1
  <2>3. QED BY <1>0, <2>1, <2>2 DEF EncoderPlaces
<1>3. ASSUME NEW i \in 1 .. Len(Compute), Compute[i].kind = "work" PROVE Places(Compute[i]) \subseteq DOMAIN memory
  <2>1. \A l \in Layers : ArenaOf(resident, l) \in DOMAIN memory BY <1>0, <1>2 DEF EncoderPlaces
  <2>2. \A p \in DOMAIN Compute[i].wants : p \in DOMAIN memory
    BY <1>0, <1>3, <2>1, EncoderReads DEF Wants
  <2>3. \A p \in DOMAIN Compute[i].gives : FALSE BY <1>0, <1>3, EncoderReads DEF Gives
  <2>4. QED BY <2>2, <2>3 DEF Places
<1>4. ASSUME NEW c \in 1 .. Len(Copy), Copy[c].kind = "work"
      PROVE  /\ Places(Copy[c]) \subseteq DOMAIN memory
             /\ \A p \in DOMAIN Copy[c].wants : memory[p] = Copy[c].wants[p]
  <2>1. /\ \A l \in Layers : ArenaOf(resident, l) \in DOMAIN memory
        /\ direct => Mapping \in DOMAIN memory /\ memory[Mapping] = File
        /\ ~direct => \A slot \in {0, 1} : Staging(slot) \in DOMAIN memory
    BY <1>0, <1>2 DEF EncoderPlaces
  <2>2. \A p \in DOMAIN Copy[c].gives : p \in DOMAIN memory
    BY <1>0, <1>4, <2>1, EncoderReads DEF Gives
  <2>3. ASSUME NEW p \in DOMAIN Copy[c].wants PROVE p \in DOMAIN memory /\ memory[p] = Copy[c].wants[p]
    <3>1. Wants(Copy, c, p) BY <1>4 DEF Wants
    <3>2. CASE direct /\ p = Mapping /\ Copy[c].wants[p] = File BY <2>1, <3>2
    <3>3. ASSUME ~direct, NEW slot \in {0, 1}, p = Staging(slot)
          PROVE  p \in DOMAIN memory /\ memory[p] = Copy[c].wants[p]
      BY <1>0, <2>1, <3>1, <3>3 DEF StagingKept
    <3>4. QED BY <1>0, <3>1, <3>2, <3>3, EncoderReads
  <2>4. QED BY <2>2, <2>3 DEF Places
<1>5. NothingUsesFreedMemory
  <2>1. ASSUME NEW s \in Streams, NEW i \in DOMAIN queue[s], queue[s][i].kind = "work"
        PROVE  Places(queue[s][i]) \subseteq DOMAIN memory
    <3>1. CASE s = "compute" BY <1>1, <1>3, <2>1, <3>1, IsSeqLen
    <3>2. CASE s = "copy" BY <1>1, <1>4, <2>1, <3>2, IsSeqLen
    <3>3. QED BY <3>1, <3>2 DEF Streams
  <2>2. QED BY <2>1 DEF NothingUsesFreedMemory
<1>6. ASSUME running["compute"], NEW p \in DOMAIN Head(Compute).wants
      PROVE  p \in DOMAIN memory /\ memory[p] = Head(Compute).wants[p]
  <2>1. Compute # <<>> /\ Head(Compute).kind = "work"
    BY <1>0, <1>1, <1>6 DEF QueueInv, Runs, Streams
  <2>2. Head(Compute) = Compute[1] /\ 1 \in 1 .. Len(Compute) BY <1>1, <2>1, Beheaded, IsSeqLen
  <2>3. p \in DOMAIN memory /\ Wants(Compute, 1, p) BY <1>3, <1>6, <2>1, <2>2 DEF Wants, Places
  <2>4. PICK l \in Layers : p = ArenaOf(resident, l) /\ Compute[1].wants[p] = LayerWeights(l)
    BY <1>0, <2>2, <2>3, EncoderReads
  <2>5. CASE resident
    <3>1. enPc # "upload" /\ enPc # "unloaded" /\ Copy = <<>> /\ p = Resident(l)
      BY <1>0, <1>2, <2>2, <2>4, <2>5 DEF EncoderPlaces, ArenaOf
    <3>2. InStream(Copy, memory, Len(Copy) + 1, Resident(l), LayerWeights(l))
      BY <1>0, <2>4, <2>5, <3>1 DEF ResidentFilled, Arriving
    <3>3. Len(Copy) = 0 BY <1>1, <3>1
    <3>4. InStream(Copy, memory, 1, Resident(l), LayerWeights(l)) BY <3>2, <3>3
    <3>5. memory[Resident(l)] = LayerWeights(l) BY <3>4 DEF InStream
    <3>6. QED BY <2>2, <2>3, <2>4, <3>1, <3>5
  <2>6. CASE ~resident
    <3>1. l % 2 \in {0, 1} /\ p = Ping(l % 2) BY <2>4, <2>6, LayersAreCounted DEF ArenaOf
    <3>2. Covered(Compute, Copy, memory, 1, l % 2, Ping(l % 2), Compute[1].wants[Ping(l % 2)])
      BY <1>0, <2>2, <2>3, <3>1 DEF LayersCovered
    <3>3. QED BY <2>2, <2>3, <3>1, <3>2, CoveredIsThere
  <2>7. QED BY <2>5, <2>6
<1>7. ASSUME running["copy"], NEW p \in DOMAIN Head(Copy).wants
      PROVE  p \in DOMAIN memory /\ memory[p] = Head(Copy).wants[p]
  <2>1. Copy # <<>> /\ Head(Copy).kind = "work" BY <1>0, <1>1, <1>7 DEF QueueInv, Runs, Streams
  <2>2. Head(Copy) = Copy[1] /\ 1 \in 1 .. Len(Copy) BY <1>1, <2>1, Beheaded, IsSeqLen
  <2>3. QED BY <1>4, <1>7, <2>1, <2>2 DEF Places
<1>8. WorkFindsItsInput BY <1>1, <1>6, <1>7 DEF WorkFindsItsInput, Streams
<1>9. QED BY <1>5, <1>8

-----------------------------------------------------------------------------
(* The clients together.                                                   *)

\* Without work of its own a client leaves the streams empty.
NothingQueued == QueueInv /\ Compute = <<>> /\ Copy = <<>>

StreamsInv ==
  /\ client = "transformer" => TransformerInv
  /\ client = "encoder" => EncoderInv
  /\ client = "uploader" => UploaderInv
  /\ client \notin {"transformer", "encoder", "uploader"} => NothingQueued

StreamingInv ==
  /\ client \in Clients /\ StreamsInv /\ LoadInv
  /\ TransformerTypeOK /\ EncoderTypeOK /\ UploaderTypeOK
  /\ client # "uploader" => upPc # "closed"

\* The invariant of the block loop is about its own state.
LEMMA TransformerStays == ASSUME TransformerInv, UNCHANGED <<cudaVars, fwVars>> PROVE TransformerInv'
<1>1. LoopInv' BY DEF TransformerInv, LoopInv, TransformerTypeOK, fwVars, Cached
<1>2. QueueInv' BY QueueStays DEF TransformerInv, cudaVars
<1>3. TransformerItems' /\ TransformerPlaces'
  BY DEF TransformerInv, TransformerItems, TransformerPlaces, ComputeItem, CopyItem, HasDelta, Cached, SlotPlace,
         Weights, Host, Delta, Compute, Copy, cudaVars, fwVars, Work, At, None
<1>4. KernelsCovered' /\ SlotsHold'
  <2>1. KernelsCovered /\ SlotsHold /\ UNCHANGED <<queue, recorded, memory, fwPc, first, queued>>
    BY DEF TransformerInv, cudaVars, fwVars
  <2>2. KernelsCovered'
    <3>1. \A i, slot :
            Covered(Compute, Copy, memory, i, slot, SlotPlace(slot), Compute[i].wants[SlotPlace(slot)])'
              = Covered(Compute, Copy, memory, i, slot, SlotPlace(slot), Compute[i].wants[SlotPlace(slot)])
      BY <2>1 DEF Covered, GuardedFrom, Guarded, Brings, Gives, Records, Awaits, SlotPlace, Compute, Copy
    <3>2. \A i, slot : Wants(Compute, i, SlotPlace(slot))' = Wants(Compute, i, SlotPlace(slot))
      BY <2>1 DEF Wants, SlotPlace, Compute
    <3>3. (1 .. Len(Compute))' = 1 .. Len(Compute) BY <2>1 DEF Compute
    <3>4. QED BY <2>1, <3>1, <3>2, <3>3 DEF KernelsCovered
  <2>3. SlotsHold'
    <3>1. \A slot : Holds(Copy, memory, slot, SlotPlace(slot), Weights(queued[slot]), recorded[<<"filled", slot>>])'
                      = Holds(Copy, memory, slot, SlotPlace(slot), Weights(queued[slot]), recorded[<<"filled", slot>>])
      BY <2>1 DEF Holds, Gives, Records, SlotPlace, Weights, Copy
    <3>2. \A slot : SlotHolds(slot)' = SlotHolds(slot) BY <2>1, <3>1 DEF SlotHolds
    <3>3. QED BY <2>1, <3>2 DEF SlotsHold
  <2>4. QED BY <2>2, <2>3
<1>5. BlockReady'
  <2>1. BlockReady /\ UNCHANGED <<queue, memory, fwPc, first, queued, block>>
    BY DEF TransformerInv, cudaVars, fwVars
  <2>2. \A b : BlockCovered(b)' = BlockCovered(b)
    BY <2>1 DEF BlockCovered, Covered, GuardedFrom, Guarded, Brings, Gives, Records, Awaits, SlotPlace, Weights, End,
                Compute, Copy
  <2>3. (Offloaded(block)' = Offloaded(block)) /\ (Slot(block)' = Slot(block))
    BY <2>1 DEF Offloaded, Slot
  <2>4. QED BY <2>1, <2>2, <2>3 DEF BlockReady
<1>6. DeltaCovered' /\ DeltaReady'
  BY DEF TransformerInv, DeltaCovered, DeltaReady, DeltaIs, InSpan, Cached, HasDelta, InStream, Wants, Gives, Delta,
         End, Compute, cudaVars, fwVars
<1>7. QED BY <1>1, <1>2, <1>3, <1>4, <1>5, <1>6 DEF TransformerInv

\* So is the encoder's.
LEMMA EncoderStays == ASSUME EncoderInv, UNCHANGED <<cudaVars, enVars>> PROVE EncoderInv'
<1>1. UNCHANGED <<Compute, Copy, memory, recorded, enPc, layer, resident, direct>>
  BY DEF cudaVars, enVars, Compute, Copy
<1>2. EncoderTypeOK' /\ QueueInv' BY QueueStays DEF EncoderInv, EncoderTypeOK, enVars, cudaVars
<1>3. QED BY <1>1, <1>2, EncoderInvAfter DEF EncoderInv

\* So is the uploader's.
LEMMA UploaderStays == ASSUME UploaderInv, UNCHANGED <<cudaVars, upVars>> PROVE UploaderInv'
<1>1. QueueInv' /\ UploadPieces'
  BY QueueStays DEF UploaderInv, UploadPieces, UploaderTypeOK, tensor, cudaVars, upVars
<1>2. UploadItems' /\ UploadMemory'
  BY DEF UploaderInv, UploadItems, UploadItem, UploadMemory, WeightArena, tensor, Compute, Copy, cudaVars, upVars
<1>3. StagesKept' /\ LandingsFound'
  <2>1. StagesKept /\ LandingsFound /\ UNCHANGED <<queue, memory, upPc, current, used>>
    BY DEF UploaderInv, cudaVars, upVars
  <2>2. \A i, s, u : StageKept(i, s, u)' = StageKept(i, s, u)
    BY <2>1 DEF StageKept, Records, Stage, Compute
  <2>3. StagesKept' BY <2>1, <2>2 DEF StagesKept, Wants, Stage, Compute
  <2>4. Compute' = Compute BY <2>1 DEF Compute
  <2>5. ASSUME NEW i \in 1 .. Len(Compute'), NEW u \in Units, Wants(Compute', i, Landing(u))
        PROVE  InStream(Compute', memory', i, Landing(u), Compute'[i].wants[Landing(u)])
    BY <2>1, <2>4, <2>5, Zenon DEF LandingsFound
  <2>6. LandingsFound' BY <2>5, Zenon DEF LandingsFound
  <2>7. QED BY <2>3, <2>6
<1>4. LandingReady' /\ ArenaFilled'
  <2>1. LandingReady /\ ArenaFilled BY DEF UploaderInv
  <2>2. UNCHANGED <<queue, memory, upPc, sizes, kind, at, current, used, locked, failed>>
    BY DEF cudaVars, upVars
  <2>3. Compute' = Compute /\ tensor' = tensor BY <2>2 DEF Compute, tensor
  <2>4. LandingReady' BY <2>1, <2>2, <2>3, Zenon DEF LandingReady, Landed, End, TensorData
  <2>5. \A t : Sent(t)' = Sent(t) BY <2>2, <2>3 DEF Sent, Landed
  <2>6. \A t, u : Arrives(t, u)' = Arrives(t, u)
    BY <2>2, <2>3 DEF Arrives, Gives, ArenaAt, TensorData
  <2>7. ArenaFilled' BY <2>1, <2>3, <2>5, <2>6 DEF ArenaFilled
  <2>8. QED BY <2>4, <2>7
<1>5. QED BY <1>1, <1>2, <1>3, <1>4 DEF UploaderInv

\* Empty streams stay empty.
LEMMA NothingQueuedStays ==
  ASSUME NothingQueued, UNCHANGED cudaVars \/ \E s \in Streams : StreamStep(s) PROVE NothingQueued'
<1>1. \A s \in Streams : queue[s] = <<>> /\ ~running[s]
  BY DEF NothingQueued, QueueInv, Runs, Compute, Copy, Streams
<1>2. UNCHANGED cudaVars BY <1>1 DEF StreamStep, Starts, Finishes, PassesRecord, PassesWait, Runs
<1>3. QED BY <1>2, QueueStays DEF NothingQueued, Compute, Copy, cudaVars

\* Empty streams use nothing.
LEMMA NothingQueuedIsOrdered == NothingQueued => StreamsAreOrdered
<1> SUFFICES ASSUME NothingQueued PROVE StreamsAreOrdered OBVIOUS
<1>1. \A s \in Streams : queue[s] = <<>> /\ ~running[s]
  BY DEF NothingQueued, QueueInv, Runs, Compute, Copy, Streams
<1>2. \A s \in Streams : \A i \in DOMAIN queue[s] : FALSE BY <1>1
<1>3. QED BY <1>1, <1>2 DEF StreamsAreOrdered, WorkFindsItsInput, NothingUsesFreedMemory

\* Every client begins well, and the others are parked.
LEMMA StreamingInit == Init => StreamingInv
<1> SUFFICES ASSUME Init PROVE StreamingInv OBVIOUS
<1>1. client \in Clients /\ TransformerInit /\ EncoderInit /\ UploaderInit /\ OffloadInit
  BY DEF Init
<1>2. /\ client = "transformer" => CudaInit(StreamerPlaces(first))
      /\ client = "uploader" => CudaInit(UploaderPlaces(locked))
      /\ client \notin {"transformer", "uploader"} => CudaInit(None)
  BY DEF Init
<1>3. \E m : CudaInit(m) BY <1>2
<1>4. NothingQueued BY <1>3, CudaInit_Inv DEF NothingQueued, CudaInit, Compute, Copy, Streams
<1>5. StreamsInv
  BY <1>1, <1>2, <1>4, TransformerInitInv, EncoderInitInv, UploaderInitInv DEF StreamsInv
<1>6. TransformerTypeOK
  <2>1. NumBlocks \in Nat \ {0} /\ MaxSequences \in Nat /\ MaxForwards \in Nat BY StreamerAssumption
  <2>2. block \in 0 .. NumBlocks /\ sequence \in 0 .. MaxSequences /\ forwards \in 0 .. MaxForwards
    BY <1>1, <2>1 DEF TransformerInit
  <2>3. QED BY <1>1, <2>2 DEF TransformerInit, TransformerTypeOK
<1>7. EncoderTypeOK
  <2>1. layer \in 0 .. NumLayers /\ loads \in 0 .. MaxLoads /\ encodes \in 0 .. MaxEncodes
    BY <1>1, EncoderAssumption DEF EncoderInit
  <2>2. QED BY <1>1, <2>1 DEF EncoderInit, EncoderTypeOK
<1>8. UploaderTypeOK
  <2>1. 0 \in 0 .. Max(TensorSizes) /\ 0 \in 0 .. StageUnits BY UnitsAreCounted, UploaderAssumption
  <2>2. sizes \in Seq(TensorSizes) /\ Len(sizes) = 0 /\ 0 <= MaxTensors
    BY <1>1, UploaderAssumption DEF UploaderInit
  <2>3. QED BY <1>1, <2>1, <2>2 DEF UploaderInit, UploaderTypeOK
<1>9. QED BY <1>1, <1>5, <1>6, <1>7, <1>8, LoadInit_Inv DEF StreamingInv, UploaderInit

\* The part of a step that concerns each client.
StepsOf ==
  /\ client' = client
  /\ \/ client = "transformer" /\ TransformerNext /\ UNCHANGED <<enVars, upVars, ldVars>>
     \/ client = "encoder" /\ EncoderNext /\ UNCHANGED <<fwVars, upVars, ldVars>>
     \/ client = "uploader" /\ UploaderStep /\ UNCHANGED <<fwVars, enVars, ldVars>>
     \/ client = "load" /\ OffloadStep /\ UNCHANGED <<cudaVars, fwVars, enVars, upVars>>
     \/ (\E s \in Streams : StreamStep(s)) /\ UNCHANGED <<fwVars, enVars, upVars, ldVars>>
     \/ UNCHANGED <<cudaVars, fwVars, enVars, upVars, ldVars>>

\* A step is of one client or of the device.
LEMMA StreamingSteps == [Next]_vars => StepsOf
BY DEF Next, vars, StepsOf, IsTransformer, IsEncoder, IsUploader, IsLoad, IsDevice

\* A parked client keeps its types.
LEMMA TypesStay ==
  /\ TransformerTypeOK /\ UNCHANGED fwVars => TransformerTypeOK'
  /\ EncoderTypeOK /\ UNCHANGED enVars => EncoderTypeOK'
  /\ UploaderTypeOK /\ UNCHANGED upVars => UploaderTypeOK'
<1>1. TransformerTypeOK /\ UNCHANGED fwVars => TransformerTypeOK' BY DEF TransformerTypeOK, fwVars
<1>2. EncoderTypeOK /\ UNCHANGED enVars => EncoderTypeOK' BY DEF EncoderTypeOK, enVars
<1>3. UploaderTypeOK /\ UNCHANGED upVars => UploaderTypeOK' BY DEF UploaderTypeOK, upVars
<1>4. QED BY <1>1, <1>2, <1>3

\* Every step keeps the invariant of the client it is of.
LEMMA StreamingStep == StreamingInv /\ [Next]_vars => StreamingInv'
<1> SUFFICES ASSUME StreamingInv, [Next]_vars PROVE StreamingInv' OBVIOUS
<1>1. StepsOf /\ client' = client BY StreamingSteps DEF StepsOf
<1>2. LoadInv' BY <1>1, LoadStepKeepsInv, LoadStaysTheSame DEF StreamingInv, StepsOf
<1>3. CASE client = "transformer"
  <2>1. TransformerInv BY <1>3 DEF StreamingInv, StreamsInv
  <2>2. TransformerInv' /\ UNCHANGED <<enVars, upVars>>
    <3>1. CASE TransformerNext /\ UNCHANGED <<enVars, upVars>>
      BY <2>1, <3>1, TransformerStepKeepsInv
    <3>2. CASE (\E s \in Streams : StreamStep(s)) /\ UNCHANGED <<fwVars, enVars, upVars>>
      BY <2>1, <3>2, DeviceKeepsTransformer
    <3>3. CASE UNCHANGED <<cudaVars, fwVars, enVars, upVars>> BY <2>1, <3>3, TransformerStays
    <3>4. QED BY <1>1, <1>3, <3>1, <3>2, <3>3 DEF StepsOf
  <2>3. TransformerTypeOK' /\ upPc' = upPc BY <2>2 DEF TransformerInv, LoopInv, upVars
  <2>4. QED BY <1>1, <1>2, <1>3, <2>2, <2>3, TypesStay DEF StreamingInv, StreamsInv
<1>4. CASE client = "encoder"
  <2>1. EncoderInv BY <1>4 DEF StreamingInv, StreamsInv
  <2>2. EncoderInv' /\ UNCHANGED <<fwVars, upVars>>
    <3>1. CASE EncoderNext /\ UNCHANGED <<fwVars, upVars>> BY <2>1, <3>1, EncoderStepKeepsInv
    <3>2. CASE (\E s \in Streams : StreamStep(s)) /\ UNCHANGED <<fwVars, enVars, upVars>>
      BY <2>1, <3>2, DeviceKeepsEncoder
    <3>3. CASE UNCHANGED <<cudaVars, fwVars, enVars, upVars>> BY <2>1, <3>3, EncoderStays
    <3>4. QED BY <1>1, <1>4, <3>1, <3>2, <3>3 DEF StepsOf
  <2>3. EncoderTypeOK' /\ upPc' = upPc BY <2>2 DEF EncoderInv, upVars
  <2>4. QED BY <1>1, <1>2, <1>4, <2>2, <2>3, TypesStay DEF StreamingInv, StreamsInv
<1>5. CASE client = "uploader"
  <2>1. UploaderInv BY <1>5 DEF StreamingInv, StreamsInv
  <2>2. UploaderInv' /\ UNCHANGED <<fwVars, enVars>>
    <3>1. CASE UploaderStep /\ UNCHANGED <<fwVars, enVars>> BY <2>1, <3>1, UploaderStepKeepsInv
    <3>2. CASE (\E s \in Streams : StreamStep(s)) /\ UNCHANGED <<fwVars, enVars, upVars>>
      BY <2>1, <3>2, DeviceKeepsUploader
    <3>3. CASE UNCHANGED <<cudaVars, fwVars, enVars, upVars>> BY <2>1, <3>3, UploaderStays
    <3>4. QED BY <1>1, <1>5, <3>1, <3>2, <3>3 DEF StepsOf
  <2>3. UploaderTypeOK' BY <2>2 DEF UploaderInv, UploadPieces
  <2>4. QED BY <1>1, <1>2, <1>5, <2>2, <2>3, TypesStay DEF StreamingInv, StreamsInv
<1>6. CASE client \notin {"transformer", "encoder", "uploader"}
  <2>1. NothingQueued BY <1>6 DEF StreamingInv, StreamsInv
  <2>2. /\ UNCHANGED cudaVars \/ \E s \in Streams : StreamStep(s)
        /\ UNCHANGED <<fwVars, enVars, upVars>>
    BY <1>1, <1>6 DEF StepsOf
  <2>3. NothingQueued' /\ upPc' = upPc BY <2>1, <2>2, NothingQueuedStays DEF upVars
  <2>4. QED BY <1>1, <1>2, <1>6, <2>2, <2>3, TypesStay DEF StreamingInv, StreamsInv
<1>7. QED BY <1>3, <1>4, <1>5, <1>6

\* Whichever the client, its streams and events are well formed.
LEMMA StreamingQueues == StreamingInv => QueueInv
BY DEF StreamingInv, StreamsInv, NothingQueued, TransformerInv, EncoderInv, UploaderInv

\* The invariant of every behaviour.
THEOREM StreamingHolds == Spec => []StreamingInv
BY StreamingInit, StreamingStep, PTL DEF Spec

\* The types of all the state (WeightStreaming).
THEOREM StreamingIsTyped == Spec => []TypeOK
<1>1. StreamingInv => TypeOK
  <2> SUFFICES ASSUME StreamingInv PROVE TypeOK OBVIOUS
  <2>1. \A e \in Events : recorded[e] \in Nat /\ reached[e] \in 0 .. recorded[e]
    <3>1. ASSUME NEW e \in Events PROVE recorded[e] \in Nat /\ reached[e] \in Nat /\ reached[e] <= recorded[e]
      BY StreamingQueues DEF QueueInv
    <3>2. QED BY <3>1
  <2>2. running \in [Streams -> BOOLEAN] /\ \A s \in Streams : running[s] => Runs(s, "work")
    BY StreamingQueues DEF QueueInv
  <2>3. OffloadTypeOK BY DEF StreamingInv, LoadInv
  <2>4. QED BY <2>1, <2>2, <2>3 DEF TypeOK, StreamingInv
<1>2. QED BY <1>1, StreamingHolds, PTL

\* While the device works on something it finds there what the host meant, and stays within what is
\* allocated: the events keep the two streams of each client apart (CudaStreams).
THEOREM StreamsStayOrdered == Spec => []StreamsAreOrdered
<1>1. StreamingInv => StreamsAreOrdered
  BY TransformerIsOrdered, EncoderIsOrdered, UploaderIsOrdered, NothingQueuedIsOrdered DEF StreamingInv, StreamsInv
<1>2. QED BY <1>1, StreamingHolds, PTL

\* An upload that ends well leaves every tensor in its place; a load that runs out of memory starts over
\* from nothing held, and gives up only when nothing smaller is left to try (WeightStreaming).
THEOREM LoadsCompleteOrRetry == Spec => []LoadsCompleteOrRetries
<1>1. StreamingInv => LoadsCompleteOrRetries
  <2> SUFFICES ASSUME StreamingInv PROVE LoadsCompleteOrRetries OBVIOUS
  <2>1. LoadedIsComplete BY UploadIsComplete DEF StreamingInv, StreamsInv, LoadedIsComplete
  <2>2. QED BY <2>1, LoadInvRetries DEF StreamingInv, LoadsCompleteOrRetries
<1>2. QED BY <1>1, StreamingHolds, PTL
=============================================================================
