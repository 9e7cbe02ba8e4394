------------------------- MODULE ThreadWaits_proofs -------------------------
(***************************************************************************)
(* Theorems about threads that wait for one another: the command slots of  *)
(* the Vulkan queue (ComputeContext), for any number of threads, slots,    *)
(* buffers and submissions, the media pipeline of `slopfab upscale`        *)
(* (MediaUpscale), for videos of any length and queues of any capacity,    *)
(* and the programs of the attention kernels, for sequences of any length. *)
(***************************************************************************)
EXTENDS ThreadWaits, WellFoundedInduction, FiniteSetTheorems, SequenceTheorems, TLAPS

\* Every set of natural numbers that is not empty has a least element.
LEMMA LeastNatural ==
  ASSUME NEW S \in SUBSET Nat, S # {}
  PROVE  Min(S) \in S /\ \A y \in S : Min(S) <= y
<1>1. IsWellFoundedOn(OpToRel(<, Nat), Nat) BY NatLessThanWellFounded
<1>2. PICK x \in S : \A y \in S : ~(<<y, x>> \in OpToRel(<, Nat)) BY <1>1, WFMin
<1>3. \A y \in S : ~(y < x) BY <1>2 DEF OpToRel
<1>4. \A y \in S : x <= y BY <1>3
<1>5. QED BY <1>4 DEF Min

\* A set that has 0 and with every number below n the next one has n.
LEMMA Reaches ==
  ASSUME NEW n \in Nat, NEW S, 0 \in S, \A k \in 0 .. n - 1 : k \in S => k + 1 \in S
  PROVE  \A k \in 0 .. n : k \in S
<1> DEFINE missing == {k \in 0 .. n : k \notin S}
<1>1. ASSUME missing # {} PROVE FALSE
  <2>1. missing \in SUBSET Nat OBVIOUS
  <2> DEFINE least == Min(missing)
  <2>2. least \in missing /\ \A y \in missing : least <= y BY <1>1, <2>1, LeastNatural
  <2> HIDE DEF least
  <2>3. least \in 0 .. n /\ least \notin S BY <2>2
  <2>4. least # 0 /\ least - 1 \in 0 .. n - 1 BY <2>3
  <2>5. least - 1 \in S
    <3>1. least - 1 \notin missing BY <2>2, <2>4
    <3>2. QED BY <2>4, <3>1
  <2>6. QED BY <2>3, <2>4, <2>5
<1>2. QED BY <1>1

\* Sequences one after the other are a sequence, of elements of the same set.
LEMMA FlattenIsSeq ==
  ASSUME NEW T, NEW seqs \in Seq(Seq(T))
  PROVE  FlattenSeq(seqs) \in Seq(T)
<1> DEFINE n == Len(seqs)
           Next1(g, i) == IF i = 1 THEN seqs[i] ELSE g[i - 1] \o seqs[i]
           F(g) == [i \in 1 .. n |-> Next1(g, i)]
           Joins(g, k) == \A i \in 1 .. k : g[i] = Next1(g, i)
           Good == {k \in 0 .. n : \E g \in [1 .. k -> Seq(T)] : Joins(g, k)}
<1>0. n \in Nat /\ \A i \in 1 .. n : seqs[i] \in Seq(T) OBVIOUS
<1>1. FlattenSeq(seqs) = IF n = 0 THEN seqs ELSE (CHOOSE f : f = F(f))[n] BY DEF FlattenSeq
<1> HIDE DEF n
<1>2. 0 \in Good
  <2> DEFINE none == [i \in 1 .. 0 |-> <<>>]
  <2>1. none \in [1 .. 0 -> Seq(T)] /\ Joins(none, 0) OBVIOUS
  <2> HIDE DEF none, Joins
  <2>2. \E g \in [1 .. 0 -> Seq(T)] : Joins(g, 0) BY <2>1, Zenon
  <2>3. 0 \in 0 .. n BY <1>0
  <2>4. QED BY <2>2, <2>3, Zenon
<1>3. ASSUME NEW k \in 0 .. n - 1, k \in Good PROVE k + 1 \in Good
  <2>1. PICK g \in [1 .. k -> Seq(T)] : Joins(g, k) BY <1>3
  <2> DEFINE h == [i \in 1 .. k + 1 |-> IF i <= k THEN g[i] ELSE Next1(g, i)]
  <2>2. Next1(g, k + 1) \in Seq(T)
    <3>1. CASE k = 0 BY <1>0, <3>1
    <3>2. CASE k # 0
      <4>1. g[k] \in Seq(T) /\ seqs[k + 1] \in Seq(T) BY <1>0, <3>2
      <4>2. QED BY <3>2, <4>1, <1>0
    <3>3. QED BY <3>1, <3>2
  <2>3. h \in [1 .. k + 1 -> Seq(T)] BY <1>0, <2>2
  <2>4. Joins(h, k + 1)
    <3> TAKE i \in 1 .. k + 1
    <3>1. i # 1 => h[i - 1] = g[i - 1] BY <1>0
    <3>2. Next1(h, i) = Next1(g, i) BY <3>1
    <3>3. h[i] = Next1(g, i)
      <4> HIDE DEF Next1
      <4>1. QED BY <2>1, <1>0
    <3>4. QED BY <3>2, <3>3
  <2>5. k + 1 \in 0 .. n BY <1>0
  <2>6. QED BY <2>3, <2>4, <2>5
<1>4. n \in Good
  <2> HIDE DEF Good
  <2>1. \A k \in 0 .. n : k \in Good BY <1>0, <1>2, <1>3, Reaches
  <2>2. QED BY <2>1, <1>0
<1>5. PICK g \in [1 .. n -> Seq(T)] : Joins(g, n) BY <1>4
<1>6. g = F(g) BY <1>5
<1> DEFINE f == CHOOSE f : f = F(f)
<1>7. f = F(f) BY <1>6
<1> HIDE DEF f
<1>8. DOMAIN f = 1 .. n /\ Joins(f, n) BY <1>7
<1> DEFINE Sound == {k \in 0 .. n : \A i \in 1 .. k : f[i] \in Seq(T)}
<1>9. 0 \in Sound BY <1>0
<1>10. ASSUME NEW k \in 0 .. n - 1, k \in Sound PROVE k + 1 \in Sound
  <2>0. k + 1 \in 1 .. n /\ (k + 1) - 1 = k BY <1>0
  <2>1. f[k + 1] = Next1(f, k + 1)
    <3> HIDE DEF Next1
    <3>1. QED BY <1>8, <2>0
  <2>2. k # 0 => f[k] \in Seq(T) BY <1>10
  <2>3. seqs[k + 1] \in Seq(T) BY <1>0
  <2>4. f[k + 1] \in Seq(T)
    <3>1. CASE k = 0 BY <2>1, <2>3, <3>1
    <3>2. CASE k # 0
      <4> DEFINE j == k + 1
      <4>0. j # 1 /\ j - 1 = k BY <1>0, <3>2
      <4>1. f[j] = f[k] \o seqs[j]
        <5>1. f[j] = Next1(f, j) BY <2>1
        <5> HIDE DEF j
        <5>2. QED BY <5>1, <4>0
      <4>2. QED BY <4>1, <2>2, <2>3, <3>2
    <3>3. QED BY <3>1, <3>2
  <2>5. QED BY <1>0, <1>10, <2>4
<1>11. n \in Sound
  <2> HIDE DEF Sound
  <2>1. \A k \in 0 .. n : k \in Sound BY <1>0, <1>9, <1>10, Reaches
  <2>2. QED BY <2>1, <1>0
<1>12. CASE n = 0
  <2>1. seqs = <<>> BY <1>12 DEF n
  <2>2. QED BY <1>1, <1>12, <2>1
<1>13. CASE n # 0
  <2>1. f[n] \in Seq(T) BY <1>0, <1>11, <1>13
  <2>2. FlattenSeq(seqs) = f[n] BY <1>1, <1>13 DEF f
  <2>3. QED BY <2>1, <2>2
<1>14. QED BY <1>12, <1>13

----
(* The inductive invariant of the command slots.                           *)

Records(t) == phase[t] \in {"begin", "recording", "ended"}

\* What was submitted waits in the slot it was submitted from, which keeps its buffers.
JobsPending ==
  \A k \in DOMAIN jobs :
    LET s == jobs[k].slot
    IN /\ completed < jobs[k].value /\ jobs[k].value < nextValue
       /\ slot[s].commands = "pending" /\ slot[s].reserved /\ slot[s].value = jobs[k].value
       /\ jobs[k].uses \subseteq slot[s].held

\* The queue works in the order of the timeline's values.
JobsInOrder == \A k, l \in DOMAIN jobs : k < l => jobs[k].value < jobs[l].value

\* A thread that records has a slot of its own, which carries no value yet.
RecordersApart ==
  /\ \A t \in Threads :
       /\ phase[t] \in {"idle", "scan", "wait"} => list[t] = NoList
       /\ phase[t] \notin {"idle", "scan", "wait"} => list[t].slot \in Slots
       /\ Records(t) => slot[list[t].slot].reserved /\ slot[list[t].slot].value = 0
  /\ \A t, u \in Threads : Records(t) /\ Records(u) /\ t # u => list[t].slot # list[u].slot

\* A reserved slot is of a thread that records or carries a value that was given out.
SlotsOwned ==
  \A s \in Slots :
    /\ slot[s].value # 0 => slot[s].reserved /\ slot[s].value < nextValue
    /\ slot[s].reserved /\ slot[s].value = 0 => \E t \in Threads : Records(t) /\ list[t].slot = s

SlotsInv == SlotsTypeOK /\ JobsPending /\ JobsInOrder /\ RecordersApart /\ SlotsOwned

----
(* Facts about a state.                                                    *)

SlotRecords ==
  [reserved : BOOLEAN, poisoned : BOOLEAN, value : 0 .. MaxValue, held : SUBSET Buffers,
   commands : {"initial", "recording", "executable", "pending", "invalid"}]

JobRecords == [value : 1 .. MaxValue, slot : Slots, uses : SUBSET Buffers]

LEMMA SlotsAreRecords ==
  ASSUME SlotsTypeOK
  PROVE  /\ slot \in [Slots -> SlotRecords] /\ Slots \subseteq Nat \ {0}
         /\ nextValue \in Nat /\ completed \in Nat /\ completed < nextValue
         /\ FreeSlot \in SlotRecords /\ FreeSlot.value = 0 /\ ~FreeSlot.reserved
<1>1. FreeSlot \in SlotRecords /\ FreeSlot.value = 0 /\ ~FreeSlot.reserved
  BY ComputeAssumption DEF FreeSlot, SlotRecords
<1>2. QED BY <1>1, ComputeAssumption DEF SlotsTypeOK, SlotRecords, Slots

\* The slot of a thread that records has no submission, so no submission has it.
LEMMA RecorderIsNotPending ==
  ASSUME SlotsInv, NEW t \in Threads, Records(t), NEW k \in DOMAIN jobs
  PROVE  jobs[k].slot # list[t].slot
<1>1. completed \in Nat /\ completed < jobs[k].value /\ slot[jobs[k].slot].value = jobs[k].value
  BY SlotsAreRecords DEF SlotsInv, JobsPending
<1>2. slot[list[t].slot].value = 0 BY DEF SlotsInv, RecordersApart
<1>3. jobs[k].value # 0 BY <1>1, SlotsAreRecords DEF SlotsInv, SlotsTypeOK
<1>4. QED BY <1>1, <1>2, <1>3

LEMMA JobsAreJobs ==
  ASSUME SlotsTypeOK, NEW k \in DOMAIN jobs
  PROVE  /\ jobs \in Seq(JobRecords) /\ jobs[k] \in JobRecords /\ k \in 1 .. Len(jobs)
         /\ jobs[k].slot \in Slots /\ jobs[k].value \in Nat \ {0}
<1>1. jobs \in Seq(JobRecords) BY DEF SlotsTypeOK, JobRecords
<1>2. jobs[k] \in JobRecords /\ k \in 1 .. Len(jobs) BY <1>1
<1>3. QED BY <1>1, <1>2, ComputeAssumption DEF JobRecords

\* What the invariant says of pending submissions and of slots is what SlotsKept promises.
LEMMA InvKeepsSlots == SlotsInv => SlotsKept
<1> SUFFICES ASSUME SlotsInv PROVE SlotsKept OBVIOUS
<1>1. PendingUntouched
  <2> SUFFICES ASSUME NEW k \in DOMAIN jobs
               PROVE  LET s == jobs[k].slot
                      IN /\ slot[s].commands = "pending" /\ slot[s].reserved /\ slot[s].value = jobs[k].value
                         /\ \A b \in jobs[k].uses : Alive(b)
                         /\ \A t \in Threads : list[t].slot = s => phase[t] = "submitted"
    BY DEF PendingUntouched
  <2>1. jobs[k].slot \in Slots BY JobsAreJobs DEF SlotsInv
  <2>2. \A b \in jobs[k].uses : Alive(b) BY <2>1 DEF SlotsInv, JobsPending, Alive
  <2>3. ASSUME NEW t \in Threads, list[t].slot = jobs[k].slot PROVE phase[t] = "submitted"
    <3>1. ~Records(t) BY <2>3, RecorderIsNotPending
    <3>2. phase[t] \notin {"idle", "scan", "wait"}
      BY <2>1, <2>3, SlotsAreRecords DEF SlotsInv, RecordersApart, NoList
    <3>3. QED BY <3>1, <3>2 DEF Records, SlotsInv, SlotsTypeOK
  <2>4. QED BY <2>2, <2>3 DEF SlotsInv, JobsPending
<1>2. NoStrandedSlot
  <2> SUFFICES ASSUME NEW s \in Slots
               PROVE  LET recorders == {t \in Threads : list[t].slot = s /\ phase[t] # "submitted"}
                      IN IF slot[s].reserved /\ slot[s].value = 0 THEN Cardinality(recorders) = 1
                         ELSE recorders = {}
    BY DEF NoStrandedSlot
  <2> DEFINE recorders == {t \in Threads : list[t].slot = s /\ phase[t] # "submitted"}
  <2>1. \A t \in recorders : Records(t)
    <3> SUFFICES ASSUME NEW t \in recorders PROVE Records(t) OBVIOUS
    <3>1. phase[t] \notin {"idle", "scan", "wait"}
      BY SlotsAreRecords DEF SlotsInv, RecordersApart, NoList
    <3>2. QED BY <3>1 DEF Records, SlotsInv, SlotsTypeOK
  <2>2. \A t, u \in recorders : t = u BY <2>1 DEF SlotsInv, RecordersApart
  <2>3. CASE slot[s].reserved /\ slot[s].value = 0
    <3>1. PICK t \in Threads : Records(t) /\ list[t].slot = s BY <2>3 DEF SlotsInv, SlotsOwned
    <3>2. recorders = {t} BY <2>2, <3>1 DEF Records
    <3>3. Cardinality({t}) = 1 BY FS_Singleton
    <3> HIDE DEF recorders
    <3>4. Cardinality(recorders) = 1 BY <3>2, <3>3
    <3>5. QED BY <2>3, <3>4 DEF recorders
  <2>4. CASE ~(slot[s].reserved /\ slot[s].value = 0)
    <3>1. recorders = {} BY <2>1, <2>4 DEF SlotsInv, RecordersApart
    <3>2. QED BY <2>4, <3>1
  <2>5. QED BY <2>3, <2>4
<1>3. QED BY <1>1, <1>2 DEF SlotsKept

LEMMA SlotsInitInv == SlotsInit => SlotsInv
<1> SUFFICES ASSUME SlotsInit PROVE SlotsInv OBVIOUS
<1>1. jobs = <<>> /\ DOMAIN jobs = {} /\ jobs \in Seq(JobRecords) BY DEF SlotsInit
<1>2. SlotsTypeOK
  <2>1. FreeSlot \in SlotRecords /\ slot = [s \in Slots |-> FreeSlot]
    BY ComputeAssumption DEF SlotsInit, FreeSlot, SlotRecords
  <2>2. slot \in [Slots -> SlotRecords] BY <2>1
  <2>3. NoList \in [slot : Slots \cup {0}, held : SUBSET Buffers] BY DEF NoList
  <2>4. list \in [Threads -> [slot : Slots \cup {0}, held : SUBSET Buffers]] BY <2>3 DEF SlotsInit
  <2>5. nextValue \in 1 .. (MaxValue + 1) /\ completed \in 0 .. (nextValue - 1)
    BY ComputeAssumption DEF SlotsInit
  <2>6. token \in [Threads -> 0 .. MaxValue] BY ComputeAssumption DEF SlotsInit
  <2>7. waiting \in [Threads -> 0 .. (MaxValue + 1)] /\ \A t \in Threads : waiting[t] = 0 /\ phase[t] = "idle"
    BY ComputeAssumption DEF SlotsInit
  <2>8. QED
    BY <1>1, <2>2, <2>4, <2>5, <2>6, <2>7 DEF SlotsInit, SlotsTypeOK, SlotRecords, JobRecords
<1>3. JobsPending /\ JobsInOrder BY <1>1 DEF JobsPending, JobsInOrder
<1>4. RecordersApart /\ SlotsOwned BY DEF SlotsInit, RecordersApart, SlotsOwned, Records, FreeSlot
<1>5. QED BY <1>2, <1>3, <1>4 DEF SlotsInv

----
(* Steps that neither submit nor finish anything.                          *)

\* A thread goes on without a slot, or keeps the one it records in.
Carries(t) ==
  \/ /\ phase'[t] = phase[t]
     /\ list'[t] = list[t] \/ (Records(t) /\ list'[t].slot = list[t].slot)
  \/ /\ ~Records(t) /\ phase'[t] \in {"idle", "scan", "wait"} /\ list'[t] = NoList

\* A slot stays as it is, or its submission is over and it is free, or is kept from all.
Recycles(s) ==
  \/ slot'[s] = slot[s]
  \/ /\ Recyclable(s)
     /\ \/ ~slot'[s].reserved /\ slot'[s].value = 0
        \/ slot'[s].reserved /\ slot'[s].value = slot[s].value

LEMMA QuietStep ==
  ASSUME SlotsInv, SlotsTypeOK', UNCHANGED <<nextValue, jobs, completed>>,
         \A t \in Threads : Carries(t), \A s \in Slots : Recycles(s)
  PROVE  SlotsInv'
<1>1. \A k \in DOMAIN jobs : slot'[jobs[k].slot] = slot[jobs[k].slot]
  <2> SUFFICES ASSUME NEW k \in DOMAIN jobs PROVE slot'[jobs[k].slot] = slot[jobs[k].slot] OBVIOUS
  <2>1. jobs[k].slot \in Slots /\ jobs[k].value \in Nat /\ completed \in Nat
    BY JobsAreJobs, SlotsAreRecords DEF SlotsInv
  <2>2. ~Recyclable(jobs[k].slot) BY <2>1 DEF SlotsInv, JobsPending, Recyclable
  <2>3. QED BY <2>1, <2>2 DEF Recycles
<1>2. JobsPending' /\ JobsInOrder' BY <1>1 DEF SlotsInv, JobsPending, JobsInOrder
<1>3. ASSUME NEW t \in Threads, Records(t)'
      PROVE  Records(t) /\ list'[t].slot = list[t].slot
  BY <1>3 DEF Carries, Records
<1>4. ASSUME NEW t \in Threads, Records(t)
      PROVE  /\ list[t].slot \in Slots /\ slot[list[t].slot].value = 0 /\ slot[list[t].slot].reserved
             /\ slot'[list[t].slot] = slot[list[t].slot]
  <2>1. list[t].slot \in Slots /\ slot[list[t].slot].value = 0 /\ slot[list[t].slot].reserved
    BY <1>4 DEF SlotsInv, RecordersApart, Records
  <2>2. ~Recyclable(list[t].slot) BY <2>1, SlotsAreRecords DEF Recyclable, SlotsInv
  <2>3. QED BY <2>1, <2>2 DEF Recycles
<1>5. RecordersApart'
  <2>1. ASSUME NEW t \in Threads
        PROVE  /\ phase'[t] \in {"idle", "scan", "wait"} => list'[t] = NoList
               /\ phase'[t] \notin {"idle", "scan", "wait"} => list'[t].slot \in Slots
    BY DEF Carries, SlotsInv, RecordersApart, Records
  <2>2. QED BY <1>3, <1>4, <2>1 DEF SlotsInv, RecordersApart
<1>6. ASSUME NEW s \in Slots
      PROVE  /\ slot'[s].value # 0 => slot'[s].reserved /\ slot'[s].value < nextValue'
             /\ slot'[s].reserved /\ slot'[s].value = 0 => \E t \in Threads : Records(t)' /\ list'[t].slot = s
  <2>1. CASE slot'[s] = slot[s]
    <3>1. \A t \in Threads : Records(t) => Records(t)' /\ list'[t].slot = list[t].slot
      BY DEF Carries, Records
    <3>2. QED BY <2>1, <3>1 DEF SlotsInv, SlotsOwned
  <2>2. CASE Recyclable(s) /\ slot'[s] # slot[s]
    <3>1. slot[s].value # 0 BY <2>2, SlotsAreRecords DEF Recyclable, SlotsInv
    <3>2. QED BY <2>2, <3>1 DEF Recycles, SlotsInv, SlotsOwned
  <2>3. QED BY <2>1, <2>2 DEF Recycles
<1>7. QED BY <1>2, <1>5, <1>6 DEF SlotsInv, SlotsOwned

\* recycle_locked leaves alone every slot that is not ready, wherever it throws.
LEMMA OutcomesRecycle ==
  ASSUME SlotsTypeOK, NEW r \in RecycleOutcomes
  PROVE  /\ r.slots \in [Slots -> SlotRecords]
         /\ \A s \in Slots :
              \/ r.slots[s] = slot[s]
              \/ /\ Recyclable(s)
                 /\ \/ ~r.slots[s].reserved /\ r.slots[s].value = 0
                    \/ r.slots[s].reserved /\ r.slots[s].value = slot[s].value
<1>1. slot \in [Slots -> SlotRecords] /\ FreeSlot \in SlotRecords /\ FreeSlot.value = 0 /\ ~FreeSlot.reserved
  BY SlotsAreRecords
<1>2. CASE r = Recycled
  <2>1. r.slots = [s \in Slots |-> IF s \in {q \in Slots : Recyclable(q)} THEN FreeSlot ELSE slot[s]]
    BY <1>2 DEF Recycled
  <2>2. QED BY <1>1, <2>1
<1>3. CASE r = [slots |-> slot, throws |-> TRUE] BY <1>1, <1>3
<1>4. CASE \E f \in {s \in Slots : Recyclable(s)} : r = RecycledUpTo(f)
  <2>1. PICK f \in Slots : r = RecycledUpTo(f) BY <1>4
  <2>2. r.slots = [s \in Slots |-> IF ~Recyclable(s) \/ s > f THEN slot[s]
                                   ELSE IF s < f THEN FreeSlot
                                   ELSE [slot[s] EXCEPT !.held = {}, !.commands = "invalid"]]
    BY <2>1 DEF RecycledUpTo
  <2>3. \A s \in Slots : /\ [slot[s] EXCEPT !.held = {}, !.commands = "invalid"] \in SlotRecords
                         /\ [slot[s] EXCEPT !.held = {}, !.commands = "invalid"].reserved = slot[s].reserved
                         /\ [slot[s] EXCEPT !.held = {}, !.commands = "invalid"].value = slot[s].value
    BY <1>1 DEF SlotRecords
  <2>4. \A s \in Slots : Recyclable(s) => slot[s].reserved BY DEF Recyclable
  <2>5. QED BY <1>1, <2>2, <2>3, <2>4
<1>5. QED BY <1>2, <1>3, <1>4 DEF RecycleOutcomes

LEMMA QuietActions ==
  ASSUME SlotsInv,
         \/ \E t \in Threads : \/ CallBegin(t) \/ Waited(t) \/ WaitFails(t) \/ SubmitReturns(t) \/ DropToken(t)
                               \/ \E b \in Buffers : Record(t, b)
         \/ \E b \in Buffers : DropBuffer(b)
         \/ CloseContext \/ Gone
  PROVE  SlotsInv'
<1>1. UNCHANGED <<slot, nextValue, jobs, completed>>
  BY DEF CallBegin, Waited, WaitFails, SubmitReturns, DropToken, Record, DropBuffer, CloseContext, Gone, slotsVars
<1>2. \A s \in Slots : Recycles(s) BY <1>1 DEF Recycles
<1>3. SlotsTypeOK /\ NoList \in [slot : Slots \cup {0}, held : SUBSET Buffers]
  BY DEF SlotsInv, NoList
<1>4. ASSUME NEW t \in Threads, CallBegin(t) PROVE SlotsTypeOK' /\ \A u \in Threads : Carries(u)
  <2>1. SlotsTypeOK' BY <1>3, <1>4 DEF CallBegin, Enter, SlotsTypeOK
  <2>2. QED BY <1>3, <1>4, <2>1 DEF CallBegin, Enter, Carries, Records, SlotsTypeOK
<1>5. ASSUME NEW t \in Threads, Waited(t) \/ WaitFails(t) PROVE SlotsTypeOK' /\ \A u \in Threads : Carries(u)
  <2>1. SlotsTypeOK'
    <3>1. waiting' = [waiting EXCEPT ![t] = 0] /\ waiting' \in [Threads -> 0 .. (MaxValue + 1)]
      <4>1. 0 \in 0 .. (MaxValue + 1) BY ComputeAssumption
      <4>2. waiting' = [waiting EXCEPT ![t] = 0] BY <1>5 DEF Waited, WaitFails
      <4>3. QED BY <1>3, <4>1, <4>2 DEF SlotsTypeOK
    <3>2. PICK p \in {"scan", "idle"} : phase' = [phase EXCEPT ![t] = p]
      BY <1>5 DEF Waited, WaitFails, Enter
    <3>3. \A u \in Threads : waiting'[u] # 0 <=> phase'[u] = "wait"
      BY <1>3, <3>1, <3>2 DEF SlotsTypeOK
    <3>4. phase' \in [Threads -> {"idle", "scan", "wait", "begin", "recording", "ended", "submitted"}]
      BY <1>3, <3>2 DEF SlotsTypeOK
    <3>5. QED BY <1>3, <1>5, <3>1, <3>3, <3>4 DEF Waited, WaitFails, SlotsTypeOK
  <2>2. list[t] = NoList BY <1>5 DEF Waited, WaitFails, SlotsInv, RecordersApart
  <2>3. QED BY <1>3, <1>5, <2>1, <2>2 DEF Waited, WaitFails, Enter, Carries, Records, SlotsTypeOK
<1>6. ASSUME NEW t \in Threads, SubmitReturns(t) PROVE SlotsTypeOK' /\ \A u \in Threads : Carries(u)
  <2>1. SlotsTypeOK' BY <1>3, <1>6 DEF SubmitReturns, Enter, SlotsTypeOK
  <2>2. QED BY <1>3, <1>6, <2>1 DEF SubmitReturns, Enter, Carries, Records, SlotsTypeOK
<1>7. ASSUME NEW t \in Threads, NEW b \in Buffers, Record(t, b) PROVE SlotsTypeOK' /\ \A u \in Threads : Carries(u)
  <2>1. list' = [list EXCEPT ![t].held = @ \cup {b}] /\ Records(t) /\ UNCHANGED phase
    BY <1>7 DEF Record, Records
  <2>2. list' \in [Threads -> [slot : Slots \cup {0}, held : SUBSET Buffers]]
    BY <1>3, <2>1 DEF SlotsTypeOK
  <2>3. SlotsTypeOK' BY <1>3, <1>7, <2>2 DEF Record, SlotsTypeOK
  <2>4. list'[t].slot = list[t].slot /\ \A u \in Threads \ {t} : list'[u] = list[u]
    BY <1>3, <2>1 DEF SlotsTypeOK
  <2>5. QED BY <2>1, <2>3, <2>4 DEF Carries
<1>8. ASSUME UNCHANGED <<phase, list>>,
             \/ \E t \in Threads : DropToken(t)
             \/ \E b \in Buffers : DropBuffer(b)
             \/ CloseContext \/ Gone
      PROVE  SlotsTypeOK' /\ \A u \in Threads : Carries(u)
  <2>1. SlotsTypeOK'
    <3>1. CASE \E t \in Threads : DropToken(t)
      BY <1>3, <3>1, ComputeAssumption DEF DropToken, SlotsTypeOK
    <3>2. CASE \E b \in Buffers : DropBuffer(b) BY <1>3, <3>2 DEF DropBuffer, SlotsTypeOK
    <3>3. CASE CloseContext \/ Gone BY <1>3, <3>3 DEF CloseContext, Gone, slotsVars, SlotsTypeOK
    <3>4. QED BY <1>8, <3>1, <3>2, <3>3
  <2>2. QED BY <1>8, <2>1 DEF Carries
<1>9. SlotsTypeOK' /\ \A u \in Threads : Carries(u)
  BY <1>4, <1>5, <1>6, <1>7, <1>8 DEF DropToken, DropBuffer, CloseContext, Gone, slotsVars
<1>10. QED BY <1>1, <1>2, <1>9, QuietStep

LEMMA CollectKeeps ==
  ASSUME SlotsInv, NEW t \in Threads, Collect(t)
  PROVE  SlotsInv'
<1>1. PICK r \in RecycleOutcomes : slot' = r.slots BY DEF Collect
<1>2. UNCHANGED <<open, destroyed, nextValue, jobs, completed, phase, waiting, list, token, handle>>
  BY DEF Collect
<1>3. slot' \in [Slots -> SlotRecords] /\ \A s \in Slots : Recycles(s)
  BY <1>1, OutcomesRecycle DEF SlotsInv, Recycles
<1>4. SlotsTypeOK' BY <1>2, <1>3 DEF SlotsInv, SlotsTypeOK, SlotRecords
<1>5. \A u \in Threads : Carries(u) BY <1>2 DEF Carries
<1>6. QED BY <1>2, <1>3, <1>4, <1>5, QuietStep

----
(* Taking a slot, recording in it and giving it back.                      *)

\* A thread that starts to record takes a slot that nobody has.
LEMMA ScanKeeps ==
  ASSUME SlotsInv, NEW t \in Threads, Scan(t)
  PROVE  SlotsInv'
<1>1. PICK r \in RecycleOutcomes :
        LET usable == {s \in Slots : ~r.slots[s].reserved /\ ~r.slots[s].poisoned}
            submitted == {s \in Slots : r.slots[s].value # 0}
        IN \/ /\ r.throws \/ (usable = {} /\ submitted = {})
              /\ slot' = r.slots
              /\ Enter(t, "idle")
              /\ UNCHANGED <<waiting, list>>
           \/ /\ ~r.throws /\ usable # {}
              /\ slot' = [r.slots EXCEPT ![Min(usable)].reserved = TRUE]
              /\ list' = [list EXCEPT ![t].slot = Min(usable)]
              /\ Enter(t, "begin")
              /\ UNCHANGED waiting
           \/ /\ ~r.throws /\ usable = {} /\ submitted # {}
              /\ slot' = r.slots
              /\ waiting' = [waiting EXCEPT ![t] = Oldest(r.slots)]
              /\ Enter(t, "wait")
              /\ UNCHANGED list
  BY DEF Scan
<1>2. /\ phase[t] = "scan" /\ list[t] = NoList
      /\ UNCHANGED <<open, destroyed, nextValue, jobs, completed, token, handle>>
  BY DEF Scan, SlotsInv, RecordersApart
<1>3. SlotsTypeOK /\ r.slots \in [Slots -> SlotRecords] BY OutcomesRecycle DEF SlotsInv
<1>4. \A s \in Slots :
        \/ r.slots[s] = slot[s]
        \/ /\ Recyclable(s)
           /\ \/ ~r.slots[s].reserved /\ r.slots[s].value = 0
              \/ r.slots[s].reserved /\ r.slots[s].value = slot[s].value
  BY OutcomesRecycle DEF SlotsInv
<1>5. CASE /\ slot' = r.slots /\ Enter(t, "idle") /\ UNCHANGED <<waiting, list>>
  <2>1. SlotsTypeOK' BY <1>2, <1>3, <1>5 DEF Enter, SlotsTypeOK, SlotRecords
  <2>2. \A u \in Threads : Carries(u) BY <1>2, <1>3, <1>5 DEF Enter, Carries, Records, SlotsTypeOK
  <2>3. \A s \in Slots : Recycles(s) BY <1>4, <1>5 DEF Recycles
  <2>4. QED BY <1>2, <2>1, <2>2, <2>3, QuietStep
<1>6. CASE /\ {s \in Slots : r.slots[s].value # 0} # {}
           /\ slot' = r.slots
           /\ waiting' = [waiting EXCEPT ![t] = Oldest(r.slots)]
           /\ Enter(t, "wait")
           /\ UNCHANGED list
  <2> DEFINE values == {r.slots[s].value : s \in Slots} \ {0}
  <2>1. values \in SUBSET Nat /\ values \subseteq 1 .. MaxValue
    BY <1>3, ComputeAssumption DEF SlotRecords
  <2>2. values # {}
    <3>1. PICK s \in Slots : r.slots[s].value # 0 BY <1>6
    <3>2. r.slots[s].value \in values BY <3>1
    <3>3. QED BY <3>2
  <2>3. Oldest(r.slots) \in 1 .. MaxValue BY <2>1, <2>2, LeastNatural DEF Oldest
  <2>4. waiting' \in [Threads -> 0 .. (MaxValue + 1)]
    <3>1. Oldest(r.slots) \in 0 .. (MaxValue + 1) BY <2>3, ComputeAssumption
    <3>2. QED BY <1>3, <1>6, <3>1 DEF SlotsTypeOK
  <2>5. \A u \in Threads : waiting'[u] # 0 <=> phase'[u] = "wait"
    <3>1. Oldest(r.slots) # 0 BY <2>3, ComputeAssumption
    <3>2. QED BY <1>3, <1>6, <3>1 DEF Enter, SlotsTypeOK
  <2>6. SlotsTypeOK' BY <1>2, <1>3, <1>6, <2>4, <2>5 DEF Enter, SlotsTypeOK, SlotRecords
  <2>7. \A u \in Threads : Carries(u) BY <1>2, <1>3, <1>6 DEF Enter, Carries, Records, SlotsTypeOK
  <2>8. \A s \in Slots : Recycles(s) BY <1>4, <1>6 DEF Recycles
  <2>9. QED BY <1>2, <2>6, <2>7, <2>8, QuietStep
<1>7. CASE LET usable == {s \in Slots : ~r.slots[s].reserved /\ ~r.slots[s].poisoned}
           IN /\ usable # {}
              /\ slot' = [r.slots EXCEPT ![Min(usable)].reserved = TRUE]
              /\ list' = [list EXCEPT ![t].slot = Min(usable)]
              /\ Enter(t, "begin")
              /\ UNCHANGED waiting
  <2> DEFINE usable == {s \in Slots : ~r.slots[s].reserved /\ ~r.slots[s].poisoned}
             m == Min(usable)
  <2>1. usable \in SUBSET Nat /\ usable # {} BY <1>3, <1>7, SlotsAreRecords
  <2>2. m \in Slots /\ ~r.slots[m].reserved BY <2>1, LeastNatural
  <2>3. slot' = [r.slots EXCEPT ![m].reserved = TRUE] /\ list' = [list EXCEPT ![t].slot = m]
        /\ phase' = [phase EXCEPT ![t] = "begin"]
    BY <1>7 DEF Enter
  <2> HIDE DEF m, usable
  <2>4. r.slots[m].value = 0 BY <1>4, <2>2 DEF SlotsInv, SlotsOwned
  <2>5. /\ slot' \in [Slots -> SlotRecords]
        /\ slot'[m].reserved /\ slot'[m].value = 0
        /\ \A s \in Slots \ {m} : slot'[s] = r.slots[s]
    BY <1>3, <2>2, <2>3, <2>4 DEF SlotRecords
  <2>6. /\ list' \in [Threads -> [slot : Slots \cup {0}, held : SUBSET Buffers]]
        /\ list'[t].slot = m /\ \A u \in Threads \ {t} : list'[u] = list[u]
    BY <1>3, <2>2, <2>3 DEF SlotsTypeOK
  <2>7. /\ phase' \in [Threads -> {"idle", "scan", "wait", "begin", "recording", "ended", "submitted"}]
        /\ phase'[t] = "begin" /\ \A u \in Threads \ {t} : phase'[u] = phase[u]
    BY <1>3, <2>3 DEF SlotsTypeOK
  <2>8. SlotsTypeOK'
    <3>1. waiting' = waiting /\ \A u \in Threads : waiting'[u] # 0 <=> phase'[u] = "wait"
      BY <1>2, <1>3, <1>7, <2>7 DEF SlotsTypeOK
    <3>2. QED BY <1>2, <1>3, <2>5, <2>6, <2>7, <3>1 DEF SlotsTypeOK, SlotRecords
  <2>9. \A k \in DOMAIN jobs : slot'[jobs[k].slot] = slot[jobs[k].slot]
    <3> SUFFICES ASSUME NEW k \in DOMAIN jobs PROVE slot'[jobs[k].slot] = slot[jobs[k].slot] OBVIOUS
    <3>1. jobs[k].slot \in Slots /\ jobs[k].value \in Nat /\ completed \in Nat
      BY JobsAreJobs, SlotsAreRecords DEF SlotsInv
    <3>2. ~Recyclable(jobs[k].slot) /\ slot[jobs[k].slot].reserved
      BY <3>1 DEF SlotsInv, JobsPending, Recyclable
    <3>3. r.slots[jobs[k].slot] = slot[jobs[k].slot] /\ jobs[k].slot # m BY <1>4, <2>2, <3>1, <3>2
    <3>4. QED BY <2>5, <3>1, <3>3
  <2>10. JobsPending' /\ JobsInOrder' BY <1>2, <2>9 DEF SlotsInv, JobsPending, JobsInOrder
  <2>11. ASSUME NEW u \in Threads \ {t}, Records(u)
         PROVE  /\ list'[u].slot = list[u].slot /\ list[u].slot \in Slots \ {m}
                /\ slot'[list[u].slot].value = 0 /\ slot'[list[u].slot].reserved
    <3>1. list[u].slot \in Slots /\ slot[list[u].slot].value = 0 /\ slot[list[u].slot].reserved
      BY <2>11 DEF SlotsInv, RecordersApart, Records
    <3>2. ~Recyclable(list[u].slot) BY <3>1, SlotsAreRecords DEF Recyclable, SlotsInv
    <3>3. r.slots[list[u].slot] = slot[list[u].slot] /\ list[u].slot # m BY <1>4, <2>2, <3>1, <3>2
    <3>4. QED BY <2>5, <2>6, <3>1, <3>3
  <2>12. ~Records(t) /\ Records(t)' /\ \A u \in Threads \ {t} : Records(u)' <=> Records(u)
    BY <1>2, <2>7 DEF Records
  <2>13. RecordersApart'
    <3>1. ASSUME NEW u \in Threads
          PROVE  /\ phase'[u] \in {"idle", "scan", "wait"} => list'[u] = NoList
                 /\ phase'[u] \notin {"idle", "scan", "wait"} => list'[u].slot \in Slots
                 /\ Records(u)' => slot'[list'[u].slot].reserved /\ slot'[list'[u].slot].value = 0
      <4>1. CASE u = t BY <2>2, <2>5, <2>6, <2>7, <4>1
      <4>2. CASE u # t BY <2>6, <2>7, <2>11, <2>12, <4>2 DEF SlotsInv, RecordersApart
      <4>3. QED BY <4>1, <4>2
    <3>2. ASSUME NEW u \in Threads, NEW v \in Threads, Records(u)', Records(v)', u # v
          PROVE  list'[u].slot # list'[v].slot
      BY <2>6, <2>11, <2>12, <3>2 DEF SlotsInv, RecordersApart
    <3>3. QED BY <3>1, <3>2 DEF RecordersApart
  <2>14. ASSUME NEW s \in Slots
         PROVE  /\ slot'[s].value # 0 => slot'[s].reserved /\ slot'[s].value < nextValue'
                /\ slot'[s].reserved /\ slot'[s].value = 0 => \E u \in Threads : Records(u)' /\ list'[u].slot = s
    <3>1. CASE s = m BY <2>5, <2>6, <2>12, <3>1
    <3>2. CASE s # m /\ r.slots[s] = slot[s]
      <4>1. slot'[s] = slot[s] BY <2>5, <3>2
      <4>2. slot[s].reserved /\ slot[s].value = 0 => \E u \in Threads \ {t} : Records(u) /\ list[u].slot = s
        BY <2>12 DEF SlotsInv, SlotsOwned
      <4>3. QED BY <1>2, <2>6, <2>12, <4>1, <4>2 DEF SlotsInv, SlotsOwned
    <3>3. CASE s # m /\ r.slots[s] # slot[s]
      <4>1. Recyclable(s) /\ slot'[s] = r.slots[s] BY <1>4, <2>5, <3>3
      <4>2. slot[s].value # 0 BY <4>1, SlotsAreRecords DEF Recyclable, SlotsInv
      <4>3. QED BY <1>2, <1>4, <3>3, <4>1, <4>2 DEF SlotsInv, SlotsOwned
    <3>4. QED BY <3>1, <3>2, <3>3
  <2>15. QED BY <2>8, <2>10, <2>13, <2>14 DEF SlotsInv, SlotsOwned
<1>8. QED BY <1>1, <1>5, <1>6, <1>7

\* vkBeginCommandBuffer and vkEndCommandBuffer change the command buffer of the thread's slot.
LEMMA RecorderKeeps ==
  ASSUME SlotsInv, NEW t \in Threads, StartRecording(t) \/ CallSubmit(t)
  PROVE  SlotsInv'
<1> DEFINE m == list[t].slot
<1>1. PICK c \in {"recording", "executable"}, p \in {"recording", "ended"} :
        slot' = [slot EXCEPT ![m].commands = c] /\ phase' = [phase EXCEPT ![t] = p]
  BY DEF StartRecording, CallSubmit, Enter
<1>2. Records(t) /\ m \in Slots /\ slot \in [Slots -> SlotRecords] /\ SlotsTypeOK
  BY SlotsAreRecords DEF StartRecording, CallSubmit, Records, SlotsInv, RecordersApart
<1>3. UNCHANGED <<open, destroyed, nextValue, jobs, completed, waiting, list, token, handle>>
  BY DEF StartRecording, CallSubmit
<1>4. /\ slot' \in [Slots -> SlotRecords]
      /\ slot'[m].value = slot[m].value /\ slot'[m].reserved = slot[m].reserved
      /\ \A s \in Slots \ {m} : slot'[s] = slot[s]
  BY <1>1, <1>2 DEF SlotRecords
<1>5. /\ phase' \in [Threads -> {"idle", "scan", "wait", "begin", "recording", "ended", "submitted"}]
      /\ phase'[t] \in {"recording", "ended"} /\ \A u \in Threads \ {t} : phase'[u] = phase[u]
  BY <1>1, <1>2 DEF SlotsTypeOK
<1>6. SlotsTypeOK'
  <2>1. \A u \in Threads : waiting'[u] # 0 <=> phase'[u] = "wait"
    BY <1>2, <1>3, <1>5 DEF SlotsTypeOK, Records
  <2>2. QED BY <1>2, <1>3, <1>4, <1>5, <2>1 DEF SlotsTypeOK, SlotRecords
<1>7. \A k \in DOMAIN jobs : slot'[jobs[k].slot] = slot[jobs[k].slot]
  BY <1>2, <1>4, RecorderIsNotPending, JobsAreJobs DEF SlotsInv
<1>8. JobsPending' /\ JobsInOrder' BY <1>3, <1>7 DEF SlotsInv, JobsPending, JobsInOrder
<1>9. \A u \in Threads : Records(u)' <=> Records(u) BY <1>2, <1>5 DEF Records
<1>10. \A s \in Slots : slot'[s].value = slot[s].value /\ slot'[s].reserved = slot[s].reserved
  BY <1>4
<1>11. RecordersApart'
  <2>1. ASSUME NEW u \in Threads
        PROVE  /\ phase'[u] \in {"idle", "scan", "wait"} => list[u] = NoList
               /\ phase'[u] \notin {"idle", "scan", "wait"} => list[u].slot \in Slots
    BY <1>2, <1>5, <1>9 DEF SlotsInv, RecordersApart
  <2>2. ASSUME NEW u \in Threads, Records(u)
        PROVE  list[u].slot \in Slots /\ slot[list[u].slot].reserved /\ slot[list[u].slot].value = 0
    BY <2>2 DEF SlotsInv, RecordersApart, Records
  <2>3. QED BY <1>3, <1>9, <1>10, <2>1, <2>2 DEF SlotsInv, RecordersApart
<1>12. SlotsOwned' BY <1>3, <1>9, <1>10 DEF SlotsInv, SlotsOwned
<1>13. QED BY <1>6, <1>8, <1>11, <1>12 DEF SlotsInv

\* A thread gives back the slot it recorded in; a slot that cannot be reset is nobody's.
LEMMA GiveBackKeeps ==
  ASSUME SlotsInv, NEW t \in Threads, BeginFails(t) \/ Drop(t)
  PROVE  SlotsInv'
<1> DEFINE m == list[t].slot
<1>1. PICK ok \in BOOLEAN : slot' = [slot EXCEPT ![m] = Released(m, ok)]
  BY DEF BeginFails, Drop, GiveBack
<1>2. Records(t) /\ m \in Slots /\ slot \in [Slots -> SlotRecords] /\ SlotsTypeOK
  BY SlotsAreRecords DEF BeginFails, Drop, Records, SlotsInv, RecordersApart
<1>3. /\ UNCHANGED <<open, destroyed, nextValue, jobs, completed, waiting, token, handle>>
      /\ list' = [list EXCEPT ![t] = NoList] /\ phase' = [phase EXCEPT ![t] = "idle"]
  BY DEF BeginFails, Drop, GiveBack, Enter
<1>4. Released(m, ok) \in SlotRecords /\ Released(m, ok).value = 0 /\ ~Released(m, ok).reserved
  BY SlotsAreRecords DEF SlotsInv, Released, FreeSlot, SlotRecords
<1>5. /\ slot' \in [Slots -> SlotRecords] /\ slot'[m].value = 0 /\ ~slot'[m].reserved
      /\ \A s \in Slots \ {m} : slot'[s] = slot[s]
  BY <1>1, <1>2, <1>4
<1>6. /\ list' \in [Threads -> [slot : Slots \cup {0}, held : SUBSET Buffers]]
      /\ list'[t] = NoList /\ \A u \in Threads \ {t} : list'[u] = list[u]
  BY <1>2, <1>3 DEF SlotsTypeOK, NoList
<1>7. /\ phase' \in [Threads -> {"idle", "scan", "wait", "begin", "recording", "ended", "submitted"}]
      /\ phase'[t] = "idle" /\ \A u \in Threads \ {t} : phase'[u] = phase[u]
  BY <1>2, <1>3 DEF SlotsTypeOK
<1> HIDE DEF m
<1>8. SlotsTypeOK'
  <2>1. \A u \in Threads : waiting'[u] # 0 <=> phase'[u] = "wait"
    BY <1>2, <1>3, <1>7 DEF SlotsTypeOK, Records
  <2>2. QED BY <1>2, <1>3, <1>5, <1>6, <1>7, <2>1 DEF SlotsTypeOK, SlotRecords
<1>9. \A k \in DOMAIN jobs : slot'[jobs[k].slot] = slot[jobs[k].slot]
  BY <1>2, <1>5, RecorderIsNotPending, JobsAreJobs DEF SlotsInv, m
<1>10. JobsPending' /\ JobsInOrder' BY <1>3, <1>9 DEF SlotsInv, JobsPending, JobsInOrder
<1>11. ~Records(t)' /\ \A u \in Threads \ {t} : Records(u)' <=> Records(u) BY <1>7 DEF Records
<1>12. ASSUME NEW u \in Threads \ {t}, Records(u)
       PROVE  /\ list[u].slot \in Slots \ {m} /\ list'[u] = list[u]
              /\ slot'[list[u].slot].reserved /\ slot'[list[u].slot].value = 0
  BY <1>2, <1>5, <1>6, <1>12 DEF SlotsInv, RecordersApart, Records, m
<1>13. RecordersApart'
  <2>1. ASSUME NEW u \in Threads
        PROVE  /\ phase'[u] \in {"idle", "scan", "wait"} => list'[u] = NoList
               /\ phase'[u] \notin {"idle", "scan", "wait"} => list'[u].slot \in Slots
    BY <1>6, <1>7 DEF SlotsInv, RecordersApart
  <2>2. \A u, v \in Threads : Records(u)' /\ Records(v)' /\ u # v => list'[u].slot # list'[v].slot
    BY <1>11, <1>12 DEF SlotsInv, RecordersApart
  <2>3. QED BY <1>11, <1>12, <2>1, <2>2 DEF RecordersApart
<1>14. ASSUME NEW s \in Slots
       PROVE  /\ slot'[s].value # 0 => slot'[s].reserved /\ slot'[s].value < nextValue'
              /\ slot'[s].reserved /\ slot'[s].value = 0 => \E u \in Threads : Records(u)' /\ list'[u].slot = s
  <2>1. CASE s = m BY <1>5, <2>1
  <2>2. CASE s # m
    <3>1. slot[s].reserved /\ slot[s].value = 0 => \E u \in Threads \ {t} : Records(u) /\ list[u].slot = s
      BY <2>2 DEF SlotsInv, SlotsOwned, m
    <3>2. QED BY <1>3, <1>5, <1>11, <1>12, <2>2, <3>1 DEF SlotsInv, SlotsOwned
  <2>3. QED BY <2>1, <2>2
<1>15. QED BY <1>8, <1>10, <1>13, <1>14 DEF SlotsInv, SlotsOwned

----
(* The queue: a submission enters it and leaves it.                        *)

LEMMA SubmitKeeps ==
  ASSUME SlotsInv, NEW t \in Threads, SubmitJob(t)
  PROVE  SlotsInv'
<1> DEFINE m == list[t].slot
           job == [value |-> nextValue, slot |-> m, uses |-> list[t].held]
<1>1. /\ Records(t) /\ m \in Slots /\ SlotsTypeOK
      /\ slot \in [Slots -> SlotRecords] /\ slot[m].reserved /\ slot[m].value = 0
  BY SlotsAreRecords DEF SubmitJob, Records, SlotsInv, RecordersApart
<1>2. /\ nextValue \in 1 .. MaxValue /\ nextValue' = nextValue + 1 /\ jobs' = Append(jobs, job)
      /\ completed' = completed /\ completed < nextValue /\ nextValue \in Nat /\ completed \in Nat
  BY <1>1, SlotsAreRecords, ComputeAssumption DEF SubmitJob, SlotsTypeOK
<1>3. UNCHANGED <<open, destroyed, waiting, handle>> BY DEF SubmitJob
<1>4. list[t].held \in SUBSET Buffers /\ list[t] \in [slot : Slots \cup {0}, held : SUBSET Buffers]
  BY <1>1 DEF SlotsTypeOK
<1>5. job \in JobRecords BY <1>1, <1>2, <1>4 DEF JobRecords
<1>6. jobs \in Seq(JobRecords) /\ jobs' \in Seq(JobRecords) /\ Len(jobs) \in Nat
  BY <1>1, <1>2, <1>5 DEF SlotsTypeOK, JobRecords
<1>7. /\ DOMAIN jobs = 1 .. Len(jobs) /\ DOMAIN jobs' = 1 .. (Len(jobs) + 1)
      /\ jobs'[Len(jobs) + 1] = job /\ \A k \in 1 .. Len(jobs) : jobs'[k] = jobs[k]
  BY <1>2, <1>5, <1>6
<1>8. /\ slot' \in [Slots -> SlotRecords]
      /\ slot'[m].value = nextValue /\ slot'[m].held = list[t].held /\ slot'[m].commands = "pending"
      /\ slot'[m].reserved /\ \A s \in Slots \ {m} : slot'[s] = slot[s]
  <2> DEFINE one == [slot EXCEPT ![m].value = nextValue]
             two == [one EXCEPT ![m].held = list[t].held]
             three == [two EXCEPT ![m].commands = "pending"]
  <2>1. slot' = three BY DEF SubmitJob
  <2>2. nextValue \in 0 .. MaxValue BY <1>2, ComputeAssumption
  <2> HIDE DEF m
  <2>3. /\ one \in [Slots -> SlotRecords] /\ one[m].value = nextValue /\ one[m].reserved
        /\ \A s \in Slots \ {m} : one[s] = slot[s]
    BY <1>1, <2>2 DEF SlotRecords
  <2> HIDE DEF one
  <2>4. /\ two \in [Slots -> SlotRecords] /\ two[m].value = nextValue /\ two[m].reserved
        /\ two[m].held = list[t].held /\ \A s \in Slots \ {m} : two[s] = one[s]
    BY <1>1, <1>4, <2>3 DEF SlotRecords
  <2> HIDE DEF two
  <2>5. /\ three \in [Slots -> SlotRecords] /\ three[m].value = nextValue /\ three[m].reserved
        /\ three[m].held = list[t].held /\ three[m].commands = "pending"
        /\ \A s \in Slots \ {m} : three[s] = two[s]
    BY <1>1, <2>4 DEF SlotRecords
  <2> HIDE DEF three
  <2>6. QED BY <2>1, <2>3, <2>4, <2>5
<1>9. /\ list' \in [Threads -> [slot : Slots \cup {0}, held : SUBSET Buffers]]
      /\ list'[t].slot = m /\ \A u \in Threads \ {t} : list'[u] = list[u]
  <2>1. list' = [list EXCEPT ![t].held = {}] BY DEF SubmitJob
  <2>2. QED BY <1>1, <2>1 DEF SlotsTypeOK
<1>10. /\ phase' \in [Threads -> {"idle", "scan", "wait", "begin", "recording", "ended", "submitted"}]
       /\ phase'[t] = "submitted" /\ \A u \in Threads \ {t} : phase'[u] = phase[u]
  BY <1>1 DEF SubmitJob, Enter, SlotsTypeOK
<1>11. token' \in [Threads -> 0 .. MaxValue]
  <2>1. nextValue \in 0 .. MaxValue BY <1>2, ComputeAssumption
  <2>2. token' = [token EXCEPT ![t] = nextValue] BY DEF SubmitJob
  <2>3. QED BY <1>1, <2>1, <2>2 DEF SlotsTypeOK
<1> HIDE DEF m, job
<1>12. SlotsTypeOK'
  <2>1. \A u \in Threads : waiting'[u] # 0 <=> phase'[u] = "wait"
    BY <1>1, <1>3, <1>10 DEF SlotsTypeOK, Records
  <2>2. nextValue' \in 1 .. (MaxValue + 1) /\ completed' \in 0 .. (nextValue' - 1)
    BY <1>2, ComputeAssumption
  <2>3. QED
    BY <1>1, <1>3, <1>6, <1>8, <1>9, <1>10, <1>11, <2>1, <2>2 DEF SlotsTypeOK, SlotRecords, JobRecords
<1>13. ASSUME NEW k \in 1 .. Len(jobs)
       PROVE  /\ k \in DOMAIN jobs /\ jobs[k].slot \in Slots /\ jobs[k].slot # m /\ slot'[jobs[k].slot] = slot[jobs[k].slot]
              /\ jobs[k].value < nextValue /\ jobs[k].value \in Nat
  <2>1. k \in DOMAIN jobs BY <1>7
  <2>2. jobs[k].slot \in Slots /\ jobs[k].slot # m /\ jobs[k].value \in Nat
    BY <1>1, <2>1, RecorderIsNotPending, JobsAreJobs DEF m
  <2>3. QED BY <1>8, <2>1, <2>2 DEF SlotsInv, JobsPending
<1>14. JobsPending'
  <2> SUFFICES ASSUME NEW k \in DOMAIN jobs'
               PROVE  /\ completed' < jobs'[k].value /\ jobs'[k].value < nextValue'
                      /\ slot'[jobs'[k].slot].commands = "pending" /\ slot'[jobs'[k].slot].reserved
                      /\ slot'[jobs'[k].slot].value = jobs'[k].value
                      /\ jobs'[k].uses \subseteq slot'[jobs'[k].slot].held
    BY DEF JobsPending
  <2>1. CASE k \in 1 .. Len(jobs)
    <3>1. jobs'[k] = jobs[k] /\ k \in DOMAIN jobs BY <1>7, <2>1
    <3>2. QED BY <1>2, <1>13, <2>1, <3>1 DEF SlotsInv, JobsPending
  <2>2. CASE k = Len(jobs) + 1
    <3>1. jobs'[k].value = nextValue /\ jobs'[k].slot = m /\ jobs'[k].uses = list[t].held
      BY <1>7, <2>2 DEF job
    <3>2. QED BY <1>2, <1>8, <3>1
  <2>3. QED BY <1>6, <1>7, <2>1, <2>2
<1>15. JobsInOrder'
  <2> SUFFICES ASSUME NEW k \in DOMAIN jobs', NEW l \in DOMAIN jobs', k < l
               PROVE  jobs'[k].value < jobs'[l].value
    BY DEF JobsInOrder
  <2>1. k \in 1 .. Len(jobs) /\ jobs'[k] = jobs[k] /\ k \in DOMAIN jobs BY <1>6, <1>7
  <2>2. CASE l = Len(jobs) + 1
    <3>1. jobs'[l].value = nextValue BY <1>7, <2>2 DEF job
    <3>2. QED BY <1>13, <2>1, <3>1
  <2>3. CASE l \in 1 .. Len(jobs)
    <3>1. jobs'[l] = jobs[l] /\ l \in DOMAIN jobs BY <1>7, <2>3
    <3>2. QED BY <2>1, <3>1 DEF SlotsInv, JobsInOrder
  <2>4. QED BY <1>6, <1>7, <2>2, <2>3
<1>16. ~Records(t)' /\ \A u \in Threads \ {t} : Records(u)' <=> Records(u) BY <1>10 DEF Records
<1>17. ASSUME NEW u \in Threads \ {t}, Records(u)
       PROVE  /\ list[u].slot \in Slots \ {m} /\ list'[u] = list[u]
              /\ slot'[list[u].slot].reserved /\ slot'[list[u].slot].value = 0
  BY <1>1, <1>8, <1>9, <1>17 DEF SlotsInv, RecordersApart, Records, m
<1>18. RecordersApart'
  <2>1. ASSUME NEW u \in Threads
        PROVE  /\ phase'[u] \in {"idle", "scan", "wait"} => list'[u] = NoList
               /\ phase'[u] \notin {"idle", "scan", "wait"} => list'[u].slot \in Slots
    BY <1>1, <1>9, <1>10 DEF SlotsInv, RecordersApart
  <2>2. \A u, v \in Threads : Records(u)' /\ Records(v)' /\ u # v => list'[u].slot # list'[v].slot
    BY <1>16, <1>17 DEF SlotsInv, RecordersApart
  <2>3. QED BY <1>16, <1>17, <2>1, <2>2 DEF RecordersApart
<1>19. ASSUME NEW s \in Slots
       PROVE  /\ slot'[s].value # 0 => slot'[s].reserved /\ slot'[s].value < nextValue'
              /\ slot'[s].reserved /\ slot'[s].value = 0 => \E u \in Threads : Records(u)' /\ list'[u].slot = s
  <2>1. CASE s = m BY <1>2, <1>8, <2>1
  <2>2. CASE s # m
    <3>1. slot[s].reserved /\ slot[s].value = 0 => \E u \in Threads \ {t} : Records(u) /\ list[u].slot = s
      BY <2>2 DEF SlotsInv, SlotsOwned, m
    <3>2. slot'[s] = slot[s] /\ slot[s].value \in Nat
      BY <1>1, <1>8, <2>2, ComputeAssumption DEF SlotRecords
    <3>3. slot[s].value # 0 => slot[s].reserved /\ slot[s].value < nextValue'
      BY <1>2, <3>2 DEF SlotsInv, SlotsOwned
    <3>4. QED BY <1>16, <1>17, <3>1, <3>2, <3>3
  <2>3. QED BY <2>1, <2>2
<1>20. QED BY <1>12, <1>14, <1>15, <1>18, <1>19 DEF SlotsInv, SlotsOwned

LEMMA FinishKeeps ==
  ASSUME SlotsInv, QueueFinishes
  PROVE  SlotsInv'
<1> DEFINE m == Head(jobs).slot
<1>1. /\ jobs \in Seq(JobRecords) /\ jobs # <<>> /\ Len(jobs) \in Nat \ {0} /\ SlotsTypeOK
      /\ slot \in [Slots -> SlotRecords] /\ completed \in Nat /\ nextValue \in Nat
  <2>1. jobs \in Seq(JobRecords) /\ jobs # <<>>
    BY DEF QueueFinishes, SlotsInv, SlotsTypeOK, JobRecords
  <2>2. QED BY <2>1, SlotsAreRecords, EmptySeq, LenProperties DEF SlotsInv
<1>2. /\ Head(jobs) = jobs[1] /\ 1 \in DOMAIN jobs /\ Head(jobs) \in JobRecords /\ DOMAIN jobs = 1 .. Len(jobs)
      /\ jobs' = Tail(jobs) /\ jobs' \in Seq(JobRecords) /\ DOMAIN jobs' = 1 .. (Len(jobs) - 1)
      /\ \A k \in 1 .. (Len(jobs) - 1) : jobs'[k] = jobs[k + 1] /\ k + 1 \in DOMAIN jobs
  <2>1. jobs' = Tail(jobs) BY DEF QueueFinishes
  <2>2. Head(jobs) = jobs[1] /\ 1 \in DOMAIN jobs /\ Head(jobs) \in JobRecords /\ DOMAIN jobs = 1 .. Len(jobs)
    BY <1>1
  <2>3. /\ Tail(jobs) \in Seq(JobRecords) /\ Len(Tail(jobs)) = Len(jobs) - 1
        /\ \A k \in 1 .. Len(Tail(jobs)) : Tail(jobs)[k] = jobs[k + 1]
    BY <1>1, HeadTailProperties
  <2>4. QED BY <1>1, <2>1, <2>2, <2>3
<1>3. /\ m \in Slots /\ m = jobs[1].slot /\ slot[m].value = jobs[1].value /\ jobs[1].value \in 1 .. MaxValue
      /\ jobs[1].value < nextValue /\ completed' = jobs[1].value
  BY <1>2 DEF QueueFinishes, SlotsInv, JobsPending, JobRecords
<1>4. UNCHANGED <<open, destroyed, nextValue, phase, waiting, list, token, handle>>
  BY DEF QueueFinishes
<1> HIDE DEF m
<1>5. /\ slot' \in [Slots -> SlotRecords]
      /\ \A s \in Slots : slot'[s].value = slot[s].value /\ slot'[s].reserved = slot[s].reserved
      /\ \A s \in Slots \ {m} : slot'[s] = slot[s]
  <2>1. slot' = [slot EXCEPT ![m].commands = IF @ = "pending" THEN "executable" ELSE @]
    BY DEF QueueFinishes, m
  <2> DEFINE c == IF slot[m].commands = "pending" THEN "executable" ELSE slot[m].commands
  <2>2. c \in {"initial", "recording", "executable", "pending", "invalid"}
    BY <1>1, <1>3 DEF SlotRecords
  <2>3. slot' = [slot EXCEPT ![m].commands = c] BY <2>1
  <2> HIDE DEF c
  <2>4. slot' = [slot EXCEPT ![m] = [slot[m] EXCEPT !.commands = c]] BY <2>3
  <2>5. [slot[m] EXCEPT !.commands = c] \in SlotRecords BY <1>1, <1>3, <2>2 DEF SlotRecords
  <2>6. QED BY <1>1, <1>3, <2>4, <2>5 DEF SlotRecords
<1>6. SlotsTypeOK'
  <2>1. completed' \in 0 .. (nextValue' - 1) BY <1>1, <1>3, <1>4, ComputeAssumption
  <2>2. QED BY <1>1, <1>2, <1>4, <1>5, <2>1 DEF SlotsTypeOK, SlotRecords, JobRecords
<1>7. ASSUME NEW k \in DOMAIN jobs'
      PROVE  /\ k + 1 \in DOMAIN jobs /\ jobs'[k] = jobs[k + 1] /\ jobs[1].value < jobs[k + 1].value
             /\ slot'[jobs[k + 1].slot] = slot[jobs[k + 1].slot]
  <2>1. k + 1 \in DOMAIN jobs /\ jobs'[k] = jobs[k + 1] /\ 1 < k + 1 BY <1>1, <1>2
  <2>2. jobs[1].value < jobs[k + 1].value BY <1>2, <2>1 DEF SlotsInv, JobsInOrder
  <2>3. slot[jobs[k + 1].slot].value = jobs[k + 1].value /\ jobs[k + 1].slot \in Slots
    BY <1>1, <2>1, JobsAreJobs DEF SlotsInv, JobsPending
  <2>4. jobs[k + 1].value \in Nat /\ jobs[1].value \in Nat BY <1>1, <1>2, <2>1, JobsAreJobs
  <2>5. jobs[k + 1].slot # m BY <1>3, <2>2, <2>3, <2>4
  <2>6. QED BY <1>5, <2>1, <2>2, <2>3, <2>5
<1>8. JobsPending'
  <2> SUFFICES ASSUME NEW k \in DOMAIN jobs'
               PROVE  /\ completed' < jobs'[k].value /\ jobs'[k].value < nextValue'
                      /\ slot'[jobs'[k].slot].commands = "pending" /\ slot'[jobs'[k].slot].reserved
                      /\ slot'[jobs'[k].slot].value = jobs'[k].value
                      /\ jobs'[k].uses \subseteq slot'[jobs'[k].slot].held
    BY DEF JobsPending
  <2>1. QED BY <1>3, <1>4, <1>7 DEF SlotsInv, JobsPending
<1>9. JobsInOrder'
  <2> SUFFICES ASSUME NEW k \in DOMAIN jobs', NEW l \in DOMAIN jobs', k < l
               PROVE  jobs'[k].value < jobs'[l].value
    BY DEF JobsInOrder
  <2>1. k + 1 < l + 1 BY <1>1, <1>2
  <2>2. QED BY <1>7, <2>1 DEF SlotsInv, JobsInOrder
<1>10. RecordersApart'
  <2>1. \A u \in Threads : Records(u)' <=> Records(u) BY <1>4 DEF Records
  <2>2. QED BY <1>4, <1>5, <2>1 DEF SlotsInv, RecordersApart, Records
<1>11. SlotsOwned' BY <1>4, <1>5 DEF SlotsInv, SlotsOwned, Records
<1>12. QED BY <1>6, <1>8, <1>9, <1>10, <1>11 DEF SlotsInv

\* When the state is destroyed the queue is empty and nobody records.
LEMMA DestroyKeeps ==
  ASSUME SlotsInv, DestroyState
  PROVE  SlotsInv'
<1> DEFINE Invalid == [FreeSlot EXCEPT !.commands = "invalid"]
<1>1. /\ completed >= nextValue - 1 /\ completed \in Nat /\ nextValue \in Nat
      /\ FreeSlot \in SlotRecords /\ FreeSlot.value = 0 /\ ~FreeSlot.reserved
  BY SlotsAreRecords DEF SlotsInv, DestroyState
<1>2. Invalid \in SlotRecords /\ Invalid.value = 0 /\ ~Invalid.reserved BY <1>1 DEF SlotRecords
<1>3. slot' = [s \in Slots |-> Invalid] BY DEF DestroyState
<1> HIDE DEF Invalid
<1>4. slot' \in [Slots -> SlotRecords] /\ \A s \in Slots : slot'[s].value = 0 /\ ~slot'[s].reserved
  BY <1>2, <1>3
<1>5. /\ UNCHANGED <<open, nextValue, jobs, completed, phase, waiting, list, token, handle>>
      /\ destroyed' \in BOOLEAN
  BY DEF DestroyState
<1>6. SlotsTypeOK' BY <1>4, <1>5 DEF SlotsInv, SlotsTypeOK, SlotRecords
<1>7. DOMAIN jobs = {}
  <2> SUFFICES ASSUME NEW k \in DOMAIN jobs PROVE FALSE OBVIOUS
  <2>1. completed < jobs[k].value /\ jobs[k].value < nextValue /\ jobs[k].value \in Nat
    BY JobsAreJobs DEF SlotsInv, JobsPending
  <2>2. QED BY <1>1, <2>1
<1>8. \A t \in Threads : ~Records(t)
  BY SlotsAreRecords DEF DestroyState, SlotsInv, RecordersApart, Records, NoList
<1>9. JobsPending' /\ JobsInOrder' BY <1>5, <1>7 DEF JobsPending, JobsInOrder
<1>10. RecordersApart' BY <1>5, <1>8 DEF SlotsInv, RecordersApart, Records
<1>11. SlotsOwned' BY <1>4 DEF SlotsOwned
<1>12. QED BY <1>6, <1>9, <1>10, <1>11 DEF SlotsInv

LEMMA SlotsStepInv == SlotsInv /\ [SlotsNext]_slotsVars => SlotsInv'
<1> SUFFICES ASSUME SlotsInv, [SlotsNext]_slotsVars PROVE SlotsInv' OBVIOUS
<1>1. CASE UNCHANGED slotsVars
  BY <1>1 DEF slotsVars, SlotsInv, SlotsTypeOK, JobsPending, JobsInOrder, RecordersApart, SlotsOwned, Records
<1>2. ASSUME NEW t \in Threads, ThreadStep(t) PROVE SlotsInv'
  BY <1>2, QuietActions, CollectKeeps, ScanKeeps, RecorderKeeps, GiveBackKeeps, SubmitKeeps DEF ThreadStep
<1>3. CASE \/ \E b \in Buffers : DropBuffer(b)
           \/ CloseContext \/ Gone
  BY <1>3, QuietActions
<1>4. CASE QueueFinishes BY <1>4, FinishKeeps
<1>5. CASE DestroyState BY <1>5, DestroyKeeps
<1>6. QED BY <1>1, <1>2, <1>3, <1>4, <1>5 DEF SlotsNext

----
(* The inductive invariant of the media pipeline.                          *)

PipelineThreads == Workers \cup {"main"}

\* Before the pipeline stands, and once main has joined it, no worker runs.
WorkersControl ==
  /\ pc["main"] = "launch" => \A c \in Children : child[c] = "none"
  /\ pc["main"] \in {"launch", "spawn_producer"} => pc["producer"] = "unborn"
  /\ pc["main"] \in {"launch", "spawn_producer", "spawn_consumer"} => pc["consumer"] = "unborn"
  /\ pc["main"] \in {"cleanup", "unlink", "succeeded", "failed"} => Joined

\* Who holds a frame.
ItemsInHand ==
  /\ pc["producer"] \in {"unborn", "source", "reap", "source_done"} => item["producer"] = 0
  /\ pc["producer"] = "push" => item["producer"] # 0
  /\ pc["consumer"] \in {"unborn", "pop", "close", "reap", "sink_done"} => item["consumer"] = 0
  /\ pc["consumer"] = "sink" => item["consumer"] # 0
  /\ pc["main"] \in {"launch", "spawn_producer", "spawn_consumer", "read", "finish", "await_sink", "join", "rename"}
       => item["main"] = 0
  /\ pc["main"] \in {"upscale", "write"} => item["main"] # 0

\* The source is done when the decoder exited with 0 and all its frames have been passed on.
SourceIsOver ==
  /\ pc["producer"] = "reap" => Dead("decoder") \/ (child["decoder"] = "clean" /\ delivered = total)
  /\ sourceDone \/ pc["producer"] = "source_done"
       => /\ child["decoder"] = "clean" /\ finished["decoder"]
          /\ delivered = total /\ item["producer"] = 0
  /\ sourceDone => pc["producer"] = "exited"

\* The output is done when main has passed on everything the source gave it.
OutputIsOver ==
  /\ outputDone \/ pc["main"] = "finish" => sourceDone /\ input = <<>> /\ item["main"] = 0
  /\ outputDone => pc["main"] \notin {"launch", "spawn_producer", "spawn_consumer", "read", "upscale", "write", "finish"}
  /\ pc["main"] \in {"await_sink", "join", "rename"} => outputDone

\* The sink is done when the encoder exited with 0 after everything was written to it.
SinkIsOver ==
  /\ sinkDone \/ pc["consumer"] \in {"close", "reap", "sink_done"}
       => outputDone /\ output = <<>> /\ item["consumer"] = 0
  /\ sinkDone \/ pc["consumer"] = "sink_done" => child["encoder"] = "clean" /\ finished["encoder"]
  /\ sinkDone => pc["consumer"] = "exited"
  /\ pc["main"] \in {"join", "rename"} => sinkDone

\* Main on its way out, having renamed the file if and only if nothing went wrong.
Leaving == {"stop", "stop_decoder", "stop_encoder", "exited", "cleanup"}
FileIsRight ==
  /\ file = "committed" => sinkDone /\ error = None /\ pc["main"] \in Leaving \cup {"succeeded"}
  /\ error = None /\ pc["main"] \in Leaving \cup {"succeeded"} => file = "committed"
  /\ pc["main"] \notin Leaving \cup {"rethrow", "unlink", "failed"} => error = None
  /\ pc["main"] \in {"rethrow", "unlink", "failed"} => error # None
  /\ pc["main"] = "failed" => file = "none"
  /\ pc["main"] \in {"unlink", "succeeded", "failed"}
       => \A c \in Children : child[c] # "running" /\ (child[c] # "none" => finished[c])

\* As long as main has not stopped the pipeline, only a failed worker has, and it left its failure.
ErrorsAreFirst ==
  /\ \A w \in Workers : pc[w] \in {"stop", "stop_decoder", "stop_encoder"} => failure # None
  /\ stopped \/ mediaStopped =>
       failure # None \/ pc["main"] \in (Leaving \ {"stop"}) \cup {"unlink", "succeeded", "failed"}
  /\ error \notin {"stopped", "undrained"}
  /\ error = "cancelled" => interrupted \/ (failure # None /\ pc["main"] = "rethrow")

\* A frame is counted when main passes it on.
WrittenIsCounted == written = Len(encoded) + Len(Held("consumer")) + Len(output)

MediaControl ==
  /\ WorkersControl /\ ItemsInHand
  /\ SourceIsOver /\ OutputIsOver /\ SinkIsOver
  /\ FileIsRight /\ ErrorsAreFirst

Labels ==
  {"unborn", "source", "reap", "source_done", "push", "pop", "sink", "close", "sink_done", "fail", "exited",
   "launch", "spawn_producer", "spawn_consumer", "read", "upscale", "write", "finish", "await_sink", "join",
   "rename", "rethrow", "stop", "stop_decoder", "stop_encoder", "cleanup", "unlink", "succeeded", "failed"}

MediaTypes == MediaTypeOK /\ pc \in [PipelineThreads -> Labels]

MediaInv == MediaTypes /\ MediaControl /\ FramesInOrder /\ WrittenIsCounted

----
(* Every step keeps the control invariant.                                 *)

LEMMA ControlIsKept == ASSUME MediaInv, MediaNext PROVE MediaControl'
<1> USE MediaAssumption
    DEF Goto, Take, NotifyAll, PipelineThreads, Workers, Children, Joined, Joinable, Dead, Leaving, MediaInv, MediaTypes,
        MediaTypeOK, MediaControl, WorkersControl, ItemsInHand, SourceIsOver, OutputIsOver, SinkIsOver,
        FileIsRight, ErrorsAreFirst, mediaVars, queueVars, ioVars, mainVars
<1>1. CASE Launch BY <1>1 DEF Launch
<1>2. CASE SpawnProducer
  <2>1. WorkersControl' /\ ItemsInHand' BY <1>2 DEF SpawnProducer, Spawn
  <2>2. SourceIsOver' /\ OutputIsOver' BY <1>2 DEF SpawnProducer, Spawn
  <2>3. SinkIsOver' BY <1>2 DEF SpawnProducer, Spawn
  <2>4. FileIsRight' BY <1>2 DEF SpawnProducer, Spawn
  <2>5. ErrorsAreFirst' BY <1>2 DEF SpawnProducer, Spawn
  <2>6. QED BY <2>1, <2>2, <2>3, <2>4, <2>5
<1>3. CASE SpawnConsumer BY <1>3 DEF SpawnConsumer, Spawn
<1>4. CASE Read BY <1>4 DEF Read, Trouble, Throw
<1>5. CASE Restore BY <1>5 DEF Restore, Throw
<1>6. CASE Write
  <2>1. WorkersControl' /\ ItemsInHand' BY <1>6 DEF Write, Trouble, Throw, HasRoom, Push
  <2>2. SourceIsOver' /\ OutputIsOver' BY <1>6 DEF Write, Trouble, Throw, HasRoom, Push
  <2>3. SinkIsOver' BY <1>6 DEF Write, Trouble, Throw, HasRoom, Push
  <2>4. FileIsRight' BY <1>6 DEF Write, Trouble, Throw, HasRoom, Push
  <2>5. ErrorsAreFirst' BY <1>6 DEF Write, Trouble, Throw, HasRoom, Push
  <2>6. QED BY <2>1, <2>2, <2>3, <2>4, <2>5
<1>7. CASE Finish BY <1>7 DEF Finish, Trouble, Throw
<1>8. CASE AwaitSink BY <1>8 DEF AwaitSink, Trouble, Throw
<1>9. CASE Join BY <1>9 DEF Join
<1>10. CASE Rename BY <1>10 DEF Rename
<1>11. CASE Rethrow BY <1>11 DEF Rethrow, PrimaryError
<1>12. CASE Stop("main") BY <1>12 DEF Stop
<1>13. CASE StopDecoder("main") BY <1>13 DEF StopDecoder, CancelChild
<1>14. CASE StopEncoder("main") BY <1>14 DEF StopEncoder, CancelChild
<1>15. CASE JoinStopped BY <1>15 DEF JoinStopped
<1>16. CASE DestroyChildren
  <2>1. WorkersControl' /\ ItemsInHand' BY <1>16 DEF DestroyChildren
  <2>2. SourceIsOver' /\ OutputIsOver' BY <1>16 DEF DestroyChildren
  <2>3. SinkIsOver' BY <1>16 DEF DestroyChildren
  <2>4. FileIsRight' BY <1>16 DEF DestroyChildren
  <2>5. ErrorsAreFirst' BY <1>16 DEF DestroyChildren
  <2>6. QED BY <2>1, <2>2, <2>3, <2>4, <2>5
<1>17. CASE Unlink BY <1>17 DEF Unlink
<1>18. CASE SourceEnd BY <1>18 DEF SourceEnd
<1>19. CASE ReapDecoder BY <1>19 DEF ReapDecoder, ExitedCleanly
<1>20. CASE SourceDone BY <1>20 DEF SourceDone
<1>21. CASE PushInput BY <1>21 DEF PushInput, HasRoom, Push
<1>22. CASE RecordFailure("producer") BY <1>22 DEF RecordFailure
<1>23. CASE Stop("producer") BY <1>23 DEF Stop
<1>24. CASE StopDecoder("producer") BY <1>24 DEF StopDecoder, CancelChild
<1>25. CASE StopEncoder("producer") BY <1>25 DEF StopEncoder, CancelChild
<1>26. CASE PopOutput
  <2>1. WorkersControl' /\ ItemsInHand' BY <1>26 DEF PopOutput
  <2>2. SourceIsOver' /\ OutputIsOver' BY <1>26 DEF PopOutput
  <2>3. SinkIsOver' BY <1>26 DEF PopOutput
  <2>4. FileIsRight' BY <1>26 DEF PopOutput
  <2>5. ErrorsAreFirst' BY <1>26 DEF PopOutput
  <2>6. QED BY <2>1, <2>2, <2>3, <2>4, <2>5
<1>27. CASE SinkBroken BY <1>27 DEF SinkBroken
<1>28. CASE CloseSink BY <1>28 DEF CloseSink
<1>29. CASE ReapEncoder BY <1>29 DEF ReapEncoder, ExitedCleanly
<1>30. CASE SinkDone BY <1>30 DEF SinkDone
<1>31. CASE RecordFailure("consumer") BY <1>31 DEF RecordFailure
<1>32. CASE Stop("consumer") BY <1>32 DEF Stop
<1>33. CASE StopDecoder("consumer") BY <1>33 DEF StopDecoder, CancelChild
<1>34. CASE StopEncoder("consumer") BY <1>34 DEF StopEncoder, CancelChild
<1>35. CASE SourceFrame BY <1>35 DEF SourceFrame
<1>36. CASE SinkFrame BY <1>36 DEF SinkFrame
<1>37. ASSUME NEW c \in Children, ChildExits(c) PROVE MediaControl' BY <1>37 DEF ChildExits
<1>38. CASE Interrupt \/ Terminated BY <1>38 DEF Interrupt, Terminated, Ended
<1>39. QED
  BY <1>1, <1>2, <1>3, <1>4, <1>5, <1>6, <1>7, <1>8, <1>9, <1>10, <1>11, <1>12, <1>13, <1>14, <1>15,
     <1>16, <1>17, <1>18, <1>19, <1>20, <1>21, <1>22, <1>23, <1>24, <1>25, <1>26, <1>27, <1>28,
     <1>29, <1>30, <1>31, <1>32, <1>33, <1>34, <1>35, <1>36, <1>37, <1>38
  DEF MediaNext, MainStep, ProducerStep, ConsumerStep, ChildStep, StopStep

----
(* The frames between the decoder and the encoder, as one sequence.        *)

ToOutput == encoded \o Held("consumer") \o output
ToInput == ToOutput \o Held("main") \o input

\* A frame that is passed on keeps its place.
LEMMA PassOn ==
  ASSUME NEW S, NEW X \in Seq(S), NEW q \in Seq(S), NEW x \in S
  PROVE  (X \o Append(q, x)) \o <<>> = (X \o q) \o <<x>>
<1>1. Append(q, x) = q \o <<x>> /\ <<x>> \in Seq(S) /\ Append(q, x) \in Seq(S)
  BY AppendIsConcat, AppendProperties
<1>2. X \o (q \o <<x>>) = (X \o q) \o <<x>> BY <1>1, ConcatAssociative
<1>3. X \o Append(q, x) \in Seq(S) BY <1>1, ConcatProperties
<1>4. (X \o Append(q, x)) \o <<>> = X \o Append(q, x) BY <1>3, ConcatEmptySeq
<1>5. QED BY <1>1, <1>2, <1>4

LEMMA HeadThenTail ==
  ASSUME NEW S, NEW q \in Seq(S), q # <<>>
  PROVE  q = <<Head(q)>> \o Tail(q)
<1>1. Head(q) \in S /\ Tail(q) \in Seq(S) /\ Len(Tail(q)) = Len(q) - 1 /\ Head(q) = q[1] /\ Len(q) \in Nat \ {0}
  BY HeadTailProperties, EmptySeq
<1>2. \A i \in 1 .. Len(Tail(q)) : Tail(q)[i] = q[i + 1] BY HeadTailProperties
<1>3. <<Head(q)>> \in Seq(S) /\ Len(<<Head(q)>>) = 1 /\ <<Head(q)>>[1] = q[1] BY <1>1
<1> DEFINE r == <<Head(q)>> \o Tail(q)
<1>4. /\ r \in Seq(S) /\ Len(r) = 1 + Len(Tail(q))
      /\ \A i \in 1 .. 1 + Len(Tail(q)) : r[i] = IF i <= 1 THEN <<Head(q)>>[i] ELSE Tail(q)[i - 1]
  BY <1>1, <1>3, ConcatProperties
<1> HIDE DEF r
<1>5. Len(q) = Len(r) BY <1>1, <1>4
<1>6. \A i \in 1 .. Len(q) : q[i] = r[i]
  <2> SUFFICES ASSUME NEW i \in 1 .. Len(q) PROVE q[i] = r[i] OBVIOUS
  <2>1. CASE i = 1 BY <1>1, <1>3, <1>4, <2>1
  <2>2. CASE i # 1
    <3>1. i - 1 \in 1 .. Len(Tail(q)) /\ i \in 1 .. 1 + Len(Tail(q)) /\ ~(i <= 1) /\ (i - 1) + 1 = i
      BY <1>1, <2>2
    <3>2. QED BY <1>2, <1>4, <3>1
  <2>3. QED BY <2>1, <2>2
<1>7. q = r BY <1>4, <1>5, <1>6, SeqEqual
<1>8. QED BY <1>7 DEF r

\* So does one that is taken from a queue.
LEMMA TakeFirst ==
  ASSUME NEW S, NEW X \in Seq(S), NEW q \in Seq(S), q # <<>>
  PROVE  (X \o <<>>) \o q = (X \o <<Head(q)>>) \o Tail(q)
<1>1. X \o <<>> = X BY ConcatEmptySeq
<1>2. Head(q) \in S /\ Tail(q) \in Seq(S) /\ <<Head(q)>> \in Seq(S) /\ q = <<Head(q)>> \o Tail(q)
  BY HeadTailProperties, HeadThenTail
<1>3. X \o (<<Head(q)>> \o Tail(q)) = (X \o <<Head(q)>>) \o Tail(q) BY <1>2, ConcatAssociative
<1>4. QED BY <1>1, <1>2, <1>3

\* The next frame follows those before it.
LEMMA NextFrame ==
  ASSUME NEW n \in Nat
  PROVE  [i \in 1 .. n |-> i] \o <<n + 1>> = [i \in 1 .. (n + 1) |-> i]
<1> DEFINE s == [i \in 1 .. n |-> i]
           r == [i \in 1 .. (n + 1) |-> i]
<1>1. /\ s \in Seq(Nat) /\ Len(s) = n /\ \A i \in 1 .. n : s[i] = i
      /\ r \in Seq(Nat) /\ Len(r) = n + 1 /\ \A i \in 1 .. (n + 1) : r[i] = i
      /\ <<n + 1>> \in Seq(Nat) /\ Len(<<n + 1>>) = 1 /\ <<n + 1>>[1] = n + 1
  OBVIOUS
<1> HIDE DEF s, r
<1>2. /\ s \o <<n + 1>> \in Seq(Nat) /\ Len(s \o <<n + 1>>) = n + 1
      /\ \A i \in 1 .. (n + 1) : (s \o <<n + 1>>)[i] = IF i <= n THEN s[i] ELSE <<n + 1>>[i - n]
  BY <1>1, ConcatProperties
<1>3. \A i \in 1 .. (n + 1) : (s \o <<n + 1>>)[i] = r[i]
  <2> SUFFICES ASSUME NEW i \in 1 .. (n + 1) PROVE (s \o <<n + 1>>)[i] = r[i] OBVIOUS
  <2>1. CASE i <= n
    <3>1. i \in 1 .. n BY <2>1
    <3>2. (s \o <<n + 1>>)[i] = s[i] /\ s[i] = i /\ r[i] = i BY <1>1, <1>2, <2>1, <3>1
    <3>3. QED BY <3>2
  <2>2. CASE i = n + 1
    <3>1. i - n = 1 /\ ~(i <= n) BY <2>2
    <3>2. QED BY <1>1, <1>2, <2>2, <3>1
  <2>3. i <= n \/ i = n + 1 OBVIOUS
  <2>4. QED BY <2>1, <2>2, <2>3
<1>4. s \o <<n + 1>> = r BY <1>1, <1>2, <1>3, SeqEqual
<1>5. QED BY <1>4 DEF s, r

\* What the invariant says of the frames and of their number.
LEMMA FramesAreTyped ==
  ASSUME MediaInv
  PROVE  /\ \A th \in PipelineThreads : Held(th) \in Seq(1 .. total) /\ Len(Held(th)) \in Nat
         /\ encoded \o Held("consumer") \in Seq(1 .. total)
         /\ ToOutput \in Seq(1 .. total) /\ ToOutput \o Held("main") \in Seq(1 .. total)
         /\ ToInput \in Seq(1 .. total)
         /\ ToInput \o Held("producer") = [i \in 1 .. delivered |-> i]
         /\ total \in Nat /\ delivered \in 0 .. total
         /\ written = Len(ToOutput)
         /\ Len(encoded) \in Nat /\ Len(output) \in Nat
         /\ written + Len(Held("main")) + Len(input) + Len(Held("producer")) = delivered
<1>1. /\ item \in [PipelineThreads -> 0 .. total] /\ total \in Nat /\ delivered \in 0 .. total
      /\ encoded \in Seq(1 .. total) /\ output \in Seq(1 .. total) /\ input \in Seq(1 .. total)
  BY MediaAssumption DEF MediaInv, MediaTypes, MediaTypeOK, PipelineThreads
<1>2. \A th \in PipelineThreads : Held(th) \in Seq(1 .. total)
  <2> SUFFICES ASSUME NEW th \in PipelineThreads PROVE Held(th) \in Seq(1 .. total) OBVIOUS
  <2>1. item[th] # 0 => item[th] \in 1 .. total BY <1>1
  <2>2. CASE item[th] = 0 BY <2>2 DEF Held
  <2>3. CASE item[th] # 0
    <3>1. Held(th) = <<item[th]>> BY <2>3 DEF Held
    <3>2. <<item[th]>> \in Seq(1 .. total) BY <2>1, <2>3
    <3>3. QED BY <3>1, <3>2
  <2>4. QED BY <2>2, <2>3
<1>3. "consumer" \in PipelineThreads /\ "main" \in PipelineThreads /\ "producer" \in PipelineThreads
  BY DEF PipelineThreads, Workers
<1>4. /\ encoded \o Held("consumer") \in Seq(1 .. total)
      /\ Len(encoded \o Held("consumer")) = Len(encoded) + Len(Held("consumer"))
  BY <1>1, <1>2, <1>3, ConcatProperties
<1>5. ToOutput \in Seq(1 .. total) /\ Len(ToOutput) = Len(encoded) + Len(Held("consumer")) + Len(output)
  BY <1>1, <1>4, ConcatProperties DEF ToOutput
<1>6. ToOutput \o Held("main") \in Seq(1 .. total) /\ Len(ToOutput \o Held("main")) = Len(ToOutput) + Len(Held("main"))
  BY <1>2, <1>3, <1>5, ConcatProperties
<1>7. ToInput \in Seq(1 .. total) /\ Len(ToInput) = Len(ToOutput) + Len(Held("main")) + Len(input)
  BY <1>1, <1>6, ConcatProperties DEF ToInput
<1>8. ToInput \o Held("producer") = [i \in 1 .. delivered |-> i]
  BY DEF MediaInv, FramesInOrder, ToInput, ToOutput
<1>9. Len(ToInput \o Held("producer")) = Len(ToInput) + Len(Held("producer"))
  BY <1>2, <1>3, <1>7, ConcatProperties
<1>10. Len([i \in 1 .. delivered |-> i]) = delivered BY <1>1
<1>11. /\ \A th \in PipelineThreads : Len(Held(th)) \in Nat
       /\ Len(encoded) \in Nat /\ Len(output) \in Nat
  BY <1>1, <1>2, LenProperties
<1>12. QED
  BY <1>1, <1>2, <1>4, <1>5, <1>6, <1>7, <1>8, <1>9, <1>10, <1>11 DEF MediaInv, WrittenIsCounted

----
(* No step loses, repeats or reorders a frame.                             *)

LEMMA FramesStayThere ==
  ASSUME MediaInv, UNCHANGED <<encoded, item, output, input, delivered, written>>
  PROVE  FramesInOrder' /\ WrittenIsCounted'
BY DEF MediaInv, FramesInOrder, WrittenIsCounted, Held

\* What Held is after a step that changes what one thread has in hand.
LEMMA HeldAfter ==
  ASSUME MediaInv, NEW th \in PipelineThreads, NEW x, item' = [item EXCEPT ![th] = x]
  PROVE  /\ Held(th)' = IF x = 0 THEN <<>> ELSE <<x>>
         /\ \A u \in PipelineThreads \ {th} : Held(u)' = Held(u)
<1>1. item \in [PipelineThreads -> 0 .. total]
  BY DEF MediaInv, MediaTypes, MediaTypeOK, PipelineThreads
<1>2. item'[th] = x /\ \A u \in PipelineThreads \ {th} : item'[u] = item[u] BY <1>1
<1>3. QED BY <1>2 DEF Held

LEMMA FramesKeepOrder ==
  ASSUME MediaInv, MediaNext
  PROVE  FramesInOrder' /\ WrittenIsCounted'
<1>1. /\ "consumer" \in PipelineThreads /\ "main" \in PipelineThreads /\ "producer" \in PipelineThreads
      /\ item \in [PipelineThreads -> 0 .. total]
      /\ encoded \in Seq(1 .. total) /\ output \in Seq(1 .. total) /\ input \in Seq(1 .. total)
  BY DEF MediaInv, MediaTypes, MediaTypeOK, PipelineThreads, Workers
<1>2. ItemsInHand BY DEF MediaInv, MediaControl
<1>3. CASE SourceFrame
  <2>1. item["producer"] = 0 /\ item' = [item EXCEPT !["producer"] = delivered + 1] /\ delivered' = delivered + 1
    BY <1>2, <1>3 DEF SourceFrame, Take, ItemsInHand
  <2>2. UNCHANGED <<encoded, output, input, written>> BY <1>3 DEF SourceFrame, queueVars, mainVars
  <2>3. Held("producer") = <<>> /\ Held("producer")' = <<delivered + 1>>
        /\ Held("consumer")' = Held("consumer") /\ Held("main")' = Held("main")
    BY <1>1, <2>1, HeldAfter, FramesAreTyped DEF Held
  <2>4. ToInput = [i \in 1 .. delivered |-> i]
    <3>1. ToInput \o <<>> = ToInput BY FramesAreTyped, ConcatEmptySeq
    <3>2. QED BY <2>3, <3>1, FramesAreTyped
  <2>5. ToInput' = ToInput BY <2>2, <2>3 DEF ToInput, ToOutput
  <2>6. ToInput' \o Held("producer")' = [i \in 1 .. delivered' |-> i]
    <3>1. delivered \in Nat BY FramesAreTyped
    <3>2. QED BY <2>1, <2>3, <2>4, <2>5, <3>1, NextFrame
  <2>7. QED BY <2>2, <2>3, <2>6 DEF FramesInOrder, ToInput, ToOutput, WrittenIsCounted, MediaInv
<1>4. CASE PushInput
  <2>1. CASE UNCHANGED <<input, item>>
    BY <1>4, <2>1, FramesStayThere DEF PushInput, ioVars, mainVars
  <2>2. CASE input' = Append(input, item["producer"]) /\ item' = [item EXCEPT !["producer"] = 0]
    <3>1. item["producer"] \in 1 .. total BY <1>1, <1>2, <1>4 DEF PushInput, ItemsInHand
    <3>2. Held("producer") = <<item["producer"]>> /\ Held("producer")' = <<>>
          /\ Held("consumer")' = Held("consumer") /\ Held("main")' = Held("main")
      BY <1>1, <2>2, <3>1, HeldAfter DEF Held
    <3>3. UNCHANGED <<encoded, output, delivered, written>> BY <1>4 DEF PushInput, ioVars, mainVars
    <3>4. ((ToOutput \o Held("main")) \o input') \o <<>> = ((ToOutput \o Held("main")) \o input) \o <<item["producer"]>>
      <4>1. ToOutput \o Held("main") \in Seq(1 .. total) BY FramesAreTyped
      <4>2. ((ToOutput \o Held("main")) \o Append(input, item["producer"])) \o <<>>
            = ((ToOutput \o Held("main")) \o input) \o <<item["producer"]>>
        BY <1>1, <3>1, <4>1, PassOn
      <4>3. QED BY <2>2, <4>2
    <3>5. ToOutput' = ToOutput BY <3>2, <3>3 DEF ToOutput
    <3>6. ToInput' \o Held("producer")' = ToInput \o Held("producer")
      BY <3>2, <3>4, <3>5 DEF ToInput
    <3>7. QED BY <3>2, <3>3, <3>6 DEF MediaInv, FramesInOrder, ToInput, ToOutput, WrittenIsCounted
  <2>3. QED BY <1>4, <2>1, <2>2 DEF PushInput, Take, Push
<1>5. CASE PopOutput
  <2>1. CASE UNCHANGED <<output, item>>
    BY <1>5, <2>1, FramesStayThere DEF PopOutput, ioVars, mainVars
  <2>2. CASE output # <<>> /\ item' = [item EXCEPT !["consumer"] = Head(output)] /\ output' = Tail(output)
    <3>1. Head(output) \in 1 .. total /\ Len(Tail(output)) = Len(output) - 1 /\ Len(output) \in Nat
      BY <1>1, <2>2, HeadTailProperties, LenProperties
    <3>2. Held("consumer") = <<>> BY <1>2, <1>5 DEF PopOutput, ItemsInHand, Held
    <3>3. Held("consumer")' = <<Head(output)>> /\ Held("producer")' = Held("producer") /\ Held("main")' = Held("main")
      <4>1. /\ Held("consumer")' = IF Head(output) = 0 THEN <<>> ELSE <<Head(output)>>
            /\ \A u \in PipelineThreads \ {"consumer"} : Held(u)' = Held(u)
        BY <1>1, <2>2, HeldAfter
      <4>2. Head(output) # 0 BY <3>1
      <4>3. QED BY <1>1, <4>1, <4>2
    <3>4. UNCHANGED <<encoded, input, delivered, written>> BY <1>5 DEF PopOutput, ioVars, mainVars
    <3>5. (encoded \o <<>>) \o output = (encoded \o <<Head(output)>>) \o Tail(output)
      BY <1>1, <2>2, TakeFirst
    <3>6. ToOutput' = ToOutput BY <2>2, <3>2, <3>3, <3>4, <3>5 DEF ToOutput
    <3>7. FramesInOrder' BY <3>3, <3>4, <3>6 DEF MediaInv, FramesInOrder, ToOutput
    <3>8. Len(<<>>) = 0 /\ Len(<<Head(output)>>) = 1 /\ Len(encoded) \in Nat BY <1>1, LenProperties
    <3>9. WrittenIsCounted'
      <4>1. written = Len(encoded) + Len(Held("consumer")) + Len(output)
        BY DEF MediaInv, WrittenIsCounted
      <4>2. Len(Held("consumer")) = 0 /\ Len(Held("consumer")') = 1 /\ Len(output') = Len(output) - 1
        BY <2>2, <3>1, <3>2, <3>3, <3>8
      <4>3. written' = Len(encoded') + Len(Held("consumer")') + Len(output')
        <5>1. written' = written /\ Len(encoded') = Len(encoded) BY <3>4
        <5>2. written = Len(encoded) + 0 + Len(output) BY <4>1, <4>2
        <5>3. Len(encoded) + 0 + Len(output) = Len(encoded) + 1 + (Len(output) - 1) BY <3>1, <3>8
        <5>4. QED BY <4>2, <5>1, <5>2, <5>3
      <4>4. QED BY <4>3 DEF WrittenIsCounted
    <3>10. QED BY <3>7, <3>9
  <2>3. QED BY <1>5, <2>1, <2>2 DEF PopOutput, Take
<1>6. CASE SinkFrame
  <2>1. item["consumer"] \in 1 .. total BY <1>1, <1>2, <1>6 DEF SinkFrame, ItemsInHand
  <2>2. encoded' = Append(encoded, item["consumer"]) /\ item' = [item EXCEPT !["consumer"] = 0]
    BY <1>6 DEF SinkFrame, Take
  <2>3. Held("consumer") = <<item["consumer"]>> /\ Held("consumer")' = <<>>
        /\ Held("producer")' = Held("producer") /\ Held("main")' = Held("main")
    BY <1>1, <2>1, <2>2, HeldAfter DEF Held
  <2>4. UNCHANGED <<output, input, delivered, written>> BY <1>6 DEF SinkFrame, queueVars, mainVars
  <2>5. encoded' \o <<>> = encoded \o <<item["consumer"]>>
    <3>1. encoded' \in Seq(1 .. total) /\ encoded' = encoded \o <<item["consumer"]>>
      BY <1>1, <2>1, <2>2, AppendProperties, AppendIsConcat
    <3>2. QED BY <3>1, ConcatEmptySeq
  <2>6. ToOutput' = ToOutput BY <2>3, <2>4, <2>5 DEF ToOutput
  <2>7. FramesInOrder' BY <2>3, <2>4, <2>6 DEF MediaInv, FramesInOrder, ToOutput
  <2>8. Len(encoded') = Len(encoded) + 1 /\ Len(<<>>) = 0 /\ Len(<<item["consumer"]>>) = 1 /\ Len(encoded) \in Nat
    BY <1>1, <2>1, <2>2, AppendProperties, LenProperties
  <2>9. WrittenIsCounted'
    <3>1. written = Len(encoded) + Len(Held("consumer")) + Len(output)
      BY DEF MediaInv, WrittenIsCounted
    <3>2. Len(Held("consumer")) = 1 /\ Len(Held("consumer")') = 0 BY <2>3, <2>8
    <3>3. Len(output) \in Nat BY <1>1, LenProperties
    <3>4. written' = Len(encoded') + Len(Held("consumer")') + Len(output')
      <4>1. written' = written /\ Len(output') = Len(output) BY <2>4
      <4>2. written = Len(encoded) + 1 + Len(output) BY <3>1, <3>2
      <4>3. Len(encoded) + 1 + Len(output) = (Len(encoded) + 1) + 0 + Len(output) BY <2>8, <3>3
      <4>4. QED BY <2>8, <3>2, <4>1, <4>2, <4>3
    <3>5. QED BY <3>4 DEF WrittenIsCounted
  <2>10. QED BY <2>7, <2>9
<1>7. CASE Read
  <2>1. CASE UNCHANGED <<input, item>> BY <1>7, <2>1, FramesStayThere DEF Read, ioVars
  <2>2. CASE input # <<>> /\ item' = [item EXCEPT !["main"] = Head(input)] /\ input' = Tail(input)
    <3>1. Head(input) \in 1 .. total BY <1>1, <2>2, HeadTailProperties
    <3>2. Held("main") = <<>> BY <1>2, <1>7 DEF Read, ItemsInHand, Held
    <3>3. Held("main")' = <<Head(input)>> /\ Held("producer")' = Held("producer") /\ Held("consumer")' = Held("consumer")
      <4>1. /\ Held("main")' = IF Head(input) = 0 THEN <<>> ELSE <<Head(input)>>
            /\ \A u \in PipelineThreads \ {"main"} : Held(u)' = Held(u)
        BY <1>1, <2>2, HeldAfter
      <4>2. Head(input) # 0 BY <3>1
      <4>3. QED BY <1>1, <4>1, <4>2
    <3>4. UNCHANGED <<encoded, output, delivered, written>> BY <1>7 DEF Read, ioVars
    <3>5. (ToOutput \o <<>>) \o input = (ToOutput \o <<Head(input)>>) \o Tail(input)
      BY <1>1, <2>2, TakeFirst, FramesAreTyped
    <3>6. ToOutput' = ToOutput BY <3>3, <3>4 DEF ToOutput
    <3>7. ToInput' = ToInput BY <2>2, <3>2, <3>3, <3>5, <3>6 DEF ToInput
    <3>8. QED BY <3>3, <3>4, <3>7 DEF MediaInv, FramesInOrder, ToInput, ToOutput, WrittenIsCounted
  <2>3. QED BY <1>7, <2>1, <2>2 DEF Read, Take
<1>8. CASE Write
  <2>1. CASE UNCHANGED <<output, item, written>> BY <1>8, <2>1, FramesStayThere DEF Write, ioVars
  <2>2. CASE /\ output' = Append(output, item["main"]) /\ item' = [item EXCEPT !["main"] = 0]
             /\ written' = written + 1
    <3>1. item["main"] \in 1 .. total BY <1>1, <1>2, <1>8 DEF Write, ItemsInHand
    <3>2. Held("main") = <<item["main"]>> /\ Held("main")' = <<>>
          /\ Held("producer")' = Held("producer") /\ Held("consumer")' = Held("consumer")
      BY <1>1, <2>2, <3>1, HeldAfter DEF Held
    <3>3. UNCHANGED <<encoded, input, delivered>> BY <1>8 DEF Write, ioVars
    <3>4. ((encoded \o Held("consumer")) \o output') \o <<>> = ((encoded \o Held("consumer")) \o output) \o <<item["main"]>>
      <4>1. encoded \o Held("consumer") \in Seq(1 .. total) BY FramesAreTyped
      <4>2. ((encoded \o Held("consumer")) \o Append(output, item["main"])) \o <<>>
            = ((encoded \o Held("consumer")) \o output) \o <<item["main"]>>
        BY <1>1, <3>1, <4>1, PassOn
      <4>3. QED BY <2>2, <4>2
    <3>5. ToOutput' \o Held("main")' = ToOutput \o Held("main") BY <3>2, <3>3, <3>4 DEF ToOutput
    <3>6. FramesInOrder' BY <3>2, <3>3, <3>5 DEF MediaInv, FramesInOrder, ToOutput
    <3>7. Len(output') = Len(output) + 1 /\ Len(output) \in Nat
      BY <1>1, <2>2, <3>1, AppendProperties, LenProperties
    <3>8. Len(encoded) \in Nat /\ Len(Held("consumer")) \in Nat BY <1>1, FramesAreTyped
    <3>9. WrittenIsCounted' BY <2>2, <3>2, <3>3, <3>7, <3>8 DEF MediaInv, WrittenIsCounted
    <3>10. QED BY <3>6, <3>9
  <2>3. QED BY <1>8, <2>1, <2>2 DEF Write, Take, Push
<1>9. CASE \/ Launch \/ SpawnProducer \/ SpawnConsumer \/ Restore \/ Finish \/ AwaitSink \/ Join \/ Rename
           \/ Rethrow \/ JoinStopped \/ DestroyChildren \/ Unlink \/ SourceEnd \/ ReapDecoder \/ SourceDone
           \/ SinkBroken \/ CloseSink \/ ReapEncoder \/ SinkDone \/ Interrupt \/ Terminated
  <2>1. UNCHANGED <<encoded, item, output, input, delivered, written>>
    BY <1>9 DEF Launch, SpawnProducer, SpawnConsumer, Spawn, Restore, Finish, AwaitSink, Join, Rename, Rethrow,
       JoinStopped, DestroyChildren, Unlink, SourceEnd, ReapDecoder, SourceDone, SinkBroken, CloseSink,
       ReapEncoder, SinkDone, Interrupt, Terminated, mediaVars, queueVars, ioVars, mainVars
  <2>2. QED BY <2>1, FramesStayThere
<1>10. CASE \/ \E th \in PipelineThreads : StopStep(th)
            \/ \E w \in Workers : RecordFailure(w)
            \/ \E c \in Children : ChildExits(c)
  <2>1. UNCHANGED <<encoded, item, output, input, delivered, written>>
    BY <1>10 DEF StopStep, Stop, StopDecoder, StopEncoder, RecordFailure, ChildExits, mediaVars, queueVars, ioVars, mainVars
  <2>2. QED BY <2>1, FramesStayThere
<1>11. QED
  BY <1>3, <1>4, <1>5, <1>6, <1>7, <1>8, <1>9, <1>10
  DEF MediaNext, MainStep, ProducerStep, ConsumerStep, ChildStep, PipelineThreads, Workers

----
(* Every variable of the pipeline stays in its range.                      *)

LEMMA TypesAreKept == ASSUME MediaInv, MediaNext PROVE MediaTypes'
<1> USE MediaAssumption
    DEF Goto, Take, NotifyAll, PipelineThreads, Labels, Workers, Children, Errors, Dead, MediaTypes, MediaTypeOK,
        mediaVars, queueVars, ioVars, mainVars
<1>1. MediaTypes /\ ItemsInHand /\ total \in Nat /\ delivered \in 0 .. total /\ 0 \in 0 .. total
  BY DEF MediaInv, MediaControl
<1>2. Trouble \in Errors \cup {None} BY <1>1 DEF Trouble
<1>3. CASE Launch BY <1>1, <1>3 DEF Launch
<1>4. CASE SpawnProducer BY <1>1, <1>4 DEF SpawnProducer, Spawn
<1>5. CASE SpawnConsumer BY <1>1, <1>5 DEF SpawnConsumer, Spawn
<1>6. CASE Read
  <2>1. ASSUME input # <<>>
        PROVE  /\ Head(input) \in 1 .. total /\ Tail(input) \in Seq(1 .. total)
               /\ Len(Tail(input)) = Len(input) - 1 /\ Len(input) \in Nat
    BY <1>1, <2>1, HeadTailProperties, LenProperties
  <2>2. input' = input \/ (input # <<>> /\ input' = Tail(input)) BY <1>6 DEF Read
  <2>3. input' \in Seq(1 .. total) BY <1>1, <2>1, <2>2
  <2>4. Len(input') <= Capacity BY <1>1, <2>1, <2>2
  <2>5. item' \in [PipelineThreads -> 0 .. total] /\ asleep' \subseteq Workers /\ error' \in Errors \cup {None}
    <3>1. item' = item \/ (input # <<>> /\ item' = [item EXCEPT !["main"] = Head(input)])
      BY <1>6 DEF Read
    <3>2. item' \in [PipelineThreads -> 0 .. total] BY <1>1, <2>1, <3>1
    <3>3. QED BY <1>1, <1>2, <1>6, <3>2 DEF Read, Throw
  <2>6. /\ pc' \in [PipelineThreads -> Labels] /\ pc'["producer"] = pc["producer"] /\ pc'["consumer"] = pc["consumer"]
        /\ pc'["main"] \in {"rethrow", "upscale", "finish"}
    BY <1>1, <1>6 DEF Read, Throw
  <2>7. UNCHANGED <<total, output, failure, stopped, sourceDone, outputDone, sinkDone, ioVars,
                    mediaStopped, interrupted, written, file>>
    BY <1>6 DEF Read
  <2>8. QED BY <1>1, <2>3, <2>4, <2>5, <2>6, <2>7
<1>7. CASE Restore BY <1>1, <1>7 DEF Restore, Throw
<1>8. CASE Write
  <2>1. item["main"] \in 1 .. total BY <1>1, <1>8 DEF Write, ItemsInHand
  <2>2. /\ Append(output, item["main"]) \in Seq(1 .. total)
        /\ Len(Append(output, item["main"])) = Len(output) + 1 /\ Len(output) \in Nat
    BY <1>1, <2>1, AppendProperties, LenProperties
  <2>3. \/ output' = output
        \/ Len(output) < Capacity /\ output' = Append(output, item["main"])
    BY <1>8 DEF Write, HasRoom, Push
  <2>4. output' \in Seq(1 .. total) BY <1>1, <2>2, <2>3
  <2>5. Len(output') <= Capacity BY <1>1, <2>2, <2>3
  <2>6. written + 1 \in 0 .. total
    <3>1. Held("main") = <<item["main"]>> /\ Len(<<item["main"]>>) = 1 BY <2>1 DEF Held
    <3>2. Len(Held("producer")) \in Nat /\ Len(input) \in Nat BY <1>1, FramesAreTyped, LenProperties
    <3>3. written + 1 + Len(input) + Len(Held("producer")) = delivered BY <3>1, FramesAreTyped
    <3>4. QED BY <1>1, <3>2, <3>3
  <2>7. written' \in 0 .. total BY <1>1, <1>8, <2>6 DEF Write
  <2>8. /\ pc' \in [PipelineThreads -> Labels] /\ pc'["producer"] = pc["producer"] /\ pc'["consumer"] = pc["consumer"]
        /\ pc'["main"] \in {"rethrow", "read"}
    BY <1>1, <1>8 DEF Write, Throw
  <2>9. item' \in [PipelineThreads -> 0 .. total] /\ asleep' \subseteq Workers /\ error' \in Errors \cup {None}
    <3>1. item' = item \/ item' = [item EXCEPT !["main"] = 0] BY <1>8 DEF Write
    <3>2. item' \in [PipelineThreads -> 0 .. total] BY <1>1, <3>1
    <3>3. QED BY <1>1, <1>2, <1>8, <3>2 DEF Write, Throw
  <2>10. UNCHANGED <<total, input, failure, stopped, sourceDone, outputDone, sinkDone, ioVars,
                     mediaStopped, interrupted, file>>
    BY <1>8 DEF Write
  <2>11. QED BY <1>1, <2>4, <2>5, <2>7, <2>8, <2>9, <2>10
<1>9. CASE Finish
  <2>1. \E e \in Errors \cup {None} : error' = e BY <1>1, <1>2, <1>9 DEF Finish, Throw
  <2>2. \E l \in {"rethrow", "await_sink"} : pc' = [pc EXCEPT !["main"] = l]
    BY <1>9 DEF Finish, Throw
  <2>3. outputDone' \in BOOLEAN /\ asleep' \subseteq Workers BY <1>1, <1>9 DEF Finish
  <2>4. UNCHANGED <<total, input, output, failure, stopped, sourceDone, sinkDone, item, ioVars,
                    mediaStopped, interrupted, written, file>>
    BY <1>9 DEF Finish
  <2>5. QED BY <1>1, <2>1, <2>2, <2>3, <2>4
<1>10. CASE AwaitSink BY <1>1, <1>2, <1>10 DEF AwaitSink, Throw
<1>11. CASE Join BY <1>1, <1>11 DEF Join
<1>12. CASE Rename BY <1>1, <1>12 DEF Rename
<1>13. CASE Rethrow BY <1>1, <1>13 DEF Rethrow, PrimaryError
<1>14. CASE Stop("main") BY <1>1, <1>14 DEF Stop
<1>15. CASE StopDecoder("main") BY <1>1, <1>15 DEF StopDecoder, CancelChild
<1>16. CASE StopEncoder("main") BY <1>1, <1>16 DEF StopEncoder, CancelChild
<1>17. CASE JoinStopped BY <1>1, <1>17 DEF JoinStopped
<1>18. CASE DestroyChildren BY <1>1, <1>18 DEF DestroyChildren
<1>19. CASE Unlink BY <1>1, <1>19 DEF Unlink
<1>20. CASE SourceEnd BY <1>1, <1>20 DEF SourceEnd
<1>21. CASE ReapDecoder BY <1>1, <1>21 DEF ReapDecoder, ExitedCleanly
<1>22. CASE SourceDone BY <1>1, <1>22 DEF SourceDone
<1>23. CASE PushInput
  <2>1. item["producer"] \in 1 .. total BY <1>1, <1>23 DEF PushInput, ItemsInHand
  <2>2. /\ Append(input, item["producer"]) \in Seq(1 .. total)
        /\ Len(Append(input, item["producer"])) = Len(input) + 1 /\ Len(input) \in Nat
    BY <1>1, <2>1, AppendProperties, LenProperties
  <2>3. \/ input' = input
        \/ Len(input) < Capacity /\ input' = Append(input, item["producer"])
    BY <1>23 DEF PushInput, HasRoom, Push
  <2>4. input' \in Seq(1 .. total) BY <1>1, <2>2, <2>3
  <2>5. Len(input') <= Capacity BY <1>1, <2>2, <2>3
  <2>6. /\ pc' \in [PipelineThreads -> Labels] /\ pc'["main"] = pc["main"] /\ pc'["consumer"] = pc["consumer"]
        /\ pc'["producer"] \in {"push", "source", "exited"}
    BY <1>1, <1>23 DEF PushInput
  <2>7. item' \in [PipelineThreads -> 0 .. total] /\ asleep' \subseteq Workers
    <3>1. item' = item \/ item' = [item EXCEPT !["producer"] = 0] BY <1>23 DEF PushInput
    <3>2. item' \in [PipelineThreads -> 0 .. total] BY <1>1, <3>1
    <3>3. QED BY <1>1, <1>23, <3>2 DEF PushInput
  <2>8. UNCHANGED <<total, output, failure, stopped, sourceDone, outputDone, sinkDone, ioVars, mainVars>>
    BY <1>23 DEF PushInput
  <2>9. QED BY <1>1, <2>4, <2>5, <2>6, <2>7, <2>8
<1>24. CASE RecordFailure("producer") BY <1>1, <1>24 DEF RecordFailure
<1>25. CASE Stop("producer") BY <1>1, <1>25 DEF Stop
<1>26. CASE StopDecoder("producer") BY <1>1, <1>26 DEF StopDecoder, CancelChild
<1>27. CASE StopEncoder("producer") BY <1>1, <1>27 DEF StopEncoder, CancelChild
<1>28. CASE PopOutput
  <2>1. ASSUME output # <<>>
        PROVE  /\ Head(output) \in 1 .. total /\ Tail(output) \in Seq(1 .. total)
               /\ Len(Tail(output)) = Len(output) - 1 /\ Len(output) \in Nat
    BY <1>1, <2>1, HeadTailProperties, LenProperties
  <2>2. output' = output \/ (output # <<>> /\ output' = Tail(output)) BY <1>28 DEF PopOutput
  <2>3. output' \in Seq(1 .. total) BY <1>1, <2>1, <2>2
  <2>4. Len(output') <= Capacity BY <1>1, <2>1, <2>2
  <2>5. item' \in [PipelineThreads -> 0 .. total] /\ asleep' \subseteq Workers
    <3>1. item' = item \/ (output # <<>> /\ item' = [item EXCEPT !["consumer"] = Head(output)])
      BY <1>28 DEF PopOutput
    <3>2. item' \in [PipelineThreads -> 0 .. total] BY <1>1, <2>1, <3>1
    <3>3. QED BY <1>1, <1>28, <3>2 DEF PopOutput
  <2>6. /\ pc' \in [PipelineThreads -> Labels] /\ pc'["main"] = pc["main"] /\ pc'["producer"] = pc["producer"]
        /\ pc'["consumer"] \in {"pop", "sink", "close", "exited"}
    BY <1>1, <1>28 DEF PopOutput
  <2>7. UNCHANGED <<total, input, failure, stopped, sourceDone, outputDone, sinkDone, ioVars, mainVars>>
    BY <1>28 DEF PopOutput
  <2>8. QED BY <1>1, <2>3, <2>4, <2>5, <2>6, <2>7
<1>29. CASE SinkBroken BY <1>1, <1>29 DEF SinkBroken
<1>30. CASE CloseSink BY <1>1, <1>30 DEF CloseSink
<1>31. CASE ReapEncoder BY <1>1, <1>31 DEF ReapEncoder, ExitedCleanly
<1>32. CASE SinkDone BY <1>1, <1>32 DEF SinkDone
<1>33. CASE RecordFailure("consumer") BY <1>1, <1>33 DEF RecordFailure
<1>34. CASE Stop("consumer") BY <1>1, <1>34 DEF Stop
<1>35. CASE StopDecoder("consumer") BY <1>1, <1>35 DEF StopDecoder, CancelChild
<1>36. CASE StopEncoder("consumer") BY <1>1, <1>36 DEF StopEncoder, CancelChild
<1>37. CASE SourceFrame BY <1>1, <1>37 DEF SourceFrame
<1>38. CASE SinkFrame
  <2>1. item["consumer"] \in 1 .. total BY <1>1, <1>38 DEF SinkFrame, ItemsInHand
  <2>2. Append(encoded, item["consumer"]) \in Seq(1 .. total) BY <1>1, <2>1, AppendProperties
  <2>3. QED BY <1>1, <1>38, <2>2 DEF SinkFrame
<1>39. ASSUME NEW c \in Children, ChildExits(c) PROVE MediaTypes' BY <1>1, <1>39 DEF ChildExits
<1>40. CASE Interrupt BY <1>1, <1>40 DEF Interrupt
<1>41. CASE Terminated BY <1>1, <1>41 DEF Terminated
<1>42. QED
  BY <1>3, <1>4, <1>5, <1>6, <1>7, <1>8, <1>9, <1>10, <1>11, <1>12, <1>13, <1>14, <1>15, <1>16,
     <1>17, <1>18, <1>19, <1>20, <1>21, <1>22, <1>23, <1>24, <1>25, <1>26, <1>27, <1>28, <1>29,
     <1>30, <1>31, <1>32, <1>33, <1>34, <1>35, <1>36, <1>37, <1>38, <1>39, <1>40, <1>41
  DEF MediaNext, MainStep, ProducerStep, ConsumerStep, ChildStep, StopStep

LEMMA MediaInitInv == MediaInit => MediaInv
<1> SUFFICES ASSUME MediaInit PROVE MediaInv OBVIOUS
<1> USE MediaAssumption DEF MediaInit, Workers, Children, PipelineThreads
<1>1. total \in Nat /\ encoded = <<>> /\ output = <<>> /\ input = <<>> /\ delivered = 0 OBVIOUS
<1>2. Held("consumer") = <<>> /\ Held("main") = <<>> /\ Held("producer") = <<>> BY DEF Held
<1>3. MediaTypes
  <2>1. <<>> \in Seq(1 .. total) /\ Len(<<>>) = 0 BY EmptySeq
  <2>2. pc \in [PipelineThreads -> Labels] /\ item \in [PipelineThreads -> 0 .. total]
    BY <1>1 DEF Labels
  <2>3. /\ pc["main"] = "launch" /\ pc["producer"] = "unborn" /\ pc["consumer"] = "unborn"
        /\ Len(input) <= Capacity /\ Len(output) <= Capacity
        /\ input \in Seq(1 .. total) /\ output \in Seq(1 .. total) /\ encoded \in Seq(1 .. total)
    BY <1>1, <2>1
  <2>4. /\ child \in [Children -> {"none", "running", "clean", "crashed", "killed"}]
        /\ finished \in [Children -> BOOLEAN] /\ delivered \in 0 .. total /\ written \in 0 .. total
    BY <1>1
  <2>5. QED BY <1>1, <2>2, <2>3, <2>4 DEF MediaTypes, MediaTypeOK
<1>4. MediaControl
  BY DEF MediaControl, WorkersControl, ItemsInHand, SourceIsOver, OutputIsOver, SinkIsOver, FileIsRight,
     ErrorsAreFirst, Leaving
<1>5. FramesInOrder
  <2>1. <<>> \o <<>> = <<>> BY EmptySeq, ConcatEmptySeq
  <2>2. <<>> = [i \in 1 .. 0 |-> i] OBVIOUS
  <2>3. QED BY <1>1, <1>2, <2>1, <2>2 DEF FramesInOrder
<1>6. WrittenIsCounted BY <1>1, <1>2 DEF WrittenIsCounted
<1>7. QED BY <1>3, <1>4, <1>5, <1>6 DEF MediaInv

LEMMA MediaStepInv == MediaInv /\ [MediaNext]_mediaVars => MediaInv'
<1>1. ASSUME MediaInv, MediaNext PROVE MediaInv'
  BY <1>1, TypesAreKept, ControlIsKept, FramesKeepOrder DEF MediaInv
<1>2. ASSUME MediaInv, UNCHANGED mediaVars PROVE MediaInv'
  <2> USE <1>2 DEF MediaInv, mediaVars, queueVars, ioVars, mainVars
  <2>1. MediaTypes' BY DEF MediaTypes, MediaTypeOK
  <2>2. MediaControl'
    BY DEF MediaControl, WorkersControl, Joined, Joinable, ItemsInHand, SourceIsOver, Dead, OutputIsOver,
       SinkIsOver, FileIsRight, ErrorsAreFirst
  <2>3. FramesInOrder' /\ WrittenIsCounted' BY FramesStayThere
  <2>4. QED BY <2>1, <2>2, <2>3
<1>3. QED BY <1>1, <1>2

LEMMA InvCommitsVideo == MediaInv => VideoIsComplete
<1> SUFFICES ASSUME MediaInv, file = "committed"
             PROVE  encoded = [i \in 1 .. total |-> i] /\ \A c \in Children : child[c] = "clean" /\ finished[c]
  BY DEF MediaInv, VideoIsComplete, CommittedIsComplete
<1>1. /\ sinkDone /\ outputDone /\ sourceDone /\ delivered = total
      /\ item["consumer"] = 0 /\ item["main"] = 0 /\ item["producer"] = 0 /\ output = <<>> /\ input = <<>>
  BY DEF MediaInv, MediaControl, FileIsRight, SinkIsOver, OutputIsOver, SourceIsOver
<1>2. Held("consumer") = <<>> /\ Held("main") = <<>> /\ Held("producer") = <<>> BY <1>1 DEF Held
<1>3. encoded \o <<>> = encoded BY ConcatEmptySeq DEF MediaInv, MediaTypes, MediaTypeOK
<1>4. encoded = [i \in 1 .. total |-> i]
  <2>1. encoded \o <<>> \o <<>> \o <<>> \o <<>> \o <<>> = [i \in 1 .. delivered |-> i]
    BY <1>1, <1>2 DEF MediaInv, FramesInOrder
  <2>2. QED BY <1>1, <1>3, <2>1
<1>5. \A c \in Children : child[c] = "clean" /\ finished[c]
  BY <1>1 DEF MediaInv, MediaControl, SinkIsOver, SourceIsOver, Children
<1>6. QED BY <1>4, <1>5

LEMMA InvEndsWell == MediaInv => EndsWell
<1> SUFFICES ASSUME MediaInv PROVE EndsWell OBVIOUS
<1>1. CleanAtEnd
  <2> SUFFICES ASSUME Ended
               PROVE  /\ \A w \in Workers : Joinable(w)
                      /\ \A c \in Children : child[c] # "running" /\ (child[c] # "none" => finished[c])
                      /\ file = IF pc["main"] = "succeeded" THEN "committed" ELSE "none"
    BY DEF CleanAtEnd
  <2>1. \A w \in Workers : Joinable(w) BY DEF Ended, MediaInv, MediaControl, WorkersControl, Joined
  <2>2. QED BY <2>1, MediaAssumption DEF Ended, MediaInv, MediaControl, FileIsRight, Leaving
<1>2. NoSecondaryError BY DEF NoSecondaryError, MediaInv, MediaControl, ErrorsAreFirst
<1>3. QED BY <1>1, <1>2 DEF EndsWell

----
(* The attention kernels.                                                  *)

\* What a phase may be, with the end of the keys of a banded tile or without.
Named ==
  {"score", "max", "next", "weigh", "sum", "accumulate", "divide", "pack",
   "stage queries", "stage keys", "dot", "scale", "part max", "row max", "exponentials", "chunk sums",
   "row sums", "rescale", "load", "stage values", "multiply", "store", "write rows",
   "scores", "local max", "warp max", "read maxima", "block max", "tile max", "probabilities",
   "warp sum", "read sums", "block sum", "running", "values", "finalise"}
Scopes == {"nobody", "warp", "group"}
Plainly == {Phase(n[1], n[2], n[3], n[4]) : n \in Named \X Scopes \X Int \X Int}
Stopped == {Phase(n[1], n[2], n[3], n[4]) @@ [stop |-> n[5]] : n \in Named \X Scopes \X Int \X Int \X Int}
Phases == Plainly \cup Stopped

\* The starts of tiles of any size, over any interval.
LEMMA StartsAreIntegers ==
  ASSUME NEW from \in Int, NEW to \in Int, NEW step \in Nat \ {0}
  PROVE  Starts(from, to, step) \in Seq(Int)
<1> DEFINE m == (to - from + step - 1) \div step
           n == IF m < 0 THEN 0 ELSE m
<1>1. m \in Int OBVIOUS
<1> HIDE DEF m
<1>2. n \in Nat /\ 1 .. m = 1 .. n BY <1>1
<1> HIDE DEF n
<1>3. \A i \in 1 .. n : from + (i - 1) * step \in Int OBVIOUS
<1>4. Starts(from, to, step) = [i \in 1 .. n |-> from + (i - 1) * step] BY <1>2 DEF Starts, m
<1>5. QED BY <1>2, <1>3, <1>4

LEMMA PhasesAreTyped ==
  ASSUME NEW op \in Named, NEW scope \in Scopes, NEW base \in Int, NEW width \in Int
  PROVE  /\ Phase(op, scope, base, width) \in Phases
         /\ \A stop \in Int : Phase(op, scope, base, width) @@ [stop |-> stop] \in Phases
<1>1. ASSUME NEW stop \in Int PROVE Phase(op, scope, base, width) @@ [stop |-> stop] \in Phases
  <2> DEFINE n == <<op, scope, base, width, stop>>
  <2>1. n \in Named \X Scopes \X Int \X Int \X Int OBVIOUS
  <2>2. n[1] = op /\ n[2] = scope /\ n[3] = base /\ n[4] = width /\ n[5] = stop OBVIOUS
  <2> HIDE DEF n
  <2>3. Phase(n[1], n[2], n[3], n[4]) @@ [stop |-> n[5]] \in Phases
    BY <2>1, Zenon DEF Phases, Stopped
  <2>4. QED BY <2>2, <2>3
<1>2. Phase(op, scope, base, width) \in Phases
  <2> DEFINE n == <<op, scope, base, width>>
  <2>1. n \in Named \X Scopes \X Int \X Int OBVIOUS
  <2>2. n[1] = op /\ n[2] = scope /\ n[3] = base /\ n[4] = width OBVIOUS
  <2> HIDE DEF n
  <2>3. Phase(n[1], n[2], n[3], n[4]) \in Phases BY <2>1, Zenon DEF Phases, Plainly
  <2>4. QED BY <2>2, <2>3
<1>3. QED BY <1>1, <1>2

\* Whatever a phase is called.
LEMMA PhasesOf ==
  ASSUME NEW base \in Int
  PROVE  \A op \in Named, scope \in Scopes : Phase(op, scope, base, 0) \in Phases
  BY PhasesAreTyped

\* Tiles one after the other, for each start a sequence of phases.
LEMMA TilesAreTyped ==
  ASSUME NEW bases \in Seq(Int), NEW tiles, DOMAIN tiles = DOMAIN bases, tiles = [i \in DOMAIN tiles |-> tiles[i]],
         \A i \in DOMAIN bases : tiles[i] \in Seq(Phases)
  PROVE  FlattenSeq(tiles) \in Seq(Phases)
<1>1. DOMAIN bases = 1 .. Len(bases) /\ Len(bases) \in Nat OBVIOUS
<1>2. tiles \in [1 .. Len(bases) -> Seq(Phases)] BY <1>1
<1>3. tiles \in Seq(Seq(Phases)) BY <1>1, <1>2
<1>4. QED BY <1>3, FlattenIsSeq

\* Phases listed one by one.
LEMMA ListsOfPhases ==
  /\ \A a \in Phases : <<a>> \in Seq(Phases)
  /\ \A a, b \in Phases : <<a, b>> \in Seq(Phases)
  OBVIOUS
LEMMA JoinedPhases == \A s, t, u \in Seq(Phases) : s \o t \o u \in Seq(Phases)
  OBVIOUS
LEMMA TenPhases ==
  ASSUME NEW a \in Phases, NEW b \in Phases, NEW c \in Phases, NEW d \in Phases, NEW e \in Phases,
         NEW f \in Phases, NEW g \in Phases, NEW h \in Phases, NEW i \in Phases, NEW j \in Phases
  PROVE  /\ <<a, b, c, d, e, f, g, h, i, j>> \in Seq(Phases)
         /\ \A k, l \in Phases : <<a, b, c, d, e, f, g, h, i, j, k, l>> \in Seq(Phases)
  OBVIOUS

\* The phases before the first tile and behind the last.
LEMMA AtZero ==
  /\ Phase("divide", "group", 0, 0) \in Phases /\ Phase("pack", "group", 0, 0) \in Phases
  /\ Phase("finalise", "group", 0, 0) \in Phases /\ Phase("write rows", "group", 0, 0) \in Phases
  /\ Phase("stage queries", "nobody", 0, 0) \in Phases
<1>1. \A op \in Named, s \in Scopes : Phase(op, s, 0, 0) \in Phases BY PhasesOf
<1>2. /\ "group" \in Scopes /\ "nobody" \in Scopes
      /\ \A op \in {"divide", "pack", "finalise", "write rows", "stage queries"} : op \in Named
  BY DEF Scopes, Named
<1>3. QED BY <1>1, <1>2

LEMMA RowTilesAreTyped ==
  ASSUME NEW base \in Int, NEW scope \in Scopes
  PROVE  RowTile(base, scope) \in Seq(Phases)
<1>1. Halvings \in Seq(Int) /\ \A i \in DOMAIN Halvings : Halvings[i] \in Int BY DEF Halvings
<1>2. DOMAIN Halvings = 1 .. Len(Halvings) /\ Len(Halvings) \in Nat BY <1>1
<1>3. ASSUME NEW op \in Named PROVE [i \in DOMAIN Halvings |-> Phase(op, "group", base, Halvings[i])] \in Seq(Phases)
  <2>1. \A i \in DOMAIN Halvings : Phase(op, "group", base, Halvings[i]) \in Phases
    <3> TAKE i \in DOMAIN Halvings
    <3>1. Halvings[i] \in Int /\ "group" \in Scopes BY <1>1 DEF Scopes
    <3>2. QED BY <3>1, PhasesAreTyped
  <2>2. QED BY <1>2, <2>1
<1>4. /\ <<Phase("score", scope, base, 0)>> \in Seq(Phases)
      /\ <<Phase("next", "group", base, 0), Phase("weigh", "group", base, 0)>> \in Seq(Phases)
      /\ <<Phase("accumulate", "group", base, 0)>> \in Seq(Phases)
  <2>1. \A op \in Named, s \in Scopes : Phase(op, s, base, 0) \in Phases BY PhasesOf
  <2>2. "group" \in Scopes /\ \A op \in {"score", "next", "weigh", "accumulate"} : op \in Named
    BY DEF Scopes, Named
  <2>3. /\ Phase("score", scope, base, 0) \in Phases /\ Phase("next", "group", base, 0) \in Phases
        /\ Phase("weigh", "group", base, 0) \in Phases /\ Phase("accumulate", "group", base, 0) \in Phases
    BY <2>1, <2>2
  <2>4. QED BY <2>3
<1>5. /\ [i \in DOMAIN Halvings |-> Phase("max", "group", base, Halvings[i])] \in Seq(Phases)
      /\ [i \in DOMAIN Halvings |-> Phase("sum", "group", base, Halvings[i])] \in Seq(Phases)
  BY <1>3, "max" \in Named, "sum" \in Named DEF Named
<1>6. QED BY <1>4, <1>5 DEF RowTile

LEMMA RowProgramsAreTyped ==
  ASSUME NEW keys \in Int
  PROVE  RowPhases(keys) \in Seq(Phases)
<1> DEFINE bases == Starts(0, keys, TileKeys)
           tiles == [i \in DOMAIN bases |-> RowTile(bases[i], IF i = 1 THEN "nobody" ELSE "group")]
<1>1. bases \in Seq(Int) BY StartsAreIntegers, KernelAssumption
<1> HIDE DEF bases
<1>2. \A i \in DOMAIN bases : tiles[i] \in Seq(Phases)
  <2> TAKE i \in DOMAIN bases
  <2>1. bases[i] \in Int /\ (IF i = 1 THEN "nobody" ELSE "group") \in Scopes BY <1>1 DEF Scopes
  <2>2. QED BY <2>1, RowTilesAreTyped
<1>3. DOMAIN tiles = DOMAIN bases /\ tiles = [i \in DOMAIN tiles |-> tiles[i]] OBVIOUS
<1> HIDE DEF tiles
<1>4. FlattenSeq(tiles) \in Seq(Phases) BY <1>1, <1>2, <1>3, TilesAreTyped
<1>5. <<Phase("divide", "group", 0, 0), Phase("pack", "group", 0, 0)>> \in Seq(Phases)
  BY AtZero, ListsOfPhases
<1>6. RowPhases(keys) = FlattenSeq(tiles) \o <<Phase("divide", "group", 0, 0), Phase("pack", "group", 0, 0)>>
  BY DEF RowPhases, tiles, bases
<1>7. QED BY <1>4, <1>5, <1>6

LEMMA GemmProgramsAreTyped ==
  ASSUME NEW c \in KernelCases
  PROVE  GemmPhases(c) \in Seq(Phases)
<1> DEFINE bases == Starts(0, Sequence(c), c.keyBlock)
           tiles == [i \in DOMAIN bases |-> GemmTile(bases[i])]
<1>1. bases \in Seq(Int)
  <2>1. Sequence(c) \in Int /\ c.keyBlock \in Nat \ {0} BY KernelAssumption
  <2>2. \A to \in Int, step \in Nat \ {0} : Starts(0, to, step) \in Seq(Int) BY StartsAreIntegers
  <2>3. QED BY <2>1, <2>2, Zenon
<1> HIDE DEF bases
<1>2. \A i \in DOMAIN bases : tiles[i] \in Seq(Phases)
  <2> TAKE i \in DOMAIN bases
  <2>1. bases[i] \in Int BY <1>1
  <2> DEFINE b == bases[i]
  <2> HIDE DEF b
  <2>2. b \in Int BY <2>1 DEF b
  <2>3. \A op \in Named, scope \in Scopes : Phase(op, scope, b, 0) \in Phases BY <2>2, PhasesOf
  <2>4. /\ "group" \in Scopes /\ "warp" \in Scopes
        /\ \A op \in {"scores", "local max", "warp max", "read maxima", "block max", "tile max", "probabilities",
                     "warp sum", "read sums", "block sum", "running", "values"} : op \in Named
    BY DEF Scopes, Named
  <2>5. /\ Phase("scores", "group", b, 0) \in Phases /\ Phase("local max", "group", b, 0) \in Phases
        /\ Phase("warp max", "warp", b, 0) \in Phases /\ Phase("read maxima", "group", b, 0) \in Phases
        /\ Phase("block max", "warp", b, 0) \in Phases /\ Phase("tile max", "group", b, 0) \in Phases
        /\ Phase("probabilities", "group", b, 0) \in Phases /\ Phase("warp sum", "warp", b, 0) \in Phases
        /\ Phase("read sums", "group", b, 0) \in Phases /\ Phase("block sum", "warp", b, 0) \in Phases
        /\ Phase("running", "group", b, 0) \in Phases /\ Phase("values", "group", b, 0) \in Phases
    BY <2>3, <2>4
  <2>6. GemmTile(b) \in Seq(Phases) BY <2>5, TenPhases DEF GemmTile
  <2>7. QED BY <2>6 DEF b
<1>3. DOMAIN tiles = DOMAIN bases /\ tiles = [i \in DOMAIN tiles |-> tiles[i]] OBVIOUS
<1> HIDE DEF tiles
<1>4. FlattenSeq(tiles) \in Seq(Phases) BY <1>1, <1>2, <1>3, TilesAreTyped
<1>5. <<Phase("finalise", "group", 0, 0)>> \in Seq(Phases) BY AtZero, ListsOfPhases
<1>6. GemmPhases(c) = FlattenSeq(tiles) \o <<Phase("finalise", "group", 0, 0)>>
  BY DEF GemmPhases, tiles, bases
<1>7. QED BY <1>4, <1>5, <1>6

LEMMA BandedTilesAreTyped ==
  ASSUME NEW base \in Int, NEW stop \in Int
  PROVE  BandedTile(base, stop) \in Seq(Phases)
<1> DEFINE p(op, scope, width) == Phase(op, scope, base, width) @@ [stop |-> stop]
           chunks == TileKeys \div CoopSize
           Chunk(i) == <<p("stage values", IF i = 1 THEN "nobody" ELSE "group", (i - 1) * CoopSize),
                         p("multiply", "group", (i - 1) * CoopSize)>>
           all == [i \in 1 .. chunks |-> Chunk(i)]
           before == <<p("stage keys", "group", 0), p("dot", "group", 0), p("scale", "group", 0),
                       p("part max", "group", 0), p("row max", "group", 0), p("exponentials", "group", 0),
                       p("chunk sums", "group", 0), p("row sums", "group", 0), p("rescale", "group", 0),
                       p("load", "group", 0)>>
           after == <<p("store", "group", 0)>>
<1>1. \A op \in Named, scope \in Scopes, width \in Int : p(op, scope, width) \in Phases
  BY PhasesAreTyped
<1>2. chunks \in Nat /\ CoopSize \in Nat BY KernelAssumption
<1>3. BandedTile(base, stop) = before \o FlattenSeq(all) \o after BY DEF BandedTile
<1> HIDE DEF chunks, p
<1>4. \A i \in 1 .. chunks : Chunk(i) \in Seq(Phases)
  <2> TAKE i \in 1 .. chunks
  <2>1. (i - 1) * CoopSize \in Int BY <1>2
  <2>2. (IF i = 1 THEN "nobody" ELSE "group") \in Scopes /\ "group" \in Scopes
        /\ "stage values" \in Named /\ "multiply" \in Named
    BY DEF Scopes, Named
  <2>3. /\ p("stage values", IF i = 1 THEN "nobody" ELSE "group", (i - 1) * CoopSize) \in Phases
        /\ p("multiply", "group", (i - 1) * CoopSize) \in Phases
    BY <1>1, <2>1, <2>2
  <2>4. QED BY <2>3, ListsOfPhases
<1>5. before \in Seq(Phases) /\ after \in Seq(Phases)
  <2>1. /\ "group" \in Scopes
        /\ \A op \in {"stage keys", "dot", "scale", "part max", "row max", "exponentials", "chunk sums", "row sums",
                     "rescale", "load", "store"} : op \in Named
    BY DEF Scopes, Named
  <2>2. /\ p("stage keys", "group", 0) \in Phases /\ p("dot", "group", 0) \in Phases
        /\ p("scale", "group", 0) \in Phases /\ p("part max", "group", 0) \in Phases
        /\ p("row max", "group", 0) \in Phases /\ p("exponentials", "group", 0) \in Phases
        /\ p("chunk sums", "group", 0) \in Phases /\ p("row sums", "group", 0) \in Phases
        /\ p("rescale", "group", 0) \in Phases /\ p("load", "group", 0) \in Phases /\ p("store", "group", 0) \in Phases
    <3>1. \A op \in Named : p(op, "group", 0) \in Phases
      <4> TAKE op \in Named
      <4>1. Phase(op, "group", base, 0) @@ [stop |-> stop] \in Phases
        BY PhasesAreTyped, "group" \in Scopes, 0 \in Int DEF Scopes
      <4>2. QED BY <4>1 DEF p
    <3>2. QED BY <3>1, <2>1
  <2>3. QED BY <2>2, TenPhases, ListsOfPhases
<1> HIDE DEF Chunk, before, after
<1>6. all \in Seq(Seq(Phases)) BY <1>2, <1>4
<1>7. FlattenSeq(all) \in Seq(Phases) BY <1>6, FlattenIsSeq
<1> HIDE DEF all
<1>8. QED BY <1>3, <1>5, <1>7

LEMMA BandedProgramsAreTyped ==
  ASSUME NEW c \in KernelCases
  PROVE  BandedPhases(c) \in Seq(Phases)
<1> DEFINE Walk(range) == LET bases == Starts(range[1], range[2], TileKeys)
                          IN FlattenSeq([i \in DOMAIN bases |-> BandedTile(bases[i], range[2])])
           walks == [i \in DOMAIN Ranges(c) |-> Walk(Ranges(c)[i])]
<1>1. Ranges(c) \in Seq(Int \X Int)
  <2>1. CASE c.ranges = <<>> BY <2>1, KernelAssumption DEF Ranges
  <2>2. CASE c.ranges # <<>>
    <3> DEFINE q == QueryBase(c) \div (2 * TileRows) + 1
    <3>1. q \in 1 .. Len(c.ranges)
      <4>1. QueryBase(c) \in Nat /\ TileRows \in Nat \ {0}
        <5>1. c.first \in Nat /\ c.group \in Nat /\ TileRows \in Nat \ {0} BY KernelAssumption
        <5>2. c.first - (c.first % TileRows) \in Nat /\ c.group * TileRows \in Nat BY <5>1
        <5>3. QED BY <5>1, <5>2 DEF QueryBase
      <4>2. QueryBase(c) \div (2 * TileRows) \in Nat BY <4>1
      <4>3. QED
        <5>1. QueryBase(c) \div (2 * TileRows) < Len(c.ranges) /\ Len(c.ranges) \in Nat
          BY <2>2, KernelAssumption
        <5>2. QED BY <4>2, <5>1
    <3> HIDE DEF q
    <3>2. c.ranges[q] \in Nat \X Nat \X Nat \X Nat BY <3>1, KernelAssumption
    <3>3. Ranges(c) = << <<c.ranges[q][1], c.ranges[q][2]>>, <<c.ranges[q][3], c.ranges[q][4]>> >>
      BY <2>2 DEF Ranges, q
    <3>4. QED BY <3>2, <3>3
  <2>3. QED BY <2>1, <2>2
<1>2. ASSUME NEW range \in Int \X Int PROVE Walk(range) \in Seq(Phases)
  <2> DEFINE bases == Starts(range[1], range[2], TileKeys)
             tiles == [i \in DOMAIN bases |-> BandedTile(bases[i], range[2])]
  <2>1. bases \in Seq(Int) BY StartsAreIntegers, KernelAssumption
  <2> HIDE DEF bases
  <2>2. \A i \in DOMAIN bases : tiles[i] \in Seq(Phases)
    <3> TAKE i \in DOMAIN bases
    <3>1. bases[i] \in Int /\ range[2] \in Int BY <2>1
    <3>2. QED BY <3>1, BandedTilesAreTyped
  <2>3. DOMAIN tiles = DOMAIN bases /\ tiles = [i \in DOMAIN tiles |-> tiles[i]] OBVIOUS
  <2> HIDE DEF tiles
  <2>4. FlattenSeq(tiles) \in Seq(Phases) BY <2>1, <2>2, <2>3, TilesAreTyped
  <2>5. QED BY <2>4 DEF tiles, bases
<1> HIDE DEF Walk
<1>3. walks \in Seq(Seq(Phases))
  <2>1. \A i \in DOMAIN Ranges(c) : Walk(Ranges(c)[i]) \in Seq(Phases) BY <1>1, <1>2
  <2>2. DOMAIN Ranges(c) = 1 .. Len(Ranges(c)) /\ Len(Ranges(c)) \in Nat BY <1>1
  <2>3. QED BY <2>1, <2>2
<1>4. FlattenSeq(walks) \in Seq(Phases) BY <1>3, FlattenIsSeq
<1>5. <<Phase("stage queries", "nobody", 0, 0)>> \in Seq(Phases) /\ <<Phase("write rows", "group", 0, 0)>> \in Seq(Phases)
  BY AtZero, ListsOfPhases
<1>6. BandedPhases(c) = <<Phase("stage queries", "nobody", 0, 0)>> \o FlattenSeq(walks) \o <<Phase("write rows", "group", 0, 0)>>
  BY DEF BandedPhases, Walk
<1> HIDE DEF walks
<1>7. QED BY <1>4, <1>5, <1>6, JoinedPhases

LEMMA ProgramsEnd == \A c \in KernelCases : Programs[c] \in Seq(Phases) /\ Len(Programs[c]) \in Nat
<1> TAKE c \in KernelCases
<1>1. c.kernel \in {"full", "causal", "banded", "gemm"} /\ Sequence(c) \in Int /\ QueryRow(c) + 1 \in Int
  BY KernelAssumption DEF QueryRow
<1>2. /\ RowPhases(Sequence(c)) \in Seq(Phases) /\ CausalPhases(c) \in Seq(Phases)
      /\ BandedPhases(c) \in Seq(Phases) /\ GemmPhases(c) \in Seq(Phases)
  BY <1>1, RowProgramsAreTyped, BandedProgramsAreTyped, GemmProgramsAreTyped DEF CausalPhases
<1>3. ProgramOf(c) \in Seq(Phases) BY <1>1, <1>2 DEF ProgramOf
<1>4. QED BY <1>3 DEF Programs

\* A kernel runs only where there is one, and no thread leaves its program.
KernelInv ==
  IF resource = "barriers"
  THEN case \in KernelCases /\ at \in [Invocations -> Nat]
       /\ \A t \in Invocations : at[t] \in 1 .. Len(Programs[case]) + 1
  ELSE NoKernel

LEMMA DoesKeeps ==
  ASSUME KernelInv, resource = "barriers", NEW t \in Invocations, NEW op, Does(t, op), UNCHANGED resource
  PROVE  KernelInv'
<1>1. case' = case /\ at' = [at EXCEPT ![t] = @ + 1] /\ at[t] <= Len(Programs[case]) BY DEF Does
<1>2. Programs' = Programs BY DEF Programs
<1>3. case \in KernelCases /\ at \in [Invocations -> Nat] /\ \A u \in Invocations : at[u] \in 1 .. Len(Programs[case]) + 1
  BY DEF KernelInv
<1>4. Len(Programs[case]) \in Nat BY <1>3, ProgramsEnd
<1> DEFINE n == Len(Programs[case])
<1>5. n' = n BY <1>1, <1>2
<1> HIDE DEF n
<1>6. n \in Nat /\ at[t] <= n /\ \A u \in Invocations : at[u] \in 1 .. n + 1
  BY <1>1, <1>3, <1>4 DEF n
<1>7. at' \in [Invocations -> Nat] /\ \A u \in Invocations : at'[u] \in 1 .. n + 1
  BY <1>1, <1>3, <1>6
<1>8. \A u \in Invocations : at'[u] \in 1 .. Len(Programs[case])' + 1 BY <1>5, <1>7 DEF n
<1>9. QED BY <1>1, <1>3, <1>7, <1>8 DEF KernelInv, Invocations

LEMMA KernelStepDoes ==
  ASSUME NEW t \in Invocations, RowStep(t) \/ BandedStep(t) \/ GemmStep(t)
  PROVE  \E op : Does(t, op)
<1>1. ASSUME RowStep(t) PROVE \E op : Does(t, op)
  BY <1>1 DEF RowStep, LaneScore, ReduceMax, NextMax, Weigh, ReduceSum, Accumulate, Divide, Pack
<1>2. ASSUME BandedStep(t) PROVE \E op : Does(t, op)
  BY <1>2 DEF BandedStep, StageQueries, StageKeys, Dot, Masks, PartMax, RowMax, Exponentials, ChunkSums, RowSums,
    Rescale, LoadOutput, StageValues, MultiplyValues, StoreOutput, WriteRows
<1>3. ASSUME GemmStep(t) PROVE \E op : Does(t, op)
  BY <1>3 DEF GemmStep, ScoreTile, LocalMax, WarpMax, ReadMaxima, BlockMax, TileMax, Probabilities, WarpSum, ReadSums,
    BlockSum, Running, AddValues, Finalise
<1>4. QED BY <1>1, <1>2, <1>3

LEMMA KernelInitInv == Init => KernelInv
<1>1. ASSUME KernelInit PROVE case \in KernelCases /\ at = [t \in Invocations |-> 1]
  BY <1>1 DEF KernelInit
<1>2. ASSUME Init, resource = "barriers" PROVE KernelInv
  <2>1. case \in KernelCases /\ at = [t \in Invocations |-> 1] BY <1>1, <1>2 DEF Init
  <2>2. Len(Programs[case]) \in Nat BY <2>1, ProgramsEnd
  <2>3. QED BY <2>1, <2>2, <1>2 DEF KernelInv
<1>3. QED BY <1>2 DEF Init, KernelInv

LEMMA KernelNextInv == KernelInv /\ [Next]_vars => KernelInv'
<1> SUFFICES ASSUME KernelInv, [Next]_vars PROVE KernelInv' OBVIOUS
<1>1. CASE UNCHANGED <<resource, kernelVars>>
  <2>1. resource' = resource /\ case' = case /\ at' = at /\ mem' = mem /\ reg' = reg
    BY <1>1 DEF kernelVars
  <2>2. QED BY <2>1 DEF KernelInv, NoKernel, Programs, Invocations
<1>2. CASE IsKernel(KernelStep)
  <2>1. PICK t \in Invocations : RowStep(t) \/ BandedStep(t) \/ GemmStep(t)
    BY <1>2 DEF IsKernel, KernelStep
  <2>2. PICK op : Does(t, op) BY <2>1, KernelStepDoes
  <2>3. QED BY <1>2, <2>2, DoesKeeps DEF IsKernel
<1>3. QED BY <1>1, <1>2 DEF Next, IsMedia, IsSlots, vars

----
(* The theorems.                                                           *)

\* Whatever ThreadWaits does, each of its components does one of its own steps or nothing.
LEMMA BehavioursOfComponents == Spec => MediaSpec /\ SlotsSpec
<1>1. Init => MediaInit /\ SlotsInit BY DEF Init
<1>2. [Next]_vars => [MediaNext]_mediaVars /\ [SlotsNext]_slotsVars
  BY DEF Next, IsMedia, IsSlots, IsKernel, vars
<1>3. QED BY <1>1, <1>2, PTL DEF Spec, MediaSpec, SlotsSpec

\* With any number of threads, slots and buffers, whatever fails in whatever order: a command buffer
\* the device may still execute is not reset, given away or freed (recycle_locked frees only what the
\* timeline has passed, ~ComputeState waits for the last value), every buffer it uses stays allocated,
\* and a reserved slot is of exactly one recording thread or carries the value that will free it.
THEOREM CommandSlotsAreKept == Spec => []SlotsKept
<1>1. SlotsInit => SlotsInv BY SlotsInitInv
<1>2. SlotsInv /\ [SlotsNext]_slotsVars => SlotsInv' BY SlotsStepInv
<1>3. SlotsInv => SlotsKept BY InvKeepsSlots
<1>4. QED BY <1>1, <1>2, <1>3, BehavioursOfComponents, PTL DEF SlotsSpec

\* Every frame the decoder emits is in exactly one place between the two children, in order, whichever
\* worker fails, is stopped or interrupted in between (read, write, produce, consume); and the output
\* name appears only after both children exited with 0, when the encoder has read the whole video.
THEOREM VideosAreComplete == Spec => []VideoIsComplete
<1>1. MediaInit => MediaInv BY MediaInitInv
<1>2. MediaInv /\ [MediaNext]_mediaVars => MediaInv' BY MediaStepInv
<1>3. MediaInv => VideoIsComplete BY InvCommitsVideo
<1>4. QED BY <1>1, <1>2, <1>3, BehavioursOfComponents, PTL DEF MediaSpec

\* The command ends with its workers joined, its children reaped and no temporary file, and what it
\* reports is the failure that came first: no interleaving of fail(), stop() and check() makes it
\* report "stopped", an undrained queue, or a cancellation that nobody asked for.
THEOREM CommandsEndWell == Spec => []EndsWell
<1>1. MediaInit => MediaInv BY MediaInitInv
<1>2. MediaInv /\ [MediaNext]_mediaVars => MediaInv' BY MediaStepInv
<1>3. MediaInv => EndsWell BY InvEndsWell
<1>4. QED BY <1>1, <1>2, <1>3, BehavioursOfComponents, PTL DEF MediaSpec

\* The variables of all three stay in their ranges: the queues within their capacity, the count of
\* frames within the video, the timeline below the values handed out, a value awaited exactly in begin(),
\* and every thread of a kernel within its program, whatever the sequence, the tiles and the bands.
THEOREM WaitsAreTyped == Spec => []TypeOK
<1>1. MediaInit => MediaInv BY MediaInitInv
<1>2. MediaInv /\ [MediaNext]_mediaVars => MediaInv' BY MediaStepInv
<1>3. SlotsInit => SlotsInv BY SlotsInitInv
<1>4. SlotsInv /\ [SlotsNext]_slotsVars => SlotsInv' BY SlotsStepInv
<1>5. MediaInv => MediaTypeOK BY DEF MediaInv, MediaTypes
<1>6. SlotsInv => SlotsTypeOK BY DEF SlotsInv
<1>7. KernelInv => KernelTypeOK BY DEF KernelInv, KernelTypeOK
<1>8. Init => KernelInv /\ resource \in Resources BY KernelInitInv DEF Init
<1>9. KernelInv /\ resource \in Resources /\ [Next]_vars => (KernelInv /\ resource \in Resources)'
  BY KernelNextInv DEF Next, IsMedia, IsSlots, IsKernel, vars
<1>10. MediaTypeOK /\ SlotsTypeOK /\ KernelTypeOK /\ resource \in Resources => TypeOK BY DEF TypeOK
<1>11. QED
  BY <1>1, <1>2, <1>3, <1>4, <1>5, <1>6, <1>7, <1>8, <1>9, <1>10, BehavioursOfComponents, PTL DEF MediaSpec, SlotsSpec, Spec
=============================================================================
