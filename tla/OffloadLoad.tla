----------------------------- MODULE OffloadLoad -----------------------------
(***************************************************************************)
(* How a transformer load chooses what stays on the device                 *)
(* (src/include/slopfab/dit/offload.h) and retries with less when CUDA     *)
(* runs out of memory (src/src/dit/load_retry.h and Transformer::load).    *)
(* The free memory is measured anew by every attempt, and another process  *)
(* may take it in between.  Byte counts do not overflow here: the code     *)
(* throws when they would.                                                 *)
(***************************************************************************)
EXTENDS Integers, Sequences, SequencesExt, FiniteSetsExt

CONSTANTS BlockSizes,  \* transformers to load: the sequences of their blocks' sizes
          FixedBytes,  \* what can never leave the device
          Budgets,     \* what an attempt may find free
          Unlimited    \* numeric_limits<size_t>::max()

ASSUME OffloadAssumption ==
  /\ BlockSizes \subseteq Seq(Nat) /\ FixedBytes \in Nat /\ Budgets \subseteq Nat
  /\ Unlimited \in Nat

VARIABLES
  ldPc,      \* "plan", "upload", "release", "loaded", "failed"
  sizesOf,   \* the blocks
  automatic, \* retrying is allowed
  forced,    \* offload_blocks, -1 to choose
  ceiling,   \* the budget of this attempt
  planned,   \* device bytes of the attempt's plan, Unlimited before there is one
  attempt,
  held,      \* device bytes this transformer has allocated
  error      \* "none", "memory" (cudaErrorMemoryAllocation) or "other"

ldVars == <<ldPc, sizesOf, automatic, forced, ceiling, planned, attempt, held, error>>

NumOf == Len(sizesOf)

OffloadTypeOK ==
  /\ ldPc \in {"plan", "upload", "release", "loaded", "failed"}
  /\ sizesOf \in BlockSizes /\ automatic \in BOOLEAN /\ forced \in -1 .. NumOf
  /\ ceiling \in 0 .. Unlimited /\ planned \in 0 .. Unlimited
  /\ attempt \in 0 .. NumOf /\ held \in 0 .. Unlimited
  /\ error \in {"none", "memory", "other"}

\* A retry is allowed only when the count is to be chosen against a budget.
OffloadInit ==
  /\ ldPc = "plan" /\ sizesOf \in BlockSizes
  /\ forced \in -1 .. NumOf /\ automatic \in IF forced = -1 THEN BOOLEAN ELSE {FALSE}
  /\ ceiling = Unlimited /\ planned = Unlimited /\ attempt = 0 /\ held = 0 /\ error = "none"

-----------------------------------------------------------------------------
\* A function, which a proof can follow where it cannot follow a fold.
Sums(s) == LET sum[n \in 0 .. Len(s)] == IF n = 0 THEN 0 ELSE sum[n - 1] + s[n] IN sum
Total(s) == Sums(s)[Len(s)]

\* With the last n blocks offloaded: the rest, and the two transfer slots (one for one block), each
\* as large as the largest block that passes through.
OffloadedBlocks(n) == SubSeq(sizesOf, NumOf - n + 1, NumOf)
SlotBytes(n) == Max({0} \cup ToSet(OffloadedBlocks(n)))
DeviceBytes(n) ==
  FixedBytes + Total(SubSeq(sizesOf, 1, NumOf - n)) + Min({n, 2}) * SlotBytes(n)

\* The shortest suffix that fits, if one does.
Fitting(budget) == {n \in 0 .. NumOf : (forced < 0 \/ n = forced) /\ DeviceBytes(n) <= budget}

Plan ==
  /\ ldPc = "plan"
  /\ \E free \in Budgets :
       LET fitting == Fitting(Min({free, ceiling}))
       IN /\ fitting # {}
          /\ planned' = DeviceBytes(Min(fitting))
          /\ held' \in {0, planned'}   \* allocated in full, or it ran out on the way
  /\ ldPc' = "upload"
  /\ UNCHANGED <<sizesOf, automatic, forced, ceiling, attempt, error>>

\* Nothing fits, or the checkpoint is refused, or the preparations already run out of memory.
PlanFails ==
  /\ ldPc = "plan"
  /\ \/ (\E free \in Budgets : Fitting(Min({free, ceiling})) = {}) /\ error' = "other"
     \/ error' \in {"memory", "other"}
  /\ ldPc' = "release"
  /\ UNCHANGED <<sizesOf, automatic, forced, ceiling, planned, attempt, held>>

Upload ==
  /\ ldPc = "upload" /\ held = planned
  /\ ldPc' = "loaded"
  /\ UNCHANGED <<sizesOf, automatic, forced, ceiling, planned, attempt, held, error>>

UploadThrows ==
  /\ ldPc = "upload"
  /\ error' \in {"memory", "other"}
  /\ ldPc' = "release"
  /\ UNCHANGED <<sizesOf, automatic, forced, ceiling, planned, attempt, held>>

\* release() frees everything, and then the error is looked at.
KeepsHeld == held
AfterRelease == 0

RetriesBelowCeiling ==
  /\ automatic /\ error = "memory" /\ attempt < NumOf
  /\ planned # 0 /\ planned < ceiling /\ planned # Unlimited

MayRetry ==
  /\ automatic /\ error = "memory" /\ attempt < NumOf
  /\ planned # 0 /\ planned <= ceiling /\ planned # Unlimited

Retry ==
  /\ ldPc = "release" /\ MayRetry
  /\ held' = AfterRelease
  /\ ceiling' = planned - 1 /\ planned' = Unlimited
  /\ attempt' = attempt + 1 /\ error' = "none"
  /\ ldPc' = "plan"
  /\ UNCHANGED <<sizesOf, automatic, forced>>

GiveUp ==
  /\ ldPc = "release" /\ ~MayRetry
  /\ held' = AfterRelease
  /\ ldPc' = "failed"
  /\ UNCHANGED <<sizesOf, automatic, forced, ceiling, planned, attempt, error>>

OffloadStep == Plan \/ PlanFails \/ Upload \/ UploadThrows \/ Retry \/ GiveUp

-----------------------------------------------------------------------------
\* An attempt measures the free memory with nothing of the last one still allocated.
PlansWithNothingHeld == ldPc = "plan" => held = 0

\* A load that may retry reports that its memory ran out only when no number of offloaded blocks
\* takes less than what it tried last: the bound on the attempts never cuts the search short.
GivesUpAtTheSmallest ==
  ldPc = "failed" /\ automatic /\ error = "memory" /\ planned # Unlimited =>
    \A n \in 0 .. NumOf : DeviceBytes(n) >= planned
=============================================================================
