---------------------------- MODULE TensorBatch ----------------------------
(***************************************************************************)
(* Recording tensor operators for the Vulkan device                        *)
(* (src/src/vulkan/tensor.cpp, tensor_recording.h, tensor_context.h,       *)
(* tensor_weights.cpp, tensor_gemm.cpp).  Every tensor remembers the last  *)
(* access recorded for it, and the next one is ordered after it by a       *)
(* barrier.  A batch moves that memory on while it records and moves it    *)
(* back if it is never submitted; an upload or a download is a batch of    *)
(* its own that waits.  Calls on one context are synchronised by the       *)
(* application, so each is one step.                                       *)
(***************************************************************************)
EXTENDS TensorOps, FiniteSets, FiniteSetsExt

CONSTANTS
  Tensors,     \* device tensors, those of the caches below included
  Operators,   \* operators a batch may record: sequences of uses
  MaxOps,      \* max_batch_operators
  Caches,      \* prepared-activation slots and streamed-weight caches
  CacheTensor, \* the tensor each of them fills
  KeepsBatch,  \* the caches that remember the batch that filled them
  Sources,     \* tensors a cache may be filled from
  MaxBatches,  \* bound: batch identities handed out
  MaxViews     \* bound: prepared views; the application keeps them all

ASSUME BatchAssumption ==
  /\ CacheTensor \in [Caches -> Tensors] /\ Sources \subseteq Tensors
  /\ KeepsBatch \subseteq Caches
  /\ MaxOps \in Nat \ {0} /\ MaxBatches \in Nat \ {0} /\ MaxViews \in Nat

VARIABLES
  access,    \* DeviceTensor::Impl::access of each tensor, None without has_access
  leased,    \* recorder_active
  batch,     \* the open TensorBatch, or NoBatch
  nextId,    \* next_context_identity
  cache,     \* what each cache remembers
  views,     \* the prepared views handed out, which the application keeps
  queue,     \* what the queue has been given: accesses not yet ordered, by tensor and stage
  list,      \* the same once the open batch's commands are added
  races,     \* tensors the device was told to access without an order
  unwaited   \* tensors whose transfer was submitted and then reported as failed

batchVars == <<access, leased, batch, nextId, cache, views, queue, list, races, unwaited>>

None == "none"
NoFill == [cache |-> "none", holds |-> "none"]
NoBatch == [open |-> FALSE, id |-> 0, ops |-> 0, poisoned |-> FALSE, todo |-> <<>>, fill |-> NoFill,
            saved |-> {}, snapshots |-> [t \in Tensors |-> None], races |-> {}]
Accesses == {"TransferRead", "TransferWrite", "ComputeRead", "ComputeWrite", "ComputeReadWrite"}
Uses == [t : Tensors, a : Accesses]

ASSUME OperatorAssumption == Operators \subseteq Seq(Uses)

-----------------------------------------------------------------------------
(* The device: which earlier accesses a stage is not yet ordered after.    *)
(* An access is a read or a write of a stage; a barrier orders what its    *)
(* source stage has done, and what that stage was already ordered after,   *)
(* before its destination stage.  A write counts only if the barrier's     *)
(* source access makes it available.                                       *)

Stages == {"transfer", "compute"}
Stage(a) == IF a \in {"TransferRead", "TransferWrite"} THEN "transfer" ELSE "compute"
Writes(a) == a \in {"TransferWrite", "ComputeWrite", "ComputeReadWrite"}
Reads(a) == a \in {"TransferRead", "ComputeRead", "ComputeReadWrite"}
Events(a) == {<<Stage(a), w>> : w \in {x \in BOOLEAN : IF x THEN Writes(a) ELSE Reads(a)}}

Quiet == [s \in Stages |-> {}]
Ordered(u, from, e) == e \notin u[Stage(from)] \/ (e[1] = Stage(from) /\ (e[2] => Writes(from)))
Barrier(u, from, to) == [u EXCEPT ![Stage(to)] = {e \in @ : ~Ordered(u, from, e)}]
Access(u, a) == [s \in Stages |-> u[s] \cup Events(a)]
Races(u, a) == \E e \in u[Stage(a)] : e[2] \/ Writes(a)

-----------------------------------------------------------------------------
BatchInit ==
  /\ access = [t \in Tensors |-> None]
  /\ leased = FALSE /\ batch = NoBatch /\ nextId = 1
  /\ cache = [c \in Caches |-> [generation |-> 0, batch |-> 0, holds |-> None, ran |-> None]]
  /\ views = {}
  /\ queue = [t \in Tensors |-> Quiet] /\ list = [t \in Tensors |-> Quiet]
  /\ races = {} /\ unwaited = {}

KeepLease ==   \* mistake: the lease is taken before the list and not given back
  /\ ~leased /\ nextId <= MaxBatches
  /\ nextId' = nextId + 1 /\ leased' = TRUE
  /\ batch' \in {batch, [NoBatch EXCEPT !.open = TRUE, !.id = nextId]}
  /\ UNCHANGED <<access, cache, views, queue, list, races, unwaited>>

\* TensorContext::begin_batch.  A batch that cannot get a command list gives the lease back.
BeginBatch ==
  /\ ~leased /\ nextId <= MaxBatches
  /\ nextId' = nextId + 1
  /\ \/ /\ leased' = TRUE
        /\ batch' = [NoBatch EXCEPT !.open = TRUE, !.id = nextId]
     \/ UNCHANGED <<leased, batch>>
  /\ UNCHANGED <<access, cache, views, queue, list, races, unwaited>>

\* Between two calls, on a batch an earlier failure has not poisoned.
Ready == batch.open /\ ~batch.poisoned /\ batch.todo = <<>> /\ batch.fill = NoFill

CountLate(uses, fill) ==   \* mistake: the limit is looked at after counting
  /\ Ready
  /\ batch' = IF batch.ops > MaxOps THEN [batch EXCEPT !.poisoned = TRUE]
              ELSE [batch EXCEPT !.ops = @ + 1, !.todo = uses, !.fill = fill]
  /\ UNCHANGED <<access, leased, nextId, cache, views, queue, list, races, unwaited>>

\* Every recording function counts its operator and then makes its transitions; refused arguments
\* leave the batch as it is, anything thrown from here on poisons it.
Count(uses, fill) ==
  /\ Ready
  /\ batch' = IF batch.ops = MaxOps THEN [batch EXCEPT !.poisoned = TRUE]
              ELSE [batch EXCEPT !.ops = @ + 1, !.todo = uses, !.fill = fill]
  /\ UNCHANGED <<access, leased, nextId, cache, views, queue, list, races, unwaited>>

Record(o) == Count(o, NoFill)

SavedAgain(t) == [batch.snapshots EXCEPT ![t] = access[t]]   \* mistake: overwritten by later uses

Saved(t) == IF t \in batch.saved THEN batch.snapshots ELSE [batch.snapshots EXCEPT ![t] = access[t]]

OnlyOnChange(old, next) == old # None /\ old # next   \* mistake: forgets writes after writes

NeedsBarrier(old, next) == old # None /\ (old # next \/ Writes(next))
AfterBarrier(u, old, next) == IF NeedsBarrier(old, next) THEN Barrier(u, old, next) ELSE u

\* TensorBatch::Impl::transition.
Transition ==
  /\ batch.open /\ batch.todo # <<>>
  /\ LET t == Head(batch.todo).t
         next == Head(batch.todo).a
         before == AfterBarrier(list[t], access[t], next)
     IN /\ batch' = [batch EXCEPT !.todo = Tail(@), !.saved = @ \cup {t}, !.snapshots = Saved(t),
                                  !.races = IF Races(before, next) THEN @ \cup {t} ELSE @]
        /\ access' = [access EXCEPT ![t] = next]
        /\ list' = [list EXCEPT ![t] = Access(before, next)]
  /\ UNCHANGED <<leased, nextId, cache, views, queue, races, unwaited>>

\* No memory for the barrier, after the snapshot was saved or before, or for the dispatch.
RecordingThrows ==
  /\ batch.open /\ (batch.todo # <<>> \/ batch.fill # NoFill)
  /\ \E t \in {Head(batch.todo).t : i \in {1} \cap DOMAIN batch.todo} \cup {None} :
       batch' = [batch EXCEPT !.poisoned = TRUE, !.todo = <<>>, !.fill = NoFill,
                              !.saved = IF t = None THEN @ ELSE @ \cup {t},
                              !.snapshots = IF t = None THEN @ ELSE Saved(t)]
  /\ UNCHANGED <<access, leased, nextId, cache, views, queue, list, races, unwaited>>

\* TensorBatch::submit.  A failed submission leaves the batch to its destructor.
Submit ==
  /\ Ready /\ batch.ops > 0
  /\ queue' = list /\ races' = races \cup batch.races
  /\ cache' = [c \in Caches |-> [cache[c] EXCEPT !.ran = cache[c].holds]]
  /\ batch' = NoBatch /\ leased' = FALSE
  /\ UNCHANGED <<access, nextId, views, list, unwaited>>

Restored == [t \in Tensors |-> IF t \in batch.saved THEN batch.snapshots[t] ELSE access[t]]

\* ~TensorBatch::Impl of a batch that was not submitted: the device never sees its commands.
Drop ==
  /\ batch.open /\ batch.todo = <<>> /\ batch.fill = NoFill
  /\ access' = Restored
  /\ list' = queue
  /\ cache' = [c \in Caches |-> [cache[c] EXCEPT !.holds = cache[c].ran]]
  /\ batch' = NoBatch /\ leased' = FALSE
  /\ UNCHANGED <<nextId, views, queue, races, unwaited>>

-----------------------------------------------------------------------------
(* Caches filled by a batch for use later in the same batch.               *)

\* PreparedF16Activation::prepare, StreamedNVFP4WeightCache::prepare, PreparedAttentionInputs::prepare.
Prepare(c, src) ==
  /\ src # CacheTensor[c] /\ Cardinality(views) < MaxViews
  /\ Count(<<R(src), W(CacheTensor[c])>>, [cache |-> c, holds |-> src])

\* Recording succeeded: the new generation is published, and the view made before is returned.
Publish ==
  /\ batch.open /\ batch.todo = <<>> /\ batch.fill # NoFill
  /\ LET c == batch.fill.cache
     IN /\ cache' = [cache EXCEPT ![c] = [generation |-> @.generation + 1, holds |-> batch.fill.holds,
                                          batch |-> IF c \in KeepsBatch THEN batch.id ELSE @.batch,
                                          ran |-> @.ran]]
        /\ views' = views \cup {[cache |-> c, batch |-> batch.id, holds |-> batch.fill.holds,
                                 generation |-> cache[c].generation + 1]}
  /\ batch' = [batch EXCEPT !.fill = NoFill]
  /\ UNCHANGED <<access, leased, nextId, queue, list, races, unwaited>>

OfThisBatch(v) == v.batch = batch.id   \* mistake: forgets the generation

\* The checks of the plans that read a view.
Accepts(v) ==
  /\ v.batch = batch.id
  /\ v.generation = cache[v.cache].generation
  /\ v.cache \in KeepsBatch => cache[v.cache].batch = v.batch

UseView(v, out) ==
  /\ Accepts(v) /\ out # CacheTensor[v.cache]
  /\ Count(<<R(CacheTensor[v.cache]), W(out)>>, NoFill)

-----------------------------------------------------------------------------
(* Boundary operations: recorded, submitted and waited for in one call.    *)

Outcomes == {"done", "not submitted", "wait failed"}

\* A download after a download needs no barrier.
NeedsTransferBarrier(old, a) == old # None /\ (Writes(a) \/ old # a)

BeforeTransfer(t, a) ==
  IF NeedsTransferBarrier(access[t], a) THEN Barrier(queue[t], access[t], a) ELSE queue[t]

\* Whatever is thrown moves the access states back.
AccessAfter(ts, a, outcome) ==
  [t \in Tensors |-> IF t \in ts /\ outcome = "done" THEN a ELSE access[t]]

Transfer(ts, a) ==
  /\ ~leased
  /\ \E outcome \in {o \in Outcomes : o = "wait failed" => unwaited = {}} :  \* bound: one such failure
       /\ access' = AccessAfter(ts, a, outcome)
       /\ IF outcome = "not submitted" THEN UNCHANGED <<queue, list, races, unwaited>>
          ELSE /\ queue' = [t \in Tensors |-> IF t \in ts THEN Access(BeforeTransfer(t, a), a) ELSE queue[t]]
               /\ list' = queue'
               /\ races' = races \cup {t \in ts : Races(BeforeTransfer(t, a), a)}
               /\ unwaited' = IF outcome = "done" THEN unwaited ELSE unwaited \cup ts
  /\ UNCHANGED <<leased, batch, nextId, cache, views>>

Upload(ts) == Transfer(ts, "TransferWrite")
Download(t) == Transfer({t}, "TransferRead")

\* LinearWeight::upload: its tensors are new, so their copies need no barrier, and get their access
\* once the transfer is over.  A failure leaves no weight, and the tensors are gone.
UploadWeight(ts) ==
  /\ ~leased /\ \A t \in ts : access[t] = None /\ queue[t] = Quiet
  /\ queue' = [t \in Tensors |-> IF t \in ts THEN Access(queue[t], "TransferWrite") ELSE queue[t]]
  /\ list' = queue'
  /\ access' = [t \in Tensors |-> IF t \in ts THEN "TransferWrite" ELSE access[t]]
  /\ UNCHANGED <<leased, batch, nextId, cache, views, races, unwaited>>

-----------------------------------------------------------------------------
\* The tensors the application can name; a cache keeps its own to itself.
Application == Tensors \ {CacheTensor[c] : c \in Caches}

BatchNext ==
  \/ BeginBatch \/ Transition \/ RecordingThrows \/ Publish \/ Submit \/ Drop
  \/ \E o \in Operators : Record(o)
  \/ \E c \in Caches, src \in Sources : Prepare(c, src)
  \/ \E v \in views, out \in Application : UseView(v, out)
  \/ \E ts \in SUBSET Application \ {{}} : Upload(ts) \/ UploadWeight(ts)
  \/ \E t \in Application : Download(t)

-----------------------------------------------------------------------------
(* Properties.                                                             *)

Order == [Stages -> SUBSET (Stages \X BOOLEAN)]

\* No batch means no lease, so that nothing is locked out of the context for good; and what is
\* recorded while no batch is open is what the queue has.
LeaseEndsWithBatch == leased = batch.open /\ (~batch.open => list = queue)

BatchTypeOK ==
  /\ LeaseEndsWithBatch
  /\ access \in [Tensors -> Accesses \cup {None}]
  /\ leased \in BOOLEAN /\ nextId \in Nat
  /\ batch \in [open : BOOLEAN, id : Nat, ops : 0..MaxOps, poisoned : BOOLEAN, todo : Seq(Uses),
                fill : [cache : Caches, holds : Tensors] \cup {NoFill}, saved : SUBSET Tensors,
                snapshots : [Tensors -> Accesses \cup {None}], races : SUBSET Tensors]
  /\ cache \in [Caches -> [generation : Nat, batch : Nat, holds : Tensors \cup {None},
                           ran : Tensors \cup {None}]]
  /\ views \subseteq [cache : Caches, batch : Nat, holds : Tensors, generation : Nat]
  /\ queue \in [Tensors -> Order] /\ list \in [Tensors -> Order]
  /\ races \subseteq Tensors /\ unwaited \subseteq Tensors

\* The device never touches a tensor before what it was told to do with it earlier, if either of the
\* two writes, is over and visible: across operators, batches, abandoned and poisoned batches, and
\* boundary operations.  Tensors whose transfer was submitted and then reported as failed are
\* excepted: their access state is moved back although the device makes the access.
AccessesOrdered == races \subseteq unwaited

\* The same for every tensor, which the code does not keep.
EveryAccessOrdered == races = {}

\* Whatever is recorded next for a tensor will be ordered after everything before it: when a batch
\* is open, after its own commands, and after the queue's alone should the batch be dropped.
Covered(old, u) ==
  \A next \in Accesses : ~Races(AfterBarrier(u, old, next), next)

AccessIsCurrent ==
  \A t \in Tensors \ unwaited : Covered(access[t], list[t]) /\ Covered(Restored[t], queue[t])

\* A plan that accepts a prepared view reads what the view was prepared from: not what an earlier
\* batch, or an abandoned one, or a later prepare has put into the cache.
AcceptedViewIsCurrent ==
  \A v \in views : Ready /\ Accepts(v) => cache[v.cache].holds = v.holds

\* What the host keeps about the device between batches describes the device: the access states the
\* next barriers are chosen by, and the views of caches a plan goes on accepting.
NothingStale == AccessIsCurrent /\ AcceptedViewIsCurrent
=============================================================================
