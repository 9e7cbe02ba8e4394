-------------------------- MODULE VulkanWork_proofs --------------------------
(***************************************************************************)
(* The batches of the Vulkan backend, for any tensors, operators, caches   *)
(* and bounds: the device is told an order for every two accesses that     *)
(* need one, and a view of a cache is accepted only while it tells what    *)
(* the cache holds.  The inductive invariant is BatchInv.                  *)
(*                                                                         *)
(* The denoise loops, for any requests: CUDA's loop goes through a trace   *)
(* of states, and Vulkan's is always where a state of that trace is, or    *)
(* has thrown.  The inductive invariant is LoopInv.                        *)
(***************************************************************************)
EXTENDS VulkanWork, FiniteSetTheorems, WellFoundedInduction, TLAPS


\* What the device has been told of a tensor is what its access state says: nothing, or no more in
\* the stage of the last access than that access itself.
Current(old, u) == IF old = None THEN u = Quiet ELSE u[Stage(old)] \subseteq Events(old)

\* A batch that is not open is no batch, so that nothing of it is restored later.
OnlyOpenBatches == ~batch.open => batch = NoBatch

\* The access states describe what is recorded, and those a drop would restore what was submitted.
AccessIsKnown == \A t \in Tensors \ unwaited : Current(access[t], list[t]) /\ Current(Restored[t], queue[t])

\* Neither the queue nor the open batch holds a race the host does not know of.
RacesAreKnown == races \cup batch.races \subseteq unwaited

\* Batch identities only grow, and so do the generations of a cache.
IdsGrow ==
  /\ batch.open => batch.id < nextId
  /\ \A v \in views : v.batch < nextId /\ v.generation <= cache[v.cache].generation

\* A view of the open batch and of its cache's generation holds what the cache does.
ViewsAreCurrent ==
  \A v \in views : batch.open /\ v.batch = batch.id /\ v.generation = cache[v.cache].generation =>
    cache[v.cache].holds = v.holds

BatchInv == BatchTypeOK /\ OnlyOpenBatches /\ AccessIsKnown /\ RacesAreKnown /\ IdsGrow /\ ViewsAreCurrent

-----------------------------------------------------------------------------
(* One tensor: a barrier chosen by a current access state suffices.        *)

LEMMA BarrierOrders ==
  ASSUME NEW old \in Accesses \cup {None}, NEW next \in Accesses, NEW u \in Order, Current(old, u)
  PROVE  /\ AfterBarrier(u, old, next) \in Order
         /\ ~Races(AfterBarrier(u, old, next), next)
         /\ Access(AfterBarrier(u, old, next), next) \in Order
         /\ Current(next, Access(AfterBarrier(u, old, next), next))
<1> DEFINE before == AfterBarrier(u, old, next)
<1>1. Stage(next) \in Stages /\ Events(next) \subseteq Stages \X BOOLEAN /\ next # None
  BY DEF Stage, Stages, Events, Accesses, None
<1>2. before \in Order BY <1>1 DEF AfterBarrier, Barrier, Order
<1>3. \A e \in before[Stage(next)] : e \in Events(next) /\ ~e[2] /\ ~Writes(next)
  <2>1. CASE old = None BY <2>1, <1>1 DEF Current, Quiet, AfterBarrier, NeedsBarrier
  <2>2. CASE old # None /\ NeedsBarrier(old, next)
    <3>1. before[Stage(next)] = {e \in u[Stage(next)] : ~Ordered(u, old, e)}
      BY <2>2, <1>1 DEF AfterBarrier, Barrier, Order
    <3>2. \A e \in u[Stage(old)] : e[1] = Stage(old) /\ (e[2] => Writes(old))
      BY <2>2 DEF Current, Events
    <3>3. QED BY <3>1, <3>2 DEF Ordered
  <2>3. CASE old # None /\ ~NeedsBarrier(old, next)
    <3>1. old = next /\ ~Writes(next) /\ before = u BY <2>3 DEF NeedsBarrier, AfterBarrier
    <3>2. QED BY <3>1, <2>3 DEF Current, Events
  <2>4. QED BY <2>1, <2>2, <2>3
<1>4. Access(before, next) \in Order BY <1>1, <1>2 DEF Access, Order
<1>5. Access(before, next)[Stage(next)] = before[Stage(next)] \cup Events(next) BY <1>1 DEF Access
<1>6. QED BY <1>1, <1>2, <1>3, <1>4, <1>5 DEF Races, Current

-----------------------------------------------------------------------------
(* Every step.                                                             *)

\* The type of a batch.
Batches == [open : BOOLEAN, id : Nat, ops : 0..MaxOps, poisoned : BOOLEAN, todo : Seq(Uses),
            fill : [cache : Caches, holds : Tensors] \cup {NoFill}, saved : SUBSET Tensors,
            snapshots : [Tensors -> Accesses \cup {None}], races : SUBSET Tensors]

\* The type of what a cache remembers.
CacheStates == [generation : Nat, batch : Nat, holds : Tensors \cup {None}, ran : Tensors \cup {None}]

\* The types the proofs below use most, and those of what a drop would restore.
LEMMA TypedBatch ==
  ASSUME BatchTypeOK
  PROVE  /\ access \in [Tensors -> Accesses \cup {None}] /\ Restored \in [Tensors -> Accesses \cup {None}]
         /\ batch.snapshots \in [Tensors -> Accesses \cup {None}] /\ batch.todo \in Seq(Uses)
         /\ batch.ops \in 0..MaxOps /\ batch.saved \subseteq Tensors /\ batch.races \subseteq Tensors
         /\ queue \in [Tensors -> Order] /\ list \in [Tensors -> Order] /\ batch \in Batches
BY DEF BatchTypeOK, Restored, Batches

\* The batch that is none has the type of a batch.
LEMMA NoBatchTyped == NoBatch \in Batches /\ ~NoBatch.open
BY BatchAssumption DEF BatchAssumption, NoBatch, Batches

\* A barrier only takes accesses away, and an access adds its own.
LEMMA OrderTyped ==
  ASSUME NEW u \in Order, NEW old \in Accesses \cup {None}, NEW a \in Accesses
  PROVE  Access(AfterBarrier(u, old, a), a) \in Order
<1>1. Stage(a) \in Stages BY DEF Stage, Stages
<1>2. AfterBarrier(u, old, a) \in Order BY <1>1 DEF AfterBarrier, Barrier, Order
<1>3. Events(a) \in SUBSET (Stages \X BOOLEAN) BY <1>1 DEF Events
<1>4. QED BY <1>2, <1>3 DEF Access, Order

LEMMA BatchInit_Inv == BatchInit => BatchInv
<1> SUFFICES ASSUME BatchInit PROVE BatchInv OBVIOUS
<1>1. Quiet \in Order BY DEF Quiet, Order
<1>2. BatchTypeOK BY <1>1, NoBatchTyped DEF BatchInit, BatchTypeOK, LeaseEndsWithBatch, Batches
<1>3. Restored = access BY DEF BatchInit, Restored, NoBatch
<1>4. QED
  BY <1>2, <1>3 DEF BatchInit, BatchInv, OnlyOpenBatches, AccessIsKnown, RacesAreKnown, IdsGrow, ViewsAreCurrent,
                    Current, NoBatch

LEMMA BeginKeepsInv ==
  ASSUME BatchInv, BeginBatch
  PROVE  BatchInv'
<1> USE DEF BatchInv, BeginBatch
<1>1. BatchTypeOK'
  <2>1. CASE UNCHANGED <<leased, batch>> BY <2>1 DEF BatchTypeOK, LeaseEndsWithBatch
  <2>2. CASE leased' = TRUE /\ batch' = [NoBatch EXCEPT !.open = TRUE, !.id = nextId]
    <3>1. nextId \in Nat BY DEF BatchTypeOK
    <3>2. [NoBatch EXCEPT !.open = TRUE] \in Batches BY NoBatchTyped DEF Batches
    <3>3. batch' = [[NoBatch EXCEPT !.open = TRUE] EXCEPT !.id = nextId] BY <2>2
    <3>4. batch' \in Batches /\ batch'.open BY <3>1, <3>2, <3>3, NoBatchTyped DEF Batches
    <3>5. LeaseEndsWithBatch' /\ nextId' \in Nat BY <2>2, <3>1, <3>4 DEF LeaseEndsWithBatch, Batches
    <3>6. QED BY <2>2, <3>4, <3>5 DEF BatchTypeOK, Batches
  <2>3. QED BY <2>1, <2>2
<1>2. OnlyOpenBatches' /\ RacesAreKnown'
  BY DEF OnlyOpenBatches, RacesAreKnown, NoBatch, BatchTypeOK, LeaseEndsWithBatch
<1>3. Restored' = Restored
  BY DEF OnlyOpenBatches, Restored, NoBatch, BatchTypeOK, LeaseEndsWithBatch
<1>4. AccessIsKnown' BY <1>3 DEF AccessIsKnown
<1>5. IdsGrow' /\ ViewsAreCurrent'
  <2>1. \A v \in views : v.batch \in Nat /\ v.batch < nextId /\ nextId \in Nat
    BY DEF IdsGrow, BatchTypeOK
  <2>2. CASE UNCHANGED batch BY <2>1, <2>2 DEF IdsGrow, ViewsAreCurrent, BatchTypeOK
  <2>3. CASE batch'.id = nextId BY <2>1, <2>3 DEF IdsGrow, ViewsAreCurrent, BatchTypeOK
  <2>4. QED BY <2>2, <2>3 DEF NoBatch
<1>6. QED BY <1>1, <1>2, <1>4, <1>5

LEMMA CountKeepsInv ==
  ASSUME BatchInv, NEW uses \in Seq(Uses), NEW fill \in [cache : Caches, holds : Tensors] \cup {NoFill},
         Count(uses, fill)
  PROVE  BatchInv'
<1> USE BatchAssumption DEF BatchAssumption, BatchInv, Count, Ready
<1>1. BatchTypeOK'
  <2>1. CASE batch' = [batch EXCEPT !.poisoned = TRUE] BY <2>1 DEF BatchTypeOK, LeaseEndsWithBatch
  <2>2. CASE batch.ops # MaxOps /\ batch' = [batch EXCEPT !.ops = @ + 1, !.todo = uses, !.fill = fill]
    <3>1. batch.ops + 1 \in 0..MaxOps BY <2>2, TypedBatch
    <3>2. QED BY <2>2, <3>1 DEF BatchTypeOK, LeaseEndsWithBatch
  <2>3. QED BY <2>1, <2>2
<1>2. OnlyOpenBatches' /\ RacesAreKnown' BY DEF OnlyOpenBatches, RacesAreKnown, BatchTypeOK
<1>3. Restored' = Restored BY DEF Restored, BatchTypeOK
<1>4. AccessIsKnown' BY <1>3 DEF AccessIsKnown
<1>5. IdsGrow' /\ ViewsAreCurrent' BY DEF IdsGrow, ViewsAreCurrent, BatchTypeOK
<1>6. QED BY <1>1, <1>2, <1>4, <1>5

LEMMA TransitionKeepsInv ==
  ASSUME BatchInv, Transition
  PROVE  BatchInv'
<1> USE DEF BatchInv
<1> DEFINE t == Head(batch.todo).t
           next == Head(batch.todo).a
           before == AfterBarrier(list[t], access[t], next)
<1>1. /\ batch.open /\ t \in Tensors /\ next \in Accesses /\ Tail(batch.todo) \in Seq(Uses)
  <2>1. Head(batch.todo) \in Uses /\ Tail(batch.todo) \in Seq(Uses) BY TypedBatch DEF Transition
  <2>2. QED BY <2>1 DEF Uses, Transition
<1>2. /\ batch' = [batch EXCEPT !.todo = Tail(@), !.saved = @ \cup {t}, !.snapshots = Saved(t),
                                !.races = IF Races(before, next) THEN @ \cup {t} ELSE @]
      /\ access' = [access EXCEPT ![t] = next]
      /\ list' = [list EXCEPT ![t] = Access(before, next)]
      /\ UNCHANGED <<leased, nextId, cache, views, queue, races, unwaited>>
  BY DEF Transition
<1>3. Access(before, next) \in Order BY <1>1, TypedBatch, OrderTyped
<1>4. Saved(t) \in [Tensors -> Accesses \cup {None}] BY TypedBatch, <1>1 DEF Saved
<1>5. t \notin unwaited => ~Races(before, next) /\ Current(next, Access(before, next))
  BY <1>1, TypedBatch, BarrierOrders DEF AccessIsKnown
<1> HIDE DEF t, next, before
<1>6. BatchTypeOK' BY <1>1, <1>2, <1>3, <1>4 DEF BatchTypeOK, LeaseEndsWithBatch
<1>7. batch'.races \subseteq unwaited BY <1>2, <1>5 DEF RacesAreKnown, BatchTypeOK
<1>8. OnlyOpenBatches' /\ RacesAreKnown'
  BY <1>1, <1>2, <1>7 DEF OnlyOpenBatches, RacesAreKnown, BatchTypeOK
<1>9. Restored' = Restored BY <1>1, <1>2, <1>4 DEF Restored, Saved, BatchTypeOK
<1>10. AccessIsKnown' BY <1>1, <1>2, <1>5, <1>9, TypedBatch DEF AccessIsKnown
<1>11. IdsGrow' /\ ViewsAreCurrent' BY <1>2 DEF IdsGrow, ViewsAreCurrent, BatchTypeOK
<1>12. QED BY <1>6, <1>8, <1>10, <1>11

LEMMA ThrowKeepsInv ==
  ASSUME BatchInv, RecordingThrows
  PROVE  BatchInv'
<1> USE DEF BatchInv
<1>1. PICK t \in {Head(batch.todo).t : i \in {1} \cap DOMAIN batch.todo} \cup {None} :
        batch' = [batch EXCEPT !.poisoned = TRUE, !.todo = <<>>, !.fill = NoFill,
                               !.saved = IF t = None THEN @ ELSE @ \cup {t},
                               !.snapshots = IF t = None THEN @ ELSE Saved(t)]
  BY DEF RecordingThrows
<1>2. t # None => t \in Tensors
  <2>1. batch.todo # <<>> => Head(batch.todo) \in Uses BY TypedBatch
  <2>2. QED BY <1>1, <2>1 DEF Uses
<1>3. Saved(t) \in [Tensors -> Accesses \cup {None}] BY TypedBatch DEF Saved
<1>4. batch.open /\ UNCHANGED <<access, leased, nextId, cache, views, queue, list, races, unwaited>>
  BY DEF RecordingThrows
<1>5. BatchTypeOK'
  <2>1. batch \in Batches /\ batch.open BY <1>4, TypedBatch
  <2>2. PICK saved \in SUBSET Tensors, snapshots \in [Tensors -> Accesses \cup {None}] :
          batch' = [batch EXCEPT !.poisoned = TRUE, !.todo = <<>>, !.fill = NoFill, !.saved = saved,
                                 !.snapshots = snapshots]
    BY <1>1, <1>2, <1>3, TypedBatch
  <2> DEFINE stopped == [batch EXCEPT !.poisoned = TRUE, !.todo = <<>>]
             emptied == [stopped EXCEPT !.fill = NoFill, !.saved = saved]
  <2>4. <<>> \in Seq(Uses) OBVIOUS
  <2>5. stopped \in Batches /\ stopped.open BY <2>1, <2>4 DEF Batches
  <2>6. batch' = [emptied EXCEPT !.snapshots = snapshots] BY <2>2
  <2> HIDE DEF stopped
  <2>7. emptied \in Batches /\ emptied.open BY <2>5 DEF Batches
  <2> HIDE DEF emptied
  <2>3. batch' \in Batches /\ batch'.open BY <2>6, <2>7 DEF Batches
  <2>8. QED BY <1>4, <2>3 DEF BatchTypeOK, LeaseEndsWithBatch, Batches
<1>6. OnlyOpenBatches' /\ RacesAreKnown'
  BY <1>1, <1>4 DEF OnlyOpenBatches, RacesAreKnown, BatchTypeOK
<1>7. Restored' = Restored BY <1>1, <1>2, <1>3, <1>4 DEF Restored, Saved, BatchTypeOK
<1>8. AccessIsKnown' BY <1>4, <1>7 DEF AccessIsKnown
<1>9. IdsGrow' /\ ViewsAreCurrent' BY <1>1, <1>4 DEF IdsGrow, ViewsAreCurrent, BatchTypeOK
<1>10. QED BY <1>5, <1>6, <1>8, <1>9

\* A publish makes the views of earlier generations outdated, and its own view current.
LEMMA PublishKeepsInv ==
  ASSUME BatchInv, Publish
  PROVE  BatchInv'
<1> USE DEF BatchInv
<1> DEFINE c == batch.fill.cache
           made == [cache |-> c, batch |-> batch.id, holds |-> batch.fill.holds,
                    generation |-> cache[c].generation + 1]
           filled == [generation |-> cache[c].generation + 1, holds |-> batch.fill.holds,
                      batch |-> IF c \in KeepsBatch THEN batch.id ELSE cache[c].batch, ran |-> cache[c].ran]
<1>1. /\ c \in Caches /\ batch.fill.holds \in Tensors /\ batch.id \in Nat /\ cache[c].generation \in Nat
      /\ cache[c].batch \in Nat /\ cache[c].ran \in Tensors \cup {None}
  BY DEF Publish, BatchTypeOK
<1>2. /\ cache' = [cache EXCEPT ![c] = filled]
      /\ views' = views \cup {made} /\ batch' = [batch EXCEPT !.fill = NoFill]
      /\ batch.open /\ UNCHANGED <<access, leased, nextId, queue, list, races, unwaited>>
  BY DEF Publish
<1>3. filled \in [generation : Nat, batch : Nat, holds : Tensors \cup {None}, ran : Tensors \cup {None}]
  BY <1>1
<1>4. made \in [cache : Caches, batch : Nat, holds : Tensors, generation : Nat] BY <1>1
<1>5. BatchTypeOK' BY <1>1, <1>2, <1>3, <1>4 DEF BatchTypeOK, LeaseEndsWithBatch
<1>6. OnlyOpenBatches' /\ RacesAreKnown' BY <1>2 DEF OnlyOpenBatches, RacesAreKnown, BatchTypeOK
<1>7. Restored' = Restored BY <1>2 DEF Restored, BatchTypeOK
<1>8. AccessIsKnown' BY <1>2, <1>7 DEF AccessIsKnown
<1>9. cache' \in [Caches -> [generation : Nat, batch : Nat, holds : Tensors \cup {None}, ran : Tensors \cup {None}]]
  BY <1>5 DEF BatchTypeOK
<1>10. cache'[c] = filled /\ \A d \in Caches \ {c} : cache'[d] = cache[d]
  BY <1>1, <1>2 DEF BatchTypeOK
<1>11. IdsGrow'
  <2>1. batch'.open /\ batch'.id < nextId' BY <1>2 DEF IdsGrow, BatchTypeOK
  <2>2. ASSUME NEW v \in views PROVE v.batch < nextId' /\ v.generation <= cache'[v.cache].generation
    BY <1>1, <1>2, <1>10 DEF IdsGrow, BatchTypeOK
  <2>3. made.batch < nextId' /\ made.generation <= cache'[made.cache].generation
    BY <1>1, <1>2, <1>10 DEF IdsGrow, BatchTypeOK
  <2>4. QED BY <1>2, <2>1, <2>2, <2>3 DEF IdsGrow
<1>12. ViewsAreCurrent'
  <2>1. ASSUME NEW v \in views, v.batch = batch.id, v.generation = cache'[v.cache].generation
        PROVE  cache'[v.cache].holds = v.holds
    <3>1. v.cache # c BY <1>1, <1>10, <2>1 DEF IdsGrow, BatchTypeOK
    <3>2. QED BY <1>2, <1>10, <2>1, <3>1 DEF ViewsAreCurrent, BatchTypeOK
  <2>2. cache'[made.cache].holds = made.holds BY <1>10
  <2>3. batch'.id = batch.id BY <1>2 DEF BatchTypeOK
  <2>4. QED BY <1>2, <2>1, <2>2, <2>3 DEF ViewsAreCurrent
<1>13. QED BY <1>5, <1>6, <1>8, <1>11, <1>12

\* Once no batch is open, what a drop would restore is what there is.
LEMMA NothingToRestore ==
  ASSUME batch' = NoBatch, access' \in [Tensors -> Accesses \cup {None}]
  PROVE  Restored' = access'
BY DEF Restored, NoBatch

LEMMA SubmitKeepsInv ==
  ASSUME BatchInv, Submit
  PROVE  BatchInv'
<1> USE DEF BatchInv, Submit, Ready
<1>1. BatchTypeOK'
  <2>1. queue' \in [Tensors -> Order] /\ races' \subseteq Tensors BY TypedBatch DEF BatchTypeOK
  <2>2. cache' \in [Caches -> CacheStates]
    <3>1. ASSUME NEW c \in Caches PROVE [cache[c] EXCEPT !.ran = cache[c].holds] \in CacheStates
      <4>1. cache[c] \in CacheStates BY DEF BatchTypeOK, CacheStates
      <4>2. QED BY <4>1 DEF CacheStates
    <3>2. QED BY <3>1
  <2>3. batch' \in Batches /\ LeaseEndsWithBatch' BY NoBatchTyped DEF LeaseEndsWithBatch, Batches
  <2>4. QED BY <2>1, <2>2, <2>3 DEF BatchTypeOK, Batches, CacheStates
<1>2. OnlyOpenBatches' /\ RacesAreKnown' BY DEF OnlyOpenBatches, RacesAreKnown, NoBatch
<1>3. Restored' = access BY NothingToRestore, TypedBatch
<1>4. AccessIsKnown' BY <1>3 DEF AccessIsKnown
<1>5. \A c \in Caches : cache'[c].generation = cache[c].generation BY DEF BatchTypeOK
<1>6. IdsGrow' /\ ViewsAreCurrent' BY <1>5 DEF IdsGrow, ViewsAreCurrent, NoBatch, BatchTypeOK
<1>7. QED BY <1>1, <1>2, <1>4, <1>6

LEMMA DropKeepsInv ==
  ASSUME BatchInv, Drop
  PROVE  BatchInv'
<1> USE DEF BatchInv, Drop
<1>1. BatchTypeOK'
  <2>1. access' \in [Tensors -> Accesses \cup {None}] /\ queue' \in [Tensors -> Order] /\ list' \in [Tensors -> Order]
    BY TypedBatch
  <2>2. cache' \in [Caches -> CacheStates]
    <3>1. ASSUME NEW c \in Caches PROVE [cache[c] EXCEPT !.holds = cache[c].ran] \in CacheStates
      <4>1. cache[c] \in CacheStates BY DEF BatchTypeOK, CacheStates
      <4>2. QED BY <4>1 DEF CacheStates
    <3>2. QED BY <3>1
  <2>3. batch' \in Batches /\ LeaseEndsWithBatch' BY NoBatchTyped DEF LeaseEndsWithBatch, Batches
  <2>4. QED BY <2>1, <2>2, <2>3 DEF BatchTypeOK, Batches, CacheStates
<1>2. OnlyOpenBatches' /\ RacesAreKnown' BY DEF OnlyOpenBatches, RacesAreKnown, NoBatch
<1>3. Restored' = access' BY NothingToRestore, TypedBatch
<1>4. AccessIsKnown' BY <1>3 DEF AccessIsKnown
<1>5. \A c \in Caches : cache'[c].generation = cache[c].generation BY DEF BatchTypeOK
<1>6. IdsGrow' /\ ViewsAreCurrent' BY <1>5 DEF IdsGrow, ViewsAreCurrent, NoBatch, BatchTypeOK
<1>7. QED BY <1>1, <1>2, <1>4, <1>6

\* A boundary operation needs a barrier exactly when a recorded one would.
LEMMA TransferBarrier ==
  ASSUME NEW t \in Tensors, NEW a \in Accesses
  PROVE  BeforeTransfer(t, a) = AfterBarrier(queue[t], access[t], a)
BY DEF BeforeTransfer, AfterBarrier, NeedsTransferBarrier, NeedsBarrier

LEMMA TransferKeepsInv ==
  ASSUME BatchInv, NEW ts \in SUBSET Tensors, NEW a \in Accesses, Transfer(ts, a)
  PROVE  BatchInv'
<1> USE DEF BatchInv
<1>1. PICK outcome \in Outcomes :
        /\ access' = AccessAfter(ts, a, outcome)
        /\ IF outcome = "not submitted" THEN UNCHANGED <<queue, list, races, unwaited>>
           ELSE /\ queue' = [t \in Tensors |-> IF t \in ts THEN Access(BeforeTransfer(t, a), a) ELSE queue[t]]
                /\ list' = queue'
                /\ races' = races \cup {t \in ts : Races(BeforeTransfer(t, a), a)}
                /\ unwaited' = IF outcome = "done" THEN unwaited ELSE unwaited \cup ts
  BY DEF Transfer
<1>2. ~leased /\ UNCHANGED <<leased, batch, nextId, cache, views>> BY DEF Transfer
<1>3. batch = NoBatch /\ ~batch.open /\ list = queue
  BY <1>2 DEF OnlyOpenBatches, BatchTypeOK, LeaseEndsWithBatch
<1>4. Restored = access BY <1>3 DEF Restored, NoBatch, BatchTypeOK
<1>5. ASSUME NEW t \in Tensors
      PROVE  /\ Access(BeforeTransfer(t, a), a) \in Order
             /\ t \notin unwaited => /\ ~Races(BeforeTransfer(t, a), a)
                                   /\ Current(a, Access(BeforeTransfer(t, a), a))
  <2>1. access[t] \in Accesses \cup {None} /\ queue[t] \in Order BY TypedBatch
  <2>2. BeforeTransfer(t, a) = AfterBarrier(queue[t], access[t], a) BY TransferBarrier
  <2>4. Access(BeforeTransfer(t, a), a) \in Order BY <2>1, <2>2, OrderTyped
  <2>5. t \notin unwaited => Current(access[t], queue[t]) BY <1>4 DEF AccessIsKnown
  <2>6. QED BY <2>1, <2>2, <2>4, <2>5, BarrierOrders
<1>6. access' \in [Tensors -> Accesses \cup {None}] BY <1>1, TypedBatch DEF AccessAfter
<1>7. queue' \in [Tensors -> Order] /\ list' = queue' BY <1>1, <1>3, <1>5, TypedBatch
<1>8. races' \subseteq unwaited' /\ unwaited' \subseteq Tensors /\ unwaited \subseteq unwaited'
  BY <1>1, <1>5 DEF RacesAreKnown, BatchTypeOK
<1>9. BatchTypeOK' BY <1>2, <1>6, <1>7, <1>8 DEF BatchTypeOK, LeaseEndsWithBatch
<1>10. OnlyOpenBatches' /\ RacesAreKnown' BY <1>2, <1>8 DEF OnlyOpenBatches, RacesAreKnown
<1>11. AccessIsKnown'
  <2>1. Restored' = access' BY <1>2, <1>3, <1>6, NothingToRestore
  <2>2. ASSUME NEW t \in Tensors \ unwaited' PROVE Current(access'[t], queue'[t])
    <3>1. t \notin unwaited /\ Current(access[t], queue[t]) BY <1>4, <1>8 DEF AccessIsKnown
    <3>2. CASE outcome = "not submitted" BY <1>1, <3>1, <3>2 DEF AccessAfter
    <3>3. CASE outcome # "not submitted" /\ t \in ts
      <4>1. outcome = "done" BY <1>1, <3>3
      <4>2. access'[t] = a /\ queue'[t] = Access(BeforeTransfer(t, a), a)
        BY <1>1, <3>3, <4>1 DEF AccessAfter
      <4>3. QED BY <1>5, <3>1, <4>2
    <3>4. CASE outcome # "not submitted" /\ t \notin ts BY <1>1, <3>1, <3>4 DEF AccessAfter
    <3>5. QED BY <3>2, <3>3, <3>4
  <2>3. QED BY <1>7, <2>1, <2>2 DEF AccessIsKnown
<1>12. IdsGrow' /\ ViewsAreCurrent' BY <1>2 DEF IdsGrow, ViewsAreCurrent
<1>13. QED BY <1>9, <1>10, <1>11, <1>12

LEMMA UploadWeightKeepsInv ==
  ASSUME BatchInv, NEW ts \in SUBSET Tensors, UploadWeight(ts)
  PROVE  BatchInv'
<1> USE DEF BatchInv, UploadWeight
<1>1. batch = NoBatch /\ ~batch.open /\ list = queue /\ Restored = access
  BY DEF OnlyOpenBatches, BatchTypeOK, LeaseEndsWithBatch, Restored, NoBatch
<1>2. "TransferWrite" \in Accesses /\ Stage("TransferWrite") \in Stages
  BY DEF Accesses, Stage, Stages
<1>3. \A t \in ts : /\ Access(queue[t], "TransferWrite") \in Order
                    /\ Current("TransferWrite", Access(queue[t], "TransferWrite"))
  BY <1>2 DEF Access, Order, Current, Quiet, Events, Stages, Stage, None
<1>4. queue' \in [Tensors -> Order] /\ list' = queue' /\ access' \in [Tensors -> Accesses \cup {None}]
  BY <1>2, <1>3, TypedBatch
<1>5. BatchTypeOK' BY <1>4 DEF BatchTypeOK, LeaseEndsWithBatch
<1>6. OnlyOpenBatches' /\ RacesAreKnown' /\ IdsGrow' /\ ViewsAreCurrent'
  BY DEF OnlyOpenBatches, RacesAreKnown, IdsGrow, ViewsAreCurrent
<1>7. Restored' = access' BY <1>1, <1>4, NothingToRestore
<1>8. AccessIsKnown' BY <1>1, <1>3, <1>4, <1>7 DEF AccessIsKnown
<1>9. QED BY <1>5, <1>6, <1>8

LEMMA BatchStepKeepsInv ==
  ASSUME BatchInv, BatchNext
  PROVE  BatchInv'
<1>1. CASE BeginBatch BY <1>1, BeginKeepsInv
<1>2. CASE Transition BY <1>2, TransitionKeepsInv
<1>3. CASE RecordingThrows BY <1>3, ThrowKeepsInv
<1>4. CASE Publish BY <1>4, PublishKeepsInv
<1>5. CASE Submit BY <1>5, SubmitKeepsInv
<1>6. CASE Drop BY <1>6, DropKeepsInv
<1>7. NoFill \in [cache : Caches, holds : Tensors] \cup {NoFill} OBVIOUS
<1>8. ASSUME NEW o \in Operators, Record(o) PROVE BatchInv'
  <2>1. o \in Seq(Uses) BY OperatorAssumption DEF OperatorAssumption
  <2>2. QED BY <1>7, <1>8, <2>1, CountKeepsInv DEF Record
<1>9. ASSUME NEW c \in Caches, NEW src \in Sources, Prepare(c, src) PROVE BatchInv'
  <2>1. src \in Tensors /\ CacheTensor[c] \in Tensors BY BatchAssumption DEF BatchAssumption
  <2>2. R(src) \in Uses /\ W(CacheTensor[c]) \in Uses BY <2>1 DEF R, W, Uses, Accesses
  <2>3. <<R(src), W(CacheTensor[c])>> \in Seq(Uses) /\ [cache |-> c, holds |-> src] \in [cache : Caches, holds : Tensors]
    BY <2>1, <2>2
  <2>4. QED BY <1>9, <2>3, CountKeepsInv DEF Prepare
<1>10. ASSUME NEW v \in views, NEW out \in Application, UseView(v, out) PROVE BatchInv'
  <2>1. v.cache \in Caches /\ out \in Tensors BY DEF BatchInv, BatchTypeOK, Application
  <2>2. R(CacheTensor[v.cache]) \in Uses /\ W(out) \in Uses
    BY <2>1, BatchAssumption DEF BatchAssumption, R, W, Uses, Accesses
  <2>3. <<R(CacheTensor[v.cache]), W(out)>> \in Seq(Uses) BY <2>2
  <2>4. QED BY <1>7, <1>10, <2>3, CountKeepsInv DEF UseView
<1>11. Application \subseteq Tensors /\ "TransferWrite" \in Accesses /\ "TransferRead" \in Accesses
  BY DEF Application, Accesses
<1>12. ASSUME NEW ts \in SUBSET Application \ {{}}, Upload(ts) \/ UploadWeight(ts) PROVE BatchInv'
  BY <1>11, <1>12, TransferKeepsInv, UploadWeightKeepsInv DEF Upload
<1>13. ASSUME NEW t \in Application, Download(t) PROVE BatchInv'
  <2>1. {t} \in SUBSET Tensors BY <1>11
  <2>2. QED BY <1>11, <1>13, <2>1, TransferKeepsInv DEF Download
<1>14. QED BY <1>1, <1>2, <1>3, <1>4, <1>5, <1>6, <1>8, <1>9, <1>10, <1>12, <1>13 DEF BatchNext

LEMMA BatchInvHolds == Spec => []BatchInv
<1>1. Init => BatchInv BY BatchInit_Inv DEF Init
<1>2. BatchInv /\ [Next]_vars => BatchInv'
  <2> SUFFICES ASSUME BatchInv, [Next]_vars PROVE BatchInv' OBVIOUS
  <2>1. CASE BatchNext BY <2>1, BatchStepKeepsInv
  <2>2. CASE UNCHANGED batchVars
    BY <2>2 DEF batchVars, BatchInv, BatchTypeOK, LeaseEndsWithBatch, OnlyOpenBatches, AccessIsKnown, RacesAreKnown,
                IdsGrow, ViewsAreCurrent, Restored
  <2>3. QED BY <2>1, <2>2 DEF Next, vars
<1>3. QED BY <1>1, <1>2, PTL DEF Spec

-----------------------------------------------------------------------------
(* The theorems.                                                           *)

\* The state of the batches, their accesses, caches and views always has its type, a batch never
\* counts more than max_batch_operators, and the lease ends with the batch.
THEOREM BatchesAreTyped == Spec => []BatchTypeOK
BY BatchInvHolds, PTL DEF BatchInv

\* The device never touches a tensor before what it was told to do with it earlier is over and
\* visible, unless the tensor's own transfer was submitted and then reported as failed.
THEOREM DeviceIsOrdered == Spec => []AccessesOrdered
<1>1. BatchInv => AccessesOrdered BY DEF BatchInv, RacesAreKnown, AccessesOrdered
<1>2. QED BY <1>1, BatchInvHolds, PTL

\* What the host keeps about the device describes it: any access recorded next will be ordered, with
\* the open batch's commands and without them, and a view a plan accepts holds what it says.
THEOREM HostKnowsTheDevice == Spec => []NothingStale
<1>1. BatchInv => AccessIsCurrent
  <2> SUFFICES ASSUME BatchInv, NEW t \in Tensors \ unwaited
               PROVE  Covered(access[t], list[t]) /\ Covered(Restored[t], queue[t])
    BY DEF AccessIsCurrent
  <2>1. /\ access[t] \in Accesses \cup {None} /\ Restored[t] \in Accesses \cup {None}
        /\ list[t] \in Order /\ queue[t] \in Order
    BY TypedBatch DEF BatchInv
  <2>2. Current(access[t], list[t]) /\ Current(Restored[t], queue[t]) BY DEF BatchInv, AccessIsKnown
  <2>3. QED BY <2>1, <2>2, BarrierOrders DEF Covered
<1>2. BatchInv => AcceptedViewIsCurrent
  BY DEF BatchInv, ViewsAreCurrent, AcceptedViewIsCurrent, Ready, Accepts
<1>3. QED BY <1>1, <1>2, BatchInvHolds, PTL DEF NothingStale

-----------------------------------------------------------------------------
(* The schedule of a request.                                              *)

\* Every set of natural numbers that is not empty has a least element.
LEMMA LeastNatural ==
  ASSUME NEW S \in SUBSET Nat, S # {}
  PROVE  \E n \in S : \A k \in S : n <= k
<1>1. IsWellFoundedOn(OpToRel(<, Nat), Nat) BY NatLessThanWellFounded
<1>2. PICK x \in S : \A y \in S : ~(<<y, x>> \in OpToRel(<, Nat)) BY <1>1, WFMin
<1>3. \A y \in S : ~(y < x) BY <1>2 DEF OpToRel
<1>4. \A y \in S : x <= y BY <1>3
<1>5. QED BY <1>4

-----------------------------------------------------------------------------
(* The schedule.                                                           *)

Positions == [Modalities -> Nat]
Over(p, steps) == \E m \in Modalities : p[m] >= steps[m]
Entry(p, steps) == [video |-> p.video, audio |-> p.audio, advance |-> Moves(p, steps)]

\* What a step of a schedule may be: with equal schedules both modalities always advance.
Entries(p, steps) ==
  {e \in [video : Nat, audio : Nat, advance : SUBSET Modalities] :
     steps.video = steps.audio /\ p.video = p.audio => e.advance = Modalities}

\* How many boundaries are at most ahead of a position.
Ahead(p, steps) == IF Over(p, steps) THEN 0 ELSE (steps.video - p.video) + (steps.audio - p.audio)

LEMMA MovesAhead ==
  ASSUME NEW steps \in [Modalities -> Nat \ {0}], NEW p \in Positions
  PROVE  /\ Ahead(p, steps) \in Nat
         /\ Moved(p, steps) \in Positions
         /\ ~Over(p, steps) => Ahead(p, steps) > 0 /\ Ahead(Moved(p, steps), steps) < Ahead(p, steps)
         /\ steps.video = steps.audio /\ p.video = p.audio =>
              Moves(p, steps) = Modalities /\ Moved(p, steps).video = Moved(p, steps).audio
<1>1. /\ p.video \in Nat /\ p.audio \in Nat /\ steps.video \in Nat \ {0} /\ steps.audio \in Nat \ {0}
      /\ p["video"] = p.video /\ p["audio"] = p.audio
  BY DEF Positions, Modalities
<1>2. Over(p, steps) <=> p.video >= steps.video \/ p.audio >= steps.audio BY DEF Over, Modalities
<1>3. /\ "video" \in Moves(p, steps) <=> (p.video + 1) * steps.audio <= (p.audio + 1) * steps.video
      /\ "audio" \in Moves(p, steps) <=> (p.audio + 1) * steps.video <= (p.video + 1) * steps.audio
  <2>1. (p.video + 1) * steps.video \in Nat /\ (p.audio + 1) * steps.audio \in Nat BY <1>1
  <2>2. (p.video + 1) * steps.video <= (p.video + 1) * steps.video /\ (p.audio + 1) * steps.audio <= (p.audio + 1) * steps.audio
    BY <2>1
  <2>3. QED BY <2>2, Zenon DEF Moves, Modalities
<1>4. "video" \in Moves(p, steps) \/ "audio" \in Moves(p, steps)
  <2>1. (p.video + 1) * steps.audio \in Nat /\ (p.audio + 1) * steps.video \in Nat BY <1>1
  <2>2. QED BY <2>1, <1>3
<1>5. /\ Moved(p, steps) \in Positions
      /\ Moved(p, steps).video = IF "video" \in Moves(p, steps) THEN p.video + 1 ELSE p.video
      /\ Moved(p, steps).audio = IF "audio" \in Moves(p, steps) THEN p.audio + 1 ELSE p.audio
  BY <1>1 DEF Moved, Positions, Modalities
<1>6. Ahead(p, steps) \in Nat /\ (~Over(p, steps) => Ahead(p, steps) > 0) BY <1>1, <1>2 DEF Ahead
<1>7. ASSUME ~Over(p, steps) PROVE Ahead(Moved(p, steps), steps) < Ahead(p, steps)
  <2> DEFINE q == Moved(p, steps)
  <2>1. q.video \in Nat /\ q.audio \in Nat /\ q.video + q.audio > p.video + p.audio
    BY <1>1, <1>4, <1>5
  <2>2. Ahead(q, steps) = 0 \/ Ahead(q, steps) = (steps.video - q.video) + (steps.audio - q.audio)
    BY DEF Ahead
  <2>3. Ahead(p, steps) = (steps.video - p.video) + (steps.audio - p.audio) BY <1>7 DEF Ahead
  <2> HIDE DEF q
  <2>4. QED BY <1>1, <1>6, <1>7, <2>1, <2>2, <2>3 DEF q
<1>8. ASSUME steps.video = steps.audio, p.video = p.audio
      PROVE  Moves(p, steps) = Modalities /\ Moved(p, steps).video = Moved(p, steps).audio
  <2>1. (p.video + 1) * steps.audio \in Nat /\ (p.video + 1) * steps.audio = (p.audio + 1) * steps.video
    BY <1>1, <1>8
  <2>2. "video" \in Moves(p, steps) /\ "audio" \in Moves(p, steps) BY <2>1, <1>3
  <2>3. Moves(p, steps) \subseteq Modalities BY DEF Moves
  <2>4. QED BY <2>2, <2>3, <1>5, <1>8 DEF Modalities
<1>9. QED BY <1>5, <1>6, <1>7, <1>8

\* The schedule from a position on, and the recursion that defines it.
Rest(f, p, steps) == IF Over(p, steps) THEN <<>> ELSE <<Entry(p, steps)>> \o f[Moved(p, steps)]
Solves(f, steps) == f = [p \in Positions |-> Rest(f, p, steps)]

LEMMA RestIsTyped ==
  ASSUME NEW steps \in [Modalities -> Nat \ {0}], NEW p \in Positions, NEW f,
         ~Over(p, steps) => f[Moved(p, steps)] \in Seq(Entries(Moved(p, steps), steps))
  PROVE  Rest(f, p, steps) \in Seq(Entries(p, steps))
<1>1. CASE Over(p, steps) BY <1>1 DEF Rest
<1>2. CASE ~Over(p, steps)
  <2>1. Entries(Moved(p, steps), steps) \subseteq Entries(p, steps) BY MovesAhead DEF Entries
  <2>2. p.video \in Nat /\ p.audio \in Nat BY DEF Positions, Modalities
  <2>3. Moves(p, steps) \subseteq Modalities BY DEF Moves
  <2>4. Entry(p, steps) \in Entries(p, steps) BY <2>2, <2>3, MovesAhead DEF Entry, Entries
  <2>5. f[Moved(p, steps)] \in Seq(Entries(p, steps)) BY <1>2, <2>1
  <2>6. Rest(f, p, steps) = <<Entry(p, steps)>> \o f[Moved(p, steps)] BY <1>2 DEF Rest
  <2>7. QED BY <2>4, <2>5, <2>6
<1>3. QED BY <1>1, <1>2

\* The recursion has a solution: solve it for ever more boundaries ahead.
LEMMA Solvable == ASSUME NEW steps \in [Modalities -> Nat \ {0}] PROVE \E f : Solves(f, steps)
<1> DEFINE Upto(f, n) == \A p \in Positions : Ahead(p, steps) <= n => f[p] = Rest(f, p, steps)
           Solved(n) == \E f : f = [p \in Positions |-> f[p]] /\ Upto(f, n)
           Most == steps.video + steps.audio
<1>1. Solved(0)
  <2>1. \A p \in Positions : Ahead(p, steps) <= 0 => Over(p, steps) BY MovesAhead
  <2> DEFINE f == [p \in Positions |-> <<>>]
  <2>2. Upto(f, 0) /\ f = [p \in Positions |-> f[p]] BY <2>1 DEF Rest
  <2> QED BY <2>2
<1>2. ASSUME NEW n \in Nat, Solved(n) PROVE Solved(n + 1)
  <2>1. PICK f : f = [p \in Positions |-> f[p]] /\ Upto(f, n) BY <1>2
  <2> DEFINE g == [p \in Positions |-> Rest(f, p, steps)]
  <2>2. \A p \in Positions : g[p] = Rest(f, p, steps) OBVIOUS
  <2>3. \A p \in Positions : Ahead(p, steps) <= n => g[p] = f[p] BY <2>1, <2>2
  <2>4. ASSUME NEW p \in Positions, Ahead(p, steps) <= n + 1 PROVE g[p] = Rest(g, p, steps)
    <3>1. CASE Over(p, steps) BY <3>1, <2>2 DEF Rest
    <3>2. CASE ~Over(p, steps)
      <4>1. Moved(p, steps) \in Positions /\ Ahead(Moved(p, steps), steps) <= n
        BY <3>2, <2>4, MovesAhead
      <4>2. g[Moved(p, steps)] = f[Moved(p, steps)] BY <4>1, <2>3
      <4>3. Rest(g, p, steps) = Rest(f, p, steps) BY <4>2 DEF Rest
      <4>4. QED BY <4>3, <2>2
    <3>3. QED BY <3>1, <3>2
  <2>5. g = [p \in Positions |-> g[p]] BY Zenon
  <2> HIDE DEF g
  <2>6. Upto(g, n + 1) BY <2>4
  <2>7. QED BY <2>5, <2>6
<1> HIDE DEF Solved
<1>3. \A n \in Nat : Solved(n)
  <2> DEFINE Unsolved == {n \in Nat : ~Solved(n)}
  <2>1. SUFFICES ASSUME Unsolved # {} PROVE FALSE OBVIOUS
  <2>2. PICK n \in Unsolved : \A k \in Unsolved : n <= k BY <2>1, LeastNatural
  <2>3. n \in Nat /\ n # 0 BY <1>1
  <2>4. n - 1 \in Nat /\ n - 1 \notin Unsolved BY <2>2, <2>3
  <2>5. Solved((n - 1) + 1) BY <2>4, <1>2
  <2>6. QED BY <2>3, <2>5
<1>4. Most \in Nat BY DEF Modalities
<1>5. PICK f : f = [p \in Positions |-> f[p]] /\ Upto(f, Most) BY <1>3, <1>4 DEF Solved
<1>6. ASSUME NEW p \in Positions PROVE Ahead(p, steps) <= Most
  <2>1. p.video \in Nat /\ p.audio \in Nat /\ steps.video \in Nat /\ steps.audio \in Nat
    BY DEF Positions, Modalities
  <2>2. QED BY <2>1 DEF Ahead
<1>7. \A p \in Positions : f[p] = Rest(f, p, steps) BY <1>5, <1>6
<1>8. f = [p \in Positions |-> Rest(f, p, steps)] BY <1>5, <1>7, Zenon
<1>9. QED BY <1>8 DEF Solves

LEMMA SolutionIsTyped ==
  ASSUME NEW steps \in [Modalities -> Nat \ {0}], NEW f, Solves(f, steps), NEW q \in Positions
  PROVE  f[q] = Rest(f, q, steps) /\ f[q] \in Seq(Entries(q, steps))
<1>1. \A p \in Positions : f[p] = Rest(f, p, steps) BY DEF Solves
<1> DEFINE Typed(p) == f[p] \in Seq(Entries(p, steps))
           Bad == {n \in Nat : \E p \in Positions : Ahead(p, steps) = n /\ ~Typed(p)}
<1>2. SUFFICES ASSUME Bad # {} PROVE FALSE
  <2>1. Ahead(q, steps) \in Nat BY MovesAhead
  <2>2. QED BY <1>1, <1>2, <2>1
<1>3. PICK n \in Bad : \A k \in Bad : n <= k BY <1>2, LeastNatural
<1>4. PICK p \in Positions : Ahead(p, steps) = n /\ ~Typed(p) BY <1>3
<1>5. ~Over(p, steps) => Typed(Moved(p, steps)) BY <1>3, <1>4, MovesAhead
<1>6. Typed(p)
  <2> HIDE DEF Bad
  <2> QED BY <1>1, <1>4, <1>5, RestIsTyped
<1>7. QED BY <1>4, <1>6

\* A schedule has a step, and with equal schedules every step advances both modalities.
LEMMA ScheduleIsTyped ==
  ASSUME NEW steps \in [Modalities -> Nat \ {0}]
  PROVE  /\ JointSchedule(steps) \in Seq([video : Nat, audio : Nat, advance : SUBSET Modalities])
         /\ Len(JointSchedule(steps)) > 0
         /\ steps.video = steps.audio =>
              \A k \in 1..Len(JointSchedule(steps)) : JointSchedule(steps)[k].advance = Modalities
<1> DEFINE start == [m \in Modalities |-> 0]
           from == CHOOSE f : Solves(f, steps)
           s == JointSchedule(steps)
<1>1. s = from[start] BY Zenon DEF JointSchedule, Solves, Rest, Over, Entry, Positions
<1>2. Solves(from, steps) BY Solvable, Zenon
<1>3. start \in Positions /\ start.video = 0 /\ start.audio = 0 /\ ~Over(start, steps)
  BY DEF Positions, Over, Modalities
<1> HIDE DEF from, start, s
<1>4. s = Rest(from, start, steps) /\ s \in Seq(Entries(start, steps))
  BY <1>1, <1>2, <1>3, SolutionIsTyped
<1>5. Moved(start, steps) \in Positions BY <1>3, MovesAhead
<1>6. from[Moved(start, steps)] \in Seq(Entries(Moved(start, steps), steps))
  BY <1>2, <1>5, SolutionIsTyped
<1>7. s = <<Entry(start, steps)>> \o from[Moved(start, steps)] BY <1>3, <1>4 DEF Rest
<1>8. Len(s) > 0 BY <1>6, <1>7
<1>9. Entries(start, steps) \subseteq [video : Nat, audio : Nat, advance : SUBSET Modalities]
  BY DEF Entries
<1>10. \A k \in 1..Len(s) : s[k] \in Entries(start, steps) BY <1>4
<1>11. steps.video = steps.audio => \A k \in 1..Len(s) : s[k].advance = Modalities
  BY <1>3, <1>10 DEF Entries
<1>12. s \in Seq([video : Nat, audio : Nat, advance : SUBSET Modalities])
  <2> DEFINE all == [video : Nat, audio : Nat, advance : SUBSET Modalities]
  <2>1. Entries(start, steps) \subseteq all BY <1>9
  <2> HIDE DEF all
  <2>2. s \in Seq(all) BY <1>4, <2>1
  <2>3. QED BY <2>2 DEF all
<1>13. QED BY <1>8, <1>11, <1>12, Zenon DEF s

-----------------------------------------------------------------------------
(* What each step of the loops does to each variable.                      *)

Fields ==
  {"step", "rows", "input", "velocity", "used", "noise", "previous", "compute", "decisions", "computed",
   "skipped", "inner", "refined", "chain", "residual", "updates", "consecutive", "seen", "asked", "log",
   "cancelled", "sequence", "recorded", "failed"}

\* A loop's variables, its latents and velocities being of both modalities.
IsRun(r) ==
  /\ DOMAIN r = Fields
  /\ DOMAIN r.rows = Modalities /\ DOMAIN r.input = Modalities /\ DOMAIN r.velocity = Modalities

Keeps(r, s, fields) == \A f \in fields : s[f] = r[f]

\* The sequence the transformer is prepared for when this step is evaluated, and what it answers.
SequenceOf(r) == IF Tack(r) THEN "context" ELSE r.sequence
Answer(step, sequence, input) == Forward([step |-> step, sequence |-> sequence], input)

LEMMA AnswerIsForward == ASSUME NEW r, NEW i PROVE Forward(r, i) = Answer(r.step, r.sequence, i)
BY DEF Answer, Forward, Tack, Now, AudioTime

LEMMA AnswerIsOfBoth == ASSUME NEW k, NEW q, NEW i PROVE DOMAIN Answer(k, q, i) = Modalities
BY DEF Answer, Forward

LEMMA FreshIsRun == IsRun(Fresh)
BY DEF IsRun, Fresh, Fields, Modalities

LEMMA CudaDecides ==
  ASSUME NEW r, NEW s, NEW a, NEW b, IsRun(r), CudaDecide(r, a, s, b), r.step # Steps
  PROVE  /\ IsRun(s) /\ Keeps(r, s, Fields \ {"compute", "consecutive", "seen", "decisions", "inner", "chain"})
         /\ s.compute = ShouldCompute(r) /\ s.consecutive = IF ShouldCompute(r) THEN 0 ELSE r.consecutive + 1
         /\ s.seen = IF Motion THEN Append(r.seen, r.input) ELSE r.seen
         /\ s.decisions = Append(r.decisions, ShouldCompute(r)) /\ s.inner = 0 /\ s.chain = r.input.video
BY ZenonT(60) DEF IsRun, CudaDecide, Decided, Fields, Keeps

LEMMA Evaluating ==
  ASSUME NEW r, NEW s, IsRun(r), s = Evaluated(r)
  PROVE  /\ IsRun(s) /\ Keeps(r, s, Fields \ {"sequence", "velocity", "computed"})
         /\ s.sequence = SequenceOf(r) /\ s.velocity = Answer(r.step, SequenceOf(r), r.input)
         /\ s.computed = r.computed + 1
<1> DEFINE ready == IF Tack(r) THEN [r EXCEPT !.sequence = "context"] ELSE r
<1>1. DOMAIN ready = Fields /\ Keeps(r, ready, Fields \ {"sequence"}) /\ ready.sequence = SequenceOf(r)
  BY DEF Fields, IsRun, SequenceOf, Keeps
<1>2. s = [ready EXCEPT !.velocity = Forward(ready, ready.input), !.computed = @ + 1]
  BY DEF Evaluated
<1> HIDE DEF ready
<1>3. ready.step = r.step /\ ready.input = r.input /\ ready.rows = r.rows /\ ready.computed = r.computed
  BY <1>1 DEF Keeps, Fields
<1>4. Forward(ready, ready.input) = Answer(r.step, SequenceOf(r), r.input)
  BY <1>1, <1>3, AnswerIsForward
<1>5. DOMAIN s = Fields /\ Keeps(ready, s, Fields \ {"velocity", "computed"})
      /\ s.velocity = Forward(ready, ready.input) /\ s.computed = ready.computed + 1
  BY <1>1, <1>2 DEF Fields, Keeps
<1>6. Keeps(r, s, Fields \ {"sequence", "velocity", "computed"}) /\ s.sequence = SequenceOf(r)
  BY <1>1, <1>5 DEF Keeps, Fields
<1>7. IsRun(s) BY <1>4, <1>5, <1>6, AnswerIsOfBoth DEF IsRun, Keeps, Fields
<1>8. QED BY <1>3, <1>4, <1>5, <1>6, <1>7

LEMMA Publishing ==
  ASSUME NEW r, NEW s, IsRun(r), s = Published(r)
  PROVE  /\ IsRun(s) /\ Keeps(r, s, Fields \ {"input"}) /\ s.input = [r.input EXCEPT !.video = r.chain]
BY DEF IsRun, Published, Keeps, Fields

LEMMA Asking ==
  ASSUME NEW r, NEW s, NEW e, IsRun(r), s = Ask(r, e)
  PROVE  /\ IsRun(s) /\ Keeps(r, s, Fields \ {"log", "asked", "cancelled"})
         /\ s.log = Append(r.log, e) /\ s.asked = r.asked + 1 /\ s.cancelled = ~Goes(r)
BY DEF IsRun, Ask, Call, Fields, Keeps

\* What refine asks of the transformer.
Candidates(r) == [r.input EXCEPT !.video = r.chain]
Push(r) == Answer(r.step, SequenceOf(r), Candidates(r))
Moving(r) == <<"langevin", r.step, r.inner, r.chain, Push(r).video>>

LEMMA CudaAsking ==
  ASSUME NEW r, NEW s, IsRun(r), s = Asked(r)
  PROVE  /\ IsRun(s)
         /\ Keeps(r, s, Fields \ {"input", "sequence", "velocity", "computed", "log", "asked", "cancelled"})
         /\ s.input = Candidates(r) /\ s.sequence = SequenceOf(r) /\ s.velocity = Push(r)
         /\ s.computed = r.computed + 1 /\ s.log = Append(r.log, <<"progress", r.step>>)
         /\ s.asked = r.asked + 1 /\ s.cancelled = ~Goes(r)
<1> DEFINE p == Published(r)
           e == Evaluated(p)
<1>1. IsRun(p) /\ Keeps(r, p, Fields \ {"input"}) /\ p.input = Candidates(r)
  BY Publishing DEF Candidates
<1> DEFINE event == <<"progress", r.step>>
<1>2. s = Ask(e, event) BY DEF Asked
<1>3. e = Evaluated(p) OBVIOUS
<1> HIDE DEF p, e, event
<1>4. p.step = r.step /\ p.sequence = r.sequence /\ SequenceOf(p) = SequenceOf(r) /\ p.computed = r.computed
  BY <1>1 DEF Keeps, Fields, SequenceOf, Tack, Now
<1>5. /\ IsRun(e) /\ Keeps(p, e, Fields \ {"sequence", "velocity", "computed"})
      /\ e.sequence = SequenceOf(r) /\ e.velocity = Push(r) /\ e.computed = r.computed + 1
  <2>1. /\ IsRun(e) /\ Keeps(p, e, Fields \ {"sequence", "velocity", "computed"})
        /\ e.sequence = SequenceOf(p) /\ e.velocity = Answer(p.step, SequenceOf(p), p.input)
        /\ e.computed = p.computed + 1
    BY <1>1, <1>3, Evaluating
  <2>2. QED BY <1>1, <1>4, <2>1 DEF Push
<1>6. Keeps(r, e, Fields \ {"input", "sequence", "velocity", "computed"}) /\ e.input = Candidates(r)
  BY <1>1, <1>5 DEF Keeps, Fields
<1>7. /\ IsRun(s) /\ Keeps(e, s, Fields \ {"log", "asked", "cancelled"})
      /\ s.log = Append(e.log, event) /\ s.asked = e.asked + 1 /\ s.cancelled = ~Goes(e)
  BY <1>2, <1>5, Asking, ZenonT(60)
<1>8. e.asked = r.asked /\ e.log = r.log /\ (Goes(e) <=> Goes(r)) BY <1>6 DEF Keeps, Fields, Goes
<1>9. Keeps(r, s, Fields \ {"input", "sequence", "velocity", "computed", "log", "asked", "cancelled"})
  BY <1>6, <1>7 DEF Keeps, Fields
<1>10. s.input = e.input /\ s.sequence = e.sequence /\ s.velocity = e.velocity /\ s.computed = e.computed
  BY <1>7 DEF Keeps, Fields
<1>11. QED BY <1>5, <1>6, <1>7, <1>8, <1>9, <1>10 DEF event

LEMMA CudaRefines ==
  ASSUME NEW r, NEW s, NEW a, NEW b, IsRun(r), CudaRefine(r, a, s, b), Goes(r)
  PROVE  /\ IsRun(s) /\ Keeps(r, s, Fields \ {"input", "sequence", "velocity", "computed", "log", "asked", "cancelled",
                                             "inner", "refined", "chain"})
         /\ s.input = IF r.inner + 1 = request.inner THEN [Candidates(r) EXCEPT !.video = Moving(r)] ELSE Candidates(r)
         /\ s.sequence = SequenceOf(r) /\ s.velocity = Push(r)
         /\ s.computed = r.computed + 1 /\ s.log = Append(r.log, <<"progress", r.step>>)
         /\ s.asked = r.asked + 1 /\ s.cancelled = FALSE
         /\ s.inner = r.inner + 1 /\ s.refined = r.refined + 1 /\ s.chain = Moving(r)
<1> DEFINE q == Asked(r)
<1>1. /\ IsRun(q)
      /\ Keeps(r, q, Fields \ {"input", "sequence", "velocity", "computed", "log", "asked", "cancelled"})
      /\ q.input = Candidates(r) /\ q.sequence = SequenceOf(r) /\ q.velocity = Push(r)
      /\ q.computed = r.computed + 1 /\ q.log = Append(r.log, <<"progress", r.step>>)
      /\ q.asked = r.asked + 1 /\ q.cancelled = ~Goes(r)
  BY CudaAsking
<1>2. s = Refined(q) BY DEF CudaRefine
<1> HIDE DEF q
<1>3. q.step = r.step /\ q.inner = r.inner /\ q.refined = r.refined /\ q.chain = r.chain
  BY <1>1 DEF Keeps, Fields
<1>4. Langevin(q, q.velocity) = Moving(r) BY <1>1, <1>3 DEF Langevin, Moving
<1>5. s = [q EXCEPT !.inner = @ + 1, !.refined = @ + 1, !.chain = Moving(r),
                    !.input.video = IF r.inner + 1 = request.inner THEN Moving(r) ELSE @]
  BY <1>2, <1>3, <1>4 DEF Refined
<1>6. /\ DOMAIN s = Fields /\ Keeps(q, s, Fields \ {"inner", "refined", "chain", "input"})
      /\ s.inner = r.inner + 1 /\ s.refined = r.refined + 1 /\ s.chain = Moving(r)
      /\ s.input = [q.input EXCEPT !.video = IF r.inner + 1 = request.inner THEN Moving(r) ELSE @]
  BY <1>1, <1>3, <1>5 DEF Keeps, Fields, IsRun
<1>7. s.input = IF r.inner + 1 = request.inner THEN [Candidates(r) EXCEPT !.video = Moving(r)] ELSE Candidates(r)
  BY <1>1, <1>6 DEF Candidates
<1>8. IsRun(s) BY <1>1, <1>6 DEF IsRun, Keeps, Fields
<1>9. Keeps(r, s, Fields \ {"input", "sequence", "velocity", "computed", "log", "asked", "cancelled",
                           "inner", "refined", "chain"})
  BY <1>1, <1>6 DEF Keeps, Fields
<1>10. s.sequence = q.sequence /\ s.velocity = q.velocity /\ s.computed = q.computed /\ s.log = q.log
       /\ s.asked = q.asked /\ s.cancelled = q.cancelled
  BY <1>6 DEF Keeps, Fields
<1>11. QED BY <1>1, <1>6, <1>7, <1>8, <1>9, <1>10

LEMMA CudaRefineStops ==
  ASSUME NEW r, NEW s, NEW a, NEW b, IsRun(r), CudaRefine(r, a, s, b), ~Goes(r)
  PROVE  /\ IsRun(s) /\ Keeps(r, s, Fields \ {"input", "sequence", "velocity", "computed", "log", "asked", "cancelled",
                                             "refined", "rows", "decisions"})
         /\ s.computed = r.computed + 1 /\ s.log = Append(r.log, <<"progress", r.step>>)
         /\ s.asked = r.asked + 1 /\ s.cancelled = TRUE /\ s.refined = r.refined + 1
         /\ s.rows = [r.rows EXCEPT !.video = r.chain]
         /\ s.decisions = SubSeq(r.decisions, 1, Len(r.decisions) - 1) /\ s.sequence = SequenceOf(r)
<1> DEFINE q == Asked(r)
<1>1. /\ IsRun(q)
      /\ Keeps(r, q, Fields \ {"input", "sequence", "velocity", "computed", "log", "asked", "cancelled"})
      /\ q.sequence = SequenceOf(r)
      /\ q.computed = r.computed + 1 /\ q.log = Append(r.log, <<"progress", r.step>>)
      /\ q.asked = r.asked + 1 /\ q.cancelled = ~Goes(r)
  BY CudaAsking
<1>2. s = [q EXCEPT !.refined = @ + 1, !.rows.video = r.chain, !.decisions = SubSeq(@, 1, Len(@) - 1)]
  BY DEF CudaRefine
<1> HIDE DEF q
<1>3. q.refined = r.refined /\ q.rows = r.rows /\ q.decisions = r.decisions
  BY <1>1 DEF Keeps, Fields
<1>4. /\ DOMAIN s = Fields /\ Keeps(q, s, Fields \ {"refined", "rows", "decisions"}) /\ s.refined = q.refined + 1
      /\ s.rows = [q.rows EXCEPT !.video = r.chain] /\ s.decisions = SubSeq(q.decisions, 1, Len(q.decisions) - 1)
  BY <1>1, <1>2 DEF Keeps, Fields, IsRun
<1>5. IsRun(s) BY <1>1, <1>3, <1>4 DEF IsRun, Keeps, Fields
<1>6. Keeps(r, s, Fields \ {"input", "sequence", "velocity", "computed", "log", "asked", "cancelled", "refined", "rows", "decisions"})
  BY <1>1, <1>4 DEF Keeps, Fields
<1>7. s.sequence = q.sequence /\ s.computed = q.computed /\ s.log = q.log /\ s.asked = q.asked /\ s.cancelled = q.cancelled
  BY <1>4 DEF Keeps, Fields
<1>8. QED BY <1>1, <1>3, <1>4, <1>5, <1>6, <1>7

\* MotionCache::update, and what a step that is not evaluated takes.
Learned == Fields \ {"updates", "residual", "seen"}
Residuals(latents, velocity) == [m \in Modalities |-> Residual(m, latents, velocity)]

LEMMA Updating ==
  ASSUME NEW r, NEW s, IsRun(r), NEW l, NEW v, s = MotionUpdate(r, l, v)
  PROVE  /\ IsRun(s) /\ Keeps(r, s, Learned)
         /\ s.updates = IF Motion THEN r.updates + 1 ELSE r.updates
         /\ s.residual = IF Motion THEN Residuals(l, v) ELSE r.residual
         /\ s.seen = IF Motion THEN Append(Append(r.seen, l), v) ELSE r.seen
<1>1. CASE ~Motion BY <1>1 DEF MotionUpdate, Keeps
<1>2. CASE Motion
  <2>1. s = [r EXCEPT !.updates = @ + 1, !.residual = Residuals(l, v), !.seen = Append(Append(@, l), v)]
    BY <1>2 DEF MotionUpdate, Residuals
  <2>2. DOMAIN s = Fields /\ Keeps(r, s, Learned) BY <2>1 DEF IsRun, Learned, Keeps, Fields
  <2>3. s.updates = r.updates + 1 /\ s.residual = Residuals(l, v) /\ s.seen = Append(Append(r.seen, l), v)
    BY <2>1 DEF IsRun, Fields
  <2>4. IsRun(s) BY <2>2 DEF IsRun, Learned, Keeps, Fields
  <2>5. QED BY <1>2, <2>2, <2>3, <2>4
<1>3. QED BY <1>1, <1>2

\* A step's prediction: the transformer's answer, MotionCache's, or the last one.
LEMMA CudaEvaluates ==
  ASSUME NEW r, NEW s, NEW a, NEW b, IsRun(r), CudaEvaluate(r, a, s, b), r.compute
  PROVE  /\ IsRun(s)
         /\ Keeps(r, s, Fields \ {"sequence", "velocity", "computed", "updates", "residual", "seen", "used"})
         /\ s.sequence = SequenceOf(r) /\ s.velocity = Answer(r.step, SequenceOf(r), r.input) /\ s.used = s.velocity
         /\ s.computed = r.computed + 1
         /\ s.updates = IF Motion THEN r.updates + 1 ELSE r.updates
         /\ s.residual = IF Motion THEN Residuals(r.input, s.velocity) ELSE r.residual
         /\ s.seen = IF Motion THEN Append(Append(r.seen, r.input), s.velocity) ELSE r.seen
<1> DEFINE e == Evaluated(r)
           q == MotionUpdate(e, r.input, e.velocity)
<1>1. s = [q EXCEPT !.used = q.velocity] BY DEF CudaEvaluate
<1>2. /\ IsRun(e) /\ Keeps(r, e, Fields \ {"sequence", "velocity", "computed"})
      /\ e.sequence = SequenceOf(r) /\ e.velocity = Answer(r.step, SequenceOf(r), r.input)
      /\ e.computed = r.computed + 1
  BY Evaluating
<1>3. q = MotionUpdate(e, r.input, e.velocity) OBVIOUS
<1> HIDE DEF q, e
<1>4. /\ IsRun(q) /\ Keeps(e, q, Learned)
      /\ q.updates = IF Motion THEN e.updates + 1 ELSE e.updates
      /\ q.residual = IF Motion THEN Residuals(r.input, e.velocity) ELSE e.residual
      /\ q.seen = IF Motion THEN Append(Append(e.seen, r.input), e.velocity) ELSE e.seen
  BY <1>2, <1>3, Updating
<1>5. /\ IsRun(s) /\ Keeps(q, s, Fields \ {"used"}) /\ s.used = q.velocity
  BY <1>1, <1>4 DEF IsRun, Keeps, Fields
<1>6. /\ e.updates = r.updates /\ e.residual = r.residual /\ e.seen = r.seen
      /\ q.velocity = e.velocity /\ q.sequence = e.sequence /\ q.computed = e.computed
      /\ s.velocity = q.velocity /\ s.sequence = q.sequence /\ s.computed = q.computed
      /\ s.updates = q.updates /\ s.residual = q.residual /\ s.seen = q.seen
  BY <1>2, <1>4, <1>5 DEF Keeps, Fields, Learned
<1>7. Keeps(r, s, Fields \ {"sequence", "velocity", "computed", "updates", "residual", "seen", "used"})
  BY <1>2, <1>4, <1>5 DEF Keeps, Fields, Learned
<1>8. QED BY <1>2, <1>4, <1>5, <1>6, <1>7

LEMMA CudaSkips ==
  ASSUME NEW r, NEW s, NEW a, NEW b, IsRun(r), CudaEvaluate(r, a, s, b), ~r.compute
  PROVE  /\ IsRun(s) /\ Keeps(r, s, Fields \ {"velocity", "skipped", "used"})
         /\ s.velocity = IF Motion THEN Reused(r, r.input) ELSE r.velocity
         /\ s.used = s.velocity /\ s.skipped = r.skipped + 1
<1> DEFINE v == IF Motion THEN Reused(r, r.input) ELSE r.velocity
           q == [r EXCEPT !.velocity = v, !.skipped = @ + 1]
<1>1. s = [q EXCEPT !.used = q.velocity] BY DEF CudaEvaluate
<1>2. DOMAIN v = Modalities BY DEF Reused, IsRun
<1> HIDE DEF v
<1>3. DOMAIN q = Fields /\ Keeps(r, q, Fields \ {"velocity", "skipped"}) /\ q.velocity = v /\ q.skipped = r.skipped + 1
  BY DEF IsRun, Keeps, Fields
<1> HIDE DEF q
<1>4. DOMAIN s = Fields /\ Keeps(q, s, Fields \ {"used"}) /\ s.used = v
  BY <1>1, <1>3 DEF Keeps, Fields
<1>5. s.velocity = v /\ s.skipped = r.skipped + 1 /\ Keeps(r, s, Fields \ {"velocity", "skipped", "used"})
  BY <1>3, <1>4 DEF Keeps, Fields
<1>6. IsRun(s) BY <1>2, <1>4, <1>5 DEF IsRun, Keeps, Fields
<1>7. QED BY <1>4, <1>5, <1>6 DEF v

LEMMA CudaEffects ==
  ASSUME NEW r, NEW s, NEW a, NEW b, NEW m, NEW place, NEW next, IsRun(r), CudaEffect(m, place, next, r, a, s, b),
         m \in Advancing(r)
  PROVE  /\ IsRun(s) /\ Keeps(r, s, Fields \ {"log", "asked", "cancelled", "used"})
         /\ s.log = Append(r.log, EffectCall(r, m, r.input[m], r.velocity[m]))
         /\ s.asked = r.asked + 1 /\ s.cancelled = ~Goes(r)
         /\ s.used = [r.used EXCEPT ![m] = IF Goes(r) THEN Effect(r.input[m], r.velocity[m]) ELSE @]
<1> DEFINE event == EffectCall(r, m, r.input[m], r.velocity[m])
           q == Ask(r, event)
           effect == Effect(r.input[m], r.velocity[m])
<1>1. s = [q EXCEPT !.used[m] = IF Goes(r) THEN effect ELSE @] BY DEF CudaEffect
<1>2. q = Ask(r, event) OBVIOUS
<1> HIDE DEF q, event, effect
<1>3. /\ IsRun(q) /\ Keeps(r, q, Fields \ {"log", "asked", "cancelled"})
      /\ q.log = Append(r.log, event) /\ q.asked = r.asked + 1 /\ q.cancelled = ~Goes(r)
  BY <1>2, Asking
<1>4. /\ DOMAIN s = Fields /\ Keeps(q, s, Fields \ {"used"})
      /\ s.used = [q.used EXCEPT ![m] = IF Goes(r) THEN effect ELSE @]
  BY <1>1, <1>3 DEF IsRun, Keeps, Fields
<1>5. q.used = r.used /\ s.log = q.log /\ s.asked = q.asked /\ s.cancelled = q.cancelled
  BY <1>3, <1>4 DEF Keeps, Fields
<1>6. Keeps(r, s, Fields \ {"log", "asked", "cancelled", "used"}) BY <1>3, <1>4 DEF Keeps, Fields
<1>7. IsRun(s) BY <1>4, <1>6 DEF IsRun, Keeps, Fields
<1>8. QED BY <1>3, <1>4, <1>5, <1>6, <1>7 DEF event, effect

LEMMA Calling ==
  ASSUME NEW r, NEW s, NEW e, IsRun(r), s = Call(r, e)
  PROVE  IsRun(s) /\ Keeps(r, s, Fields \ {"log"}) /\ s.log = Append(r.log, e)
BY DEF IsRun, Call, Fields, Keeps

LEMMA CudaPreviews ==
  ASSUME NEW r, NEW s, NEW a, NEW b, IsRun(r), CudaPreview(r, a, s, b)
  PROVE  /\ IsRun(s) /\ Keeps(r, s, Fields \ {"log"})
         /\ s.log = IF request.preview /\ "video" \in Advancing(r)
                    THEN Append(r.log, PreviewCall(r, r.input.video, r.used.video)) ELSE r.log
<1>1. CASE request.preview /\ "video" \in Advancing(r)
  <2> DEFINE event == PreviewCall(r, r.input.video, r.used.video)
  <2>1. s = Call(r, event) BY <1>1 DEF CudaPreview
  <2> HIDE DEF event
  <2>2. IsRun(s) /\ Keeps(r, s, Fields \ {"log"}) /\ s.log = Append(r.log, event) BY <2>1, Calling
  <2>3. QED BY <1>1, <2>2 DEF event
<1>2. CASE ~(request.preview /\ "video" \in Advancing(r)) BY <1>2 DEF CudaPreview, Keeps
<1>3. QED BY <1>1, <1>2

CudaRows(r) == [m \in Modalities |-> IF m \in Advancing(r) THEN CudaUpdated(r, m) ELSE r.rows[m]]

LEMMA CudaUpdates ==
  ASSUME NEW r, NEW s, NEW a, NEW b, IsRun(r), CudaUpdate(r, a, s, b)
  PROVE  /\ IsRun(s) /\ Keeps(r, s, Fields \ {"rows", "input", "noise", "previous"})
         /\ s.rows = CudaRows(r) /\ s.input = CudaRows(r)
         /\ s.previous = [m \in Modalities |-> IF m \in Advancing(r)
                            THEN Remembered(r, m, r.input[m], r.used[m]) ELSE r.previous[m]]
<1>1. PICK noise : s = [r EXCEPT !.rows = CudaRows(r), !.input = CudaRows(r), !.noise = noise,
               !.previous = [m \in Modalities |-> IF m \in Advancing(r)
                               THEN Remembered(r, m, r.input[m], r.used[m]) ELSE @[m]]]
  BY Zenon DEF CudaUpdate, CudaRows
<1>2. DOMAIN CudaRows(r) = Modalities BY DEF CudaRows
<1> DEFINE previous == [m \in Modalities |-> IF m \in Advancing(r)
                            THEN Remembered(r, m, r.input[m], r.used[m]) ELSE r.previous[m]]
<1>3. s = [r EXCEPT !.rows = CudaRows(r), !.input = CudaRows(r), !.noise = noise, !.previous = previous]
  BY <1>1
<1> HIDE DEF previous
<1>4. /\ DOMAIN s = Fields /\ Keeps(r, s, Fields \ {"rows", "input", "noise", "previous"})
      /\ s.rows = CudaRows(r) /\ s.input = CudaRows(r) /\ s.previous = previous
  BY <1>3 DEF IsRun, Keeps, Fields
<1>5. IsRun(s) BY <1>2, <1>4 DEF IsRun, Keeps, Fields
<1>6. QED BY <1>4, <1>5 DEF previous

LEMMA Reports ==
  ASSUME NEW r, NEW s, NEW a, NEW b, IsRun(r), Report(r, a, s, b)
  PROVE  /\ IsRun(s) /\ Keeps(r, s, Fields \ {"log", "asked", "cancelled", "step"}) /\ s.step = r.step + 1
         /\ s.log = Append(Append(r.log, <<"boundary", r.step, r.rows>>), <<"progress", r.step>>)
         /\ s.asked = r.asked + 1 /\ s.cancelled = ~Goes(r)
<1> DEFINE boundary == <<"boundary", r.step, r.rows>>
           progress == <<"progress", r.step>>
           c == Call(r, boundary)
           q == Ask(c, progress)
<1>1. s = [q EXCEPT !.step = @ + 1] /\ q = Ask(c, progress) /\ c = Call(r, boundary) BY DEF Report
<1> HIDE DEF c, q, boundary, progress
<1>2. IsRun(c) /\ Keeps(r, c, Fields \ {"log"}) /\ c.log = Append(r.log, boundary) BY <1>1, Calling
<1>3. /\ IsRun(q) /\ Keeps(c, q, Fields \ {"log", "asked", "cancelled"})
      /\ q.log = Append(c.log, progress) /\ q.asked = c.asked + 1 /\ q.cancelled = ~Goes(c)
  BY <1>1, <1>2, Asking
<1>4. c.asked = r.asked /\ (Goes(c) <=> Goes(r)) /\ q.step = r.step
  BY <1>2, <1>3 DEF Keeps, Fields, Goes
<1>5. DOMAIN s = Fields /\ Keeps(q, s, Fields \ {"step"}) /\ s.step = q.step + 1
  BY <1>1, <1>3 DEF IsRun, Keeps, Fields
<1>6. Keeps(r, s, Fields \ {"log", "asked", "cancelled", "step"})
  BY <1>2, <1>3, <1>5 DEF Keeps, Fields
<1>7. s.log = q.log /\ s.asked = q.asked /\ s.cancelled = q.cancelled BY <1>5 DEF Keeps, Fields
<1>8. IsRun(s) BY <1>5, <1>6 DEF IsRun, Keeps, Fields
<1>9. QED BY <1>2, <1>3, <1>4, <1>5, <1>6, <1>7, <1>8 DEF boundary, progress

\* ExactH3Denoiser::run.
LEMMA VulkanDecides ==
  ASSUME NEW r, NEW s, NEW a, NEW b, IsRun(r), VulkanDecide(r, a, s, b), r.step # Steps
  PROVE  LET compute == Motion => ShouldCompute(r)
         IN /\ IsRun(s)
            /\ Keeps(r, s, Fields \ {"compute", "consecutive", "seen", "sequence", "inner", "chain", "velocity"})
            /\ s.compute = compute /\ s.consecutive = IF compute THEN 0 ELSE r.consecutive + 1
            /\ s.seen = IF Motion THEN Append(r.seen, r.rows) ELSE r.seen
            /\ s.sequence = SequenceOf(r) /\ s.inner = 0 /\ s.chain = r.rows.video
            /\ s.velocity = IF compute THEN r.velocity ELSE Reused(r, r.rows)
<1> DEFINE compute == Motion => ShouldCompute(r)
           q == Decided(r, compute, r.rows)
           v == IF compute THEN r.velocity ELSE Reused(r, r.rows)
<1>1. s = [q EXCEPT !.sequence = IF Tack(r) THEN "context" ELSE @, !.inner = 0, !.chain = r.rows.video,
                    !.velocity = IF compute THEN @ ELSE Reused(r, r.rows)]
  BY DEF VulkanDecide
<1>2. q = Decided(r, compute, r.rows) OBVIOUS
<1>3. DOMAIN v = Modalities BY DEF IsRun, Reused
<1> HIDE DEF compute, q
<1>4. /\ IsRun(q) /\ Keeps(r, q, Fields \ {"compute", "consecutive", "seen"})
      /\ q.compute = compute /\ q.consecutive = IF compute THEN 0 ELSE r.consecutive + 1
      /\ q.seen = IF Motion THEN Append(r.seen, r.rows) ELSE r.seen
  BY <1>2 DEF Decided, IsRun, Keeps, Fields
<1>5. q.sequence = r.sequence /\ q.velocity = r.velocity BY <1>4 DEF Keeps, Fields
<1>6. s = [q EXCEPT !.sequence = SequenceOf(r), !.inner = 0, !.chain = r.rows.video, !.velocity = v]
  BY <1>1, <1>4, <1>5 DEF SequenceOf, IsRun, Fields
<1> HIDE DEF v
<1>7. /\ DOMAIN s = Fields /\ Keeps(q, s, Fields \ {"sequence", "inner", "chain", "velocity"})
      /\ s.sequence = SequenceOf(r) /\ s.inner = 0 /\ s.chain = r.rows.video /\ s.velocity = v
  BY <1>4, <1>6 DEF IsRun, Keeps, Fields
<1>8. Keeps(r, s, Fields \ {"compute", "consecutive", "seen", "sequence", "inner", "chain", "velocity"})
  BY <1>4, <1>7 DEF Keeps, Fields
<1>9. s.compute = q.compute /\ s.consecutive = q.consecutive /\ s.seen = q.seen
  BY <1>7 DEF Keeps, Fields
<1>10. IsRun(s) BY <1>3, <1>7, <1>8 DEF IsRun, Keeps, Fields
<1>11. QED BY <1>4, <1>7, <1>8, <1>9, <1>10 DEF v, compute

LEMMA Uploading ==
  ASSUME NEW r, NEW s, IsRun(r), s = Uploaded(r)
  PROVE  /\ IsRun(s) /\ Keeps(r, s, Fields \ {"rows", "input"})
         /\ s.rows = [r.rows EXCEPT !.video = r.chain] /\ s.input = [r.input EXCEPT !.video = r.chain]
BY DEF IsRun, Uploaded, Keeps, Fields

LEMMA EvaluatingOnVulkan ==
  ASSUME NEW r, NEW s, IsRun(r), s = Evaluates(r)
  PROVE  /\ IsRun(s) /\ Keeps(r, s, Fields \ {"velocity", "computed"})
         /\ s.velocity = Answer(r.step, r.sequence, r.input) /\ s.computed = r.computed + 1
<1>1. s = [r EXCEPT !.velocity = Answer(r.step, r.sequence, r.input), !.computed = @ + 1]
  BY AnswerIsForward DEF Evaluates
<1>2. DOMAIN s = Fields /\ Keeps(r, s, Fields \ {"velocity", "computed"})
      /\ s.velocity = Answer(r.step, r.sequence, r.input) /\ s.computed = r.computed + 1
  BY <1>1 DEF IsRun, Keeps, Fields
<1>3. IsRun(s) BY <1>2, AnswerIsOfBoth DEF IsRun, Keeps, Fields
<1>4. QED BY <1>2, <1>3

VulkanPush(r) == Answer(r.step, r.sequence, [r.input EXCEPT !.video = r.chain])
VulkanMoving(r) == <<"langevin", r.step, r.inner, r.chain, VulkanPush(r).video>>

LEMMA VulkanAsking ==
  ASSUME NEW r, NEW s, IsRun(r), s = Candidate(r)
  PROVE  /\ IsRun(s) /\ Keeps(r, s, Fields \ {"rows", "input", "velocity", "computed", "log", "asked", "cancelled"})
         /\ s.rows = [r.rows EXCEPT !.video = r.chain] /\ s.input = [r.input EXCEPT !.video = r.chain]
         /\ s.velocity = VulkanPush(r)
         /\ s.computed = r.computed + 1 /\ s.log = Append(r.log, <<"progress", r.step>>)
         /\ s.asked = r.asked + 1 /\ s.cancelled = ~Goes(r)
<1> DEFINE u == Uploaded(r)
           e == Evaluates(u)
           event == <<"progress", r.step>>
<1>1. s = Ask(e, event) /\ e = Evaluates(u) /\ u = Uploaded(r) BY DEF Candidate
<1> HIDE DEF u, e, event
<1>2. /\ IsRun(u) /\ Keeps(r, u, Fields \ {"rows", "input"})
      /\ u.rows = [r.rows EXCEPT !.video = r.chain] /\ u.input = [r.input EXCEPT !.video = r.chain]
  BY <1>1, Uploading
<1>3. /\ IsRun(e) /\ Keeps(u, e, Fields \ {"velocity", "computed"})
      /\ e.velocity = Answer(u.step, u.sequence, u.input) /\ e.computed = u.computed + 1
  BY <1>1, <1>2, EvaluatingOnVulkan
<1>4. /\ IsRun(s) /\ Keeps(e, s, Fields \ {"log", "asked", "cancelled"})
      /\ s.log = Append(e.log, event) /\ s.asked = e.asked + 1 /\ s.cancelled = ~Goes(e)
  <2>1. IsRun(e) /\ s = Ask(e, event) BY <1>1, <1>3
  <2>2. QED BY <2>1, Asking
<1>5. /\ u.step = r.step /\ u.sequence = r.sequence /\ u.computed = r.computed
      /\ e.log = r.log /\ e.asked = r.asked /\ (Goes(e) <=> Goes(r))
  BY <1>2, <1>3 DEF Keeps, Fields, Goes
<1>6. /\ s.rows = u.rows /\ s.input = u.input /\ s.velocity = e.velocity /\ s.computed = e.computed
  BY <1>3, <1>4 DEF Keeps, Fields
<1>7. Keeps(r, s, Fields \ {"rows", "input", "velocity", "computed", "log", "asked", "cancelled"})
  BY <1>2, <1>3, <1>4 DEF Keeps, Fields
<1>8. e.velocity = VulkanPush(r) BY <1>2, <1>3, <1>5 DEF VulkanPush
<1>9. QED BY <1>2, <1>3, <1>4, <1>5, <1>6, <1>7, <1>8 DEF event

LEMMA VulkanRefines ==
  ASSUME NEW r, NEW s, NEW a, NEW b, IsRun(r), VulkanRefine(r, a, s, b), Goes(r)
  PROVE  /\ IsRun(s) /\ Keeps(r, s, Fields \ {"rows", "input", "velocity", "computed", "log", "asked", "cancelled",
                                             "inner", "refined", "chain"})
         /\ s.rows = IF r.inner + 1 = request.inner
                     THEN [[r.rows EXCEPT !.video = r.chain] EXCEPT !.video = VulkanMoving(r)]
                     ELSE [r.rows EXCEPT !.video = r.chain]
         /\ s.velocity = VulkanPush(r)
         /\ s.computed = r.computed + 1 /\ s.log = Append(r.log, <<"progress", r.step>>)
         /\ s.asked = r.asked + 1 /\ s.cancelled = FALSE
         /\ s.inner = r.inner + 1 /\ s.refined = r.refined + 1 /\ s.chain = VulkanMoving(r)
<1> DEFINE q == Candidate(r)
           next == Langevin(r, q.velocity)
<1>1. q = Candidate(r) OBVIOUS
<1>2. s = [q EXCEPT !.inner = @ + 1, !.refined = @ + 1, !.chain = next,
                    !.rows.video = IF r.inner + 1 = request.inner THEN next ELSE @]
  BY DEF VulkanRefine
<1> HIDE DEF q
<1>3. /\ IsRun(q) /\ Keeps(r, q, Fields \ {"rows", "input", "velocity", "computed", "log", "asked", "cancelled"})
      /\ q.rows = [r.rows EXCEPT !.video = r.chain] /\ q.velocity = VulkanPush(r)
      /\ q.computed = r.computed + 1 /\ q.log = Append(r.log, <<"progress", r.step>>)
      /\ q.asked = r.asked + 1 /\ q.cancelled = ~Goes(r)
  BY <1>1, VulkanAsking
<1>4. next = VulkanMoving(r) /\ q.inner = r.inner /\ q.refined = r.refined
  BY <1>3 DEF Langevin, VulkanMoving, Keeps, Fields
<1> HIDE DEF next
<1>5. /\ DOMAIN s = Fields /\ Keeps(q, s, Fields \ {"inner", "refined", "chain", "rows"})
      /\ s.inner = q.inner + 1 /\ s.refined = q.refined + 1 /\ s.chain = next
      /\ s.rows = [q.rows EXCEPT !.video = IF r.inner + 1 = request.inner THEN next ELSE @]
  BY <1>2, <1>3 DEF IsRun, Keeps, Fields
<1>6. s.rows = IF r.inner + 1 = request.inner
               THEN [[r.rows EXCEPT !.video = r.chain] EXCEPT !.video = VulkanMoving(r)]
               ELSE [r.rows EXCEPT !.video = r.chain]
  BY <1>3, <1>4, <1>5
<1>7. s.velocity = q.velocity /\ s.computed = q.computed /\ s.log = q.log /\ s.asked = q.asked /\ s.cancelled = q.cancelled
  BY <1>5 DEF Keeps, Fields
<1>8. Keeps(r, s, Fields \ {"rows", "input", "velocity", "computed", "log", "asked", "cancelled", "inner", "refined", "chain"})
  BY <1>3, <1>5 DEF Keeps, Fields
<1>9. IsRun(s) BY <1>3, <1>5 DEF IsRun, Keeps, Fields
<1>10. QED BY <1>3, <1>4, <1>5, <1>6, <1>7, <1>8, <1>9

LEMMA VulkanRefineStops ==
  ASSUME NEW r, NEW s, NEW a, NEW b, IsRun(r), VulkanRefine(r, a, s, b), ~Goes(r)
  PROVE  /\ IsRun(s) /\ Keeps(r, s, Fields \ {"rows", "input", "velocity", "computed", "log", "asked", "cancelled", "refined"})
         /\ s.rows = [r.rows EXCEPT !.video = r.chain]
         /\ s.computed = r.computed + 1 /\ s.log = Append(r.log, <<"progress", r.step>>)
         /\ s.asked = r.asked + 1 /\ s.cancelled = TRUE
<1> DEFINE q == Candidate(r)
<1>1. q = Candidate(r) /\ s = [q EXCEPT !.refined = @ + 1] BY DEF VulkanRefine
<1> HIDE DEF q
<1>2. /\ IsRun(q) /\ Keeps(r, q, Fields \ {"rows", "input", "velocity", "computed", "log", "asked", "cancelled"})
      /\ q.rows = [r.rows EXCEPT !.video = r.chain]
      /\ q.computed = r.computed + 1 /\ q.log = Append(r.log, <<"progress", r.step>>)
      /\ q.asked = r.asked + 1 /\ q.cancelled = ~Goes(r)
  BY <1>1, VulkanAsking
<1>3. IsRun(s) /\ Keeps(q, s, Fields \ {"refined"}) BY <1>1, <1>2 DEF IsRun, Keeps, Fields
<1>4. s.rows = q.rows /\ s.computed = q.computed /\ s.log = q.log /\ s.asked = q.asked /\ s.cancelled = q.cancelled
  BY <1>3 DEF Keeps, Fields
<1>5. Keeps(r, s, Fields \ {"rows", "input", "velocity", "computed", "log", "asked", "cancelled", "refined"})
  BY <1>2, <1>3 DEF Keeps, Fields
<1>6. QED BY <1>2, <1>3, <1>4, <1>5

LEMMA VulkanRecords ==
  ASSUME NEW r, NEW s, NEW a, NEW b, IsRun(r), VulkanRecord(r, a, s, b), r.compute
  PROVE  /\ IsRun(s)
         /\ Keeps(r, s, Fields \ {"input", "velocity", "computed", "updates", "residual", "seen", "recorded"})
         /\ s.velocity = Answer(r.step, r.sequence, r.rows) /\ s.computed = r.computed + 1
         /\ s.updates = IF Motion THEN r.updates + 1 ELSE r.updates
         /\ s.residual = IF Motion THEN Residuals(r.rows, s.velocity) ELSE r.residual
         /\ s.seen = IF Motion THEN Append(Append(r.seen, r.rows), s.velocity) ELSE r.seen
         /\ s.recorded = IF Motion THEN 0 ELSE Copies + 1
<1> DEFINE c == [r EXCEPT !.input = r.rows]
           e == Evaluates(c)
           q == MotionUpdate(e, r.rows, e.velocity)
           n == IF Motion THEN 0 ELSE Copies + 1
<1>1. s = [q EXCEPT !.recorded = n] /\ q = MotionUpdate(e, r.rows, e.velocity) /\ e = Evaluates(c)
  BY DEF VulkanRecord
<1>2. IsRun(c) /\ Keeps(r, c, Fields \ {"input"}) /\ c.input = r.rows BY DEF IsRun, Keeps, Fields
<1> HIDE DEF c, e, q, n
<1>3. /\ IsRun(e) /\ Keeps(c, e, Fields \ {"velocity", "computed"})
      /\ e.velocity = Answer(c.step, c.sequence, c.input) /\ e.computed = c.computed + 1
  BY <1>1, <1>2, EvaluatingOnVulkan
<1>4. c.step = r.step /\ c.sequence = r.sequence /\ c.computed = r.computed
      /\ e.updates = r.updates /\ e.residual = r.residual /\ e.seen = r.seen
  BY <1>2, <1>3 DEF Keeps, Fields
<1>5. /\ IsRun(q) /\ Keeps(e, q, Learned)
      /\ q.updates = IF Motion THEN e.updates + 1 ELSE e.updates
      /\ q.residual = IF Motion THEN Residuals(r.rows, e.velocity) ELSE e.residual
      /\ q.seen = IF Motion THEN Append(Append(e.seen, r.rows), e.velocity) ELSE e.seen
  BY <1>1, <1>3, Updating
<1>6. IsRun(s) /\ Keeps(q, s, Fields \ {"recorded"}) /\ s.recorded = n
  BY <1>1, <1>5 DEF IsRun, Keeps, Fields
<1>7. /\ s.velocity = e.velocity /\ s.computed = e.computed
      /\ s.updates = q.updates /\ s.residual = q.residual /\ s.seen = q.seen
  BY <1>5, <1>6 DEF Keeps, Fields, Learned
<1>8. Keeps(r, s, Fields \ {"input", "velocity", "computed", "updates", "residual", "seen", "recorded"})
  BY <1>2, <1>3, <1>5, <1>6 DEF Keeps, Fields, Learned
<1>9. QED BY <1>2, <1>3, <1>4, <1>5, <1>6, <1>7, <1>8 DEF n

LEMMA VulkanSkips ==
  ASSUME NEW r, NEW s, NEW a, NEW b, IsRun(r), VulkanRecord(r, a, s, b), ~r.compute
  PROVE  /\ IsRun(s) /\ Keeps(r, s, Fields \ {"input", "skipped", "recorded"}) /\ s.skipped = r.skipped + 1
         /\ s.recorded = Copies
<1>1. s = [r EXCEPT !.input = r.rows, !.recorded = Copies, !.skipped = @ + 1]
  BY DEF VulkanRecord, IsRun, Fields
<1>2. QED BY <1>1 DEF IsRun, Keeps, Fields

LEMMA VulkanRefuses ==
  ASSUME NEW r, NEW s, NEW a, NEW b, IsRun(r), VulkanRefused(r, a, s, b)
  PROVE  IsRun(s) /\ Keeps(r, s, Fields \ {"failed"}) /\ s.failed = TRUE
BY DEF VulkanRefused, IsRun, Keeps, Fields

LEMMA VulkanSyncs ==
  ASSUME NEW r, NEW s, NEW a, NEW b, IsRun(r), VulkanSync(r, a, s, b)
  PROVE  IsRun(s) /\ Keeps(r, s, Fields \ {"recorded"}) /\ s.recorded = 0
BY DEF VulkanSync, IsRun, Keeps, Fields

LEMMA VulkanEffects ==
  ASSUME NEW r, NEW s, NEW a, NEW b, NEW m, NEW place, NEW next, IsRun(r), VulkanEffect(m, place, next, r, a, s, b),
         m \in Advancing(r)
  PROVE  /\ IsRun(s) /\ Keeps(r, s, Fields \ {"log", "asked", "cancelled", "velocity"})
         /\ s.log = Append(r.log, EffectCall(r, m, r.rows[m], r.velocity[m]))
         /\ s.asked = r.asked + 1 /\ s.cancelled = ~Goes(r)
         /\ s.velocity = [r.velocity EXCEPT ![m] = IF Goes(r) THEN Effect(r.rows[m], r.velocity[m]) ELSE r.velocity[m]]
<1> DEFINE event == EffectCall(r, m, r.rows[m], r.velocity[m])
           q == Ask(r, event)
<1>1. s = [q EXCEPT !.velocity[m] = IF Goes(r) THEN Effect(r.rows[m], @) ELSE @] BY DEF VulkanEffect
<1>2. q = Ask(r, event) OBVIOUS
<1> HIDE DEF q, event
<1>3. /\ IsRun(q) /\ Keeps(r, q, Fields \ {"log", "asked", "cancelled"})
      /\ q.log = Append(r.log, event) /\ q.asked = r.asked + 1 /\ q.cancelled = ~Goes(r)
  BY <1>2, Asking
<1>4. q.velocity = r.velocity BY <1>3 DEF Keeps, Fields
<1> DEFINE v == [r.velocity EXCEPT ![m] = IF Goes(r) THEN Effect(r.rows[m], r.velocity[m]) ELSE r.velocity[m]]
<1>5. s = [q EXCEPT !.velocity = v] BY <1>1, <1>4
<1>6. DOMAIN v = Modalities BY DEF IsRun
<1> HIDE DEF v
<1>7. DOMAIN s = Fields /\ Keeps(q, s, Fields \ {"velocity"}) /\ s.velocity = v
  BY <1>3, <1>5 DEF IsRun, Keeps, Fields
<1>8. s.log = q.log /\ s.asked = q.asked /\ s.cancelled = q.cancelled BY <1>7 DEF Keeps, Fields
<1>9. Keeps(r, s, Fields \ {"log", "asked", "cancelled", "velocity"})
  BY <1>3, <1>7 DEF Keeps, Fields
<1>10. IsRun(s) BY <1>6, <1>7, <1>9 DEF IsRun, Keeps, Fields
<1>11. QED BY <1>3, <1>7, <1>8, <1>9, <1>10 DEF v, event

LEMMA VulkanPreviews ==
  ASSUME NEW r, NEW s, NEW a, NEW b, IsRun(r), VulkanPreview(r, a, s, b)
  PROVE  /\ IsRun(s) /\ Keeps(r, s, Fields \ {"log", "recorded"})
         /\ s.log = IF request.preview /\ "video" \in Advancing(r)
                    THEN Append(r.log, PreviewCall(r, r.rows.video, r.velocity.video)) ELSE r.log
         /\ s.recorded = IF request.preview /\ "video" \in Advancing(r) THEN 0 ELSE r.recorded
<1>1. Submits(r, a) <=> request.preview /\ "video" \in Advancing(r) BY DEF VulkanPreview, Submits
<1>2. CASE Submits(r, a)
  <2> DEFINE event == PreviewCall(r, r.rows.video, r.velocity.video)
             q == Call(r, event)
  <2>1. s = [q EXCEPT !.recorded = 0] /\ q = Call(r, event) BY <1>2 DEF VulkanPreview
  <2> HIDE DEF event, q
  <2>2. IsRun(q) /\ Keeps(r, q, Fields \ {"log"}) /\ q.log = Append(r.log, event) BY <2>1, Calling
  <2>3. IsRun(s) /\ Keeps(q, s, Fields \ {"recorded"}) /\ s.recorded = 0
    BY <2>1, <2>2 DEF IsRun, Keeps, Fields
  <2>4. Keeps(r, s, Fields \ {"log", "recorded"}) /\ s.log = q.log BY <2>2, <2>3 DEF Keeps, Fields
  <2>5. QED BY <1>1, <1>2, <2>2, <2>3, <2>4 DEF event
<1>3. CASE ~Submits(r, a) BY <1>1, <1>3 DEF VulkanPreview, Keeps
<1>4. QED BY <1>2, <1>3

VulkanRows(r) == [m \in Modalities |-> IF m \in Advancing(r) THEN VulkanUpdated(r, m, NoiseOf(r, m)) ELSE r.rows[m]]

LEMMA VulkanUpdates ==
  ASSUME NEW r, NEW s, NEW a, NEW b, IsRun(r), VulkanUpdate(r, a, s, b)
  PROVE  /\ IsRun(s) /\ Keeps(r, s, Fields \ {"rows", "noise", "previous", "recorded"})
         /\ s.rows = VulkanRows(r) /\ s.recorded = 0
         /\ s.previous = [m \in Modalities |-> IF m \in Advancing(r)
                            THEN Remembered(r, m, r.rows[m], r.velocity[m]) ELSE r.previous[m]]
<1> DEFINE previous == [m \in Modalities |-> IF m \in Advancing(r)
                            THEN Remembered(r, m, r.rows[m], r.velocity[m]) ELSE r.previous[m]]
<1>1. PICK noise : s = [r EXCEPT !.recorded = 0, !.noise = noise, !.rows = VulkanRows(r), !.previous = previous]
  BY Zenon DEF VulkanUpdate, VulkanRows
<1>2. DOMAIN VulkanRows(r) = Modalities BY DEF VulkanRows
<1> HIDE DEF previous
<1>3. /\ DOMAIN s = Fields /\ Keeps(r, s, Fields \ {"rows", "noise", "previous", "recorded"})
      /\ s.rows = VulkanRows(r) /\ s.recorded = 0 /\ s.previous = previous
  BY <1>1 DEF IsRun, Keeps, Fields
<1>4. IsRun(s) BY <1>2, <1>3 DEF IsRun, Keeps, Fields
<1>5. QED BY <1>3, <1>4 DEF previous

-----------------------------------------------------------------------------
(* dit::denoise.                                                           *)

CudaPlaces ==
  {"decide", "refine", "evaluate", "effect_video", "effect_audio", "preview", "update", "report", "end"}
Within == {"refine", "evaluate", "effect_video", "effect_audio", "preview", "update", "report"}
Planned == {"refine", "evaluate"}

Truths == BOOLEAN
CountOf(d, c) == Cardinality({k \in DOMAIN d : d[k] = c})
Evaluations(d) == CountOf(d, TRUE)
Reuses(d) == CountOf(d, FALSE)

\* The variables of the loop, and what of them it counts.
LoopTypes(r) ==
  /\ IsRun(r)
  /\ r.step \in Nat /\ r.computed \in Nat /\ r.skipped \in Nat /\ r.refined \in Nat /\ r.inner \in Nat
  /\ r.recorded = 0 /\ r.failed = FALSE /\ r.sequence \in {"plain", "context"}
  /\ r.decisions \in Seq(Truths)
Placed(r, a) ==
  /\ a \in CudaPlaces /\ r.step <= Steps /\ (a \in Within => r.step < Steps)
  /\ r.cancelled \in BOOLEAN /\ r.compute \in BOOLEAN /\ (a # "end" => r.cancelled = FALSE)
CudaTyped(r, a) == LoopTypes(r) /\ Placed(r, a)

\* A decision for every step begun, of which the last says to compute.
DecisionsCover(r, a) ==
  /\ a = "decide" => Len(r.decisions) = r.step
  /\ a \in Within => Len(r.decisions) = r.step + 1 /\ r.decisions[r.step + 1] = r.compute
  /\ a = "refine" => r.compute /\ r.inner < request.inner
  /\ Len(r.decisions) = Steps => r.decisions[Steps] = TRUE
  /\ a = "end" => r.cancelled \/ Len(r.decisions) = Steps

\* What was decided was done, but for the evaluation or the reuse that is planned.
Owed(r, a) == IF a \notin Planned THEN "nothing" ELSE IF r.compute = TRUE THEN "evaluation" ELSE "reuse"
Tally(r, a) ==
  /\ r.computed + (IF Owed(r, a) = "evaluation" THEN 1 ELSE 0) = r.refined + Evaluations(r.decisions)
  /\ r.skipped + (IF Owed(r, a) = "reuse" THEN 1 ELSE 0) = Reuses(r.decisions)

\* The transformer reads the latents, unless refine works on the video's.
LatentsRead(r, a) ==
  /\ a # "end" => r.rows["audio"] = r.input["audio"]
  /\ a \in {"decide", "report"} \/ (a # "end" /\ request.inner = 0) => r.rows = r.input

CudaRuns(r, a) == CudaTyped(r, a) /\ DecisionsCover(r, a) /\ Tally(r, a) /\ LatentsRead(r, a)

LEMMA RequestFacts ==
  ASSUME request \in Requests
  PROVE  /\ Samplable(request) /\ Steps \in Nat \ {0} /\ request.inner \in Nat
         /\ Schedule \in Seq([video : Nat, audio : Nat, advance : SUBSET Modalities])
         /\ request.steps.video = request.steps.audio => \A k \in 1..Steps : Schedule[k].advance = Modalities
<1>1. Samplable(request) BY RequestsAssumption
<1>2. request.steps \in [Modalities -> Nat \ {0}] /\ request.inner \in Nat BY <1>1 DEF Samplable
<1>3. JointSchedule(request.steps) \in Seq([video : Nat, audio : Nat, advance : SUBSET Modalities])
      /\ Len(JointSchedule(request.steps)) > 0
      /\ (request.steps.video = request.steps.audio =>
           \A k \in 1..Len(JointSchedule(request.steps)) : JointSchedule(request.steps)[k].advance = Modalities)
  BY <1>2, ScheduleIsTyped
<1>4. Schedule \in Seq([video : Nat, audio : Nat, advance : SUBSET Modalities]) /\ Steps > 0
  BY <1>3, Zenon DEF Schedule, Steps
<1>5. Len(Schedule) \in Nat
  <2> DEFINE S == [video : Nat, audio : Nat, advance : SUBSET Modalities]
  <2>1. Schedule \in Seq(S) BY <1>4
  <2> HIDE DEF S
  <2>2. QED BY <2>1
<1>6. Steps \in Nat BY <1>5 DEF Steps
<1>7. request.steps.video = request.steps.audio => \A k \in 1..Steps : Schedule[k].advance = Modalities
  BY <1>3, Zenon DEF Schedule, Steps
<1>8. QED BY <1>1, <1>2, <1>4, <1>6, <1>7

LEMMA CountAppend ==
  ASSUME NEW S, NEW d \in Seq(S), NEW c \in S, NEW x
  PROVE  /\ CountOf(d, x) \in Nat
         /\ c = x => CountOf(Append(d, c), x) = CountOf(d, x) + 1
         /\ c # x => CountOf(Append(d, c), x) = CountOf(d, x)
<1> DEFINE T == {k \in DOMAIN d : d[k] = x}
           U == {k \in DOMAIN Append(d, c) : Append(d, c)[k] = x}
<1>1. IsFiniteSet(1..Len(d)) BY FS_Interval
<1>2. IsFiniteSet(T) BY <1>1, FS_Subset
<1>3. U = IF c = x THEN T \cup {Len(d) + 1} ELSE T OBVIOUS
<1>4. Len(d) + 1 \notin T OBVIOUS
<1>5. Cardinality(T) \in Nat /\ Cardinality(T \cup {Len(d) + 1}) = Cardinality(T) + 1
  BY <1>2, <1>4, FS_CardinalityType, FS_AddElement
<1> HIDE DEF T, U
<1>6. (c = x => Cardinality(U) = Cardinality(T) + 1) /\ (c # x => Cardinality(U) = Cardinality(T))
  BY <1>3, <1>5
<1>7. QED BY <1>5, <1>6 DEF CountOf, T, U

\* Taking the last decision back undoes appending it.
LEMMA CountFront ==
  ASSUME NEW S, NEW d \in Seq(S), Len(d) > 0, NEW x, NEW front, front = SubSeq(d, 1, Len(d) - 1)
  PROVE  /\ front \in Seq(S) /\ Len(front) = Len(d) - 1
         /\ d[Len(d)] = x => CountOf(d, x) = CountOf(front, x) + 1
         /\ d[Len(d)] # x => CountOf(d, x) = CountOf(front, x)
<1> DEFINE t == Append(front, d[Len(d)])
<1>1. Len(d) \in Nat /\ Len(d) - 1 \in Nat /\ d[Len(d)] \in S OBVIOUS
<1>2. front \in Seq(S) /\ Len(front) = Len(d) - 1 /\ \A k \in 1..Len(d) - 1 : front[k] = d[k]
  <2> DEFINE n == Len(d) - 1
  <2>1. n \in Nat /\ front = SubSeq(d, 1, n) /\ n <= Len(d) BY <1>1
  <2> HIDE DEF n
  <2>2. front \in Seq(S) BY <2>1
  <2>3. Len(front) = n BY <2>1
  <2>4. \A k \in 1..n : front[k] = d[k] BY <2>1
  <2>5. QED BY <2>2, <2>3, <2>4 DEF n
<1>3. t \in Seq(S) /\ Len(t) = Len(d) /\ \A k \in 1..Len(d) : t[k] = d[k]
  <2> DEFINE c == d[Len(d)]
  <2>1. c \in S /\ t = Append(front, c) BY <1>1
  <2> HIDE DEF t, c
  <2>2. t \in Seq(S) /\ Len(t) = Len(d) BY <1>1, <1>2, <2>1
  <2>3. \A k \in 1..Len(d) - 1 : t[k] = d[k] BY <1>1, <1>2, <2>1
  <2>4. t[Len(d)] = c BY <1>1, <1>2, <2>1
  <2>5. QED BY <1>1, <2>2, <2>3, <2>4 DEF c
<1> HIDE DEF t
<1>4. t = d
  <2>1. t = [k \in 1..Len(t) |-> t[k]] /\ d = [k \in 1..Len(d) |-> d[k]] BY <1>3
  <2>2. [k \in 1..Len(t) |-> t[k]] = [k \in 1..Len(d) |-> d[k]] BY <1>3
  <2>3. QED BY <2>1, <2>2
<1>5. (d[Len(d)] = x => CountOf(t, x) = CountOf(front, x) + 1) /\ (d[Len(d)] # x => CountOf(t, x) = CountOf(front, x))
  <2> DEFINE c == d[Len(d)]
  <2>1. c \in S /\ t = Append(front, c) /\ front \in Seq(S) BY <1>1, <1>2 DEF t
  <2> HIDE DEF c
  <2>2. (c = x => CountOf(t, x) = CountOf(front, x) + 1) /\ (c # x => CountOf(t, x) = CountOf(front, x))
    BY <2>1, CountAppend, ZenonT(60)
  <2>3. QED BY <2>2 DEF c
<1>6. QED BY <1>2, <1>4, <1>5

LEMMA DecisionsAppend ==
  ASSUME NEW d \in Seq(Truths), NEW c \in Truths
  PROVE  /\ Evaluations(d) \in Nat /\ Reuses(d) \in Nat
         /\ c = TRUE => Evaluations(Append(d, c)) = Evaluations(d) + 1 /\ Reuses(Append(d, c)) = Reuses(d)
         /\ c = FALSE => Evaluations(Append(d, c)) = Evaluations(d) /\ Reuses(Append(d, c)) = Reuses(d) + 1
<1>1. /\ CountOf(d, TRUE) \in Nat
      /\ c = TRUE => CountOf(Append(d, c), TRUE) = CountOf(d, TRUE) + 1
      /\ c # TRUE => CountOf(Append(d, c), TRUE) = CountOf(d, TRUE)
  BY CountAppend, Zenon
<1>2. /\ CountOf(d, FALSE) \in Nat
      /\ c = FALSE => CountOf(Append(d, c), FALSE) = CountOf(d, FALSE) + 1
      /\ c # FALSE => CountOf(Append(d, c), FALSE) = CountOf(d, FALSE)
  BY CountAppend, Zenon
<1>3. TRUE # FALSE OBVIOUS
<1>4. QED BY <1>1, <1>2, <1>3, Zenon DEF Evaluations, Reuses

LEMMA DecisionsFront ==
  ASSUME NEW d \in Seq(Truths), Len(d) > 0, d[Len(d)] = TRUE, NEW front, front = SubSeq(d, 1, Len(d) - 1)
  PROVE  /\ front \in Seq(Truths) /\ Len(front) = Len(d) - 1
         /\ Evaluations(d) = Evaluations(front) + 1 /\ Reuses(d) = Reuses(front)
<1>1. front \in Seq(Truths) /\ Len(front) = Len(d) - 1 /\ CountOf(d, TRUE) = CountOf(front, TRUE) + 1
  BY CountFront, ZenonT(60)
<1>2. d[Len(d)] # FALSE OBVIOUS
<1>3. CountOf(d, FALSE) = CountOf(front, FALSE) BY <1>2, CountFront, ZenonT(60)
<1>4. QED BY <1>1, <1>3, Zenon DEF Evaluations, Reuses

LEMMA CudaStarts == ASSUME request \in Requests PROVE CudaRuns(Fresh, "decide")
<1>1. Evaluations(<<>>) = 0 /\ Reuses(<<>>) = 0
  <2>1. {k \in DOMAIN <<>> : <<>>[k] = TRUE} = {} /\ {k \in DOMAIN <<>> : <<>>[k] = FALSE} = {}
    OBVIOUS
  <2>2. QED BY <2>1, FS_EmptySet DEF CountOf, Evaluations, Reuses
<1>2. /\ Fresh.step = 0 /\ Fresh.computed = 0 /\ Fresh.skipped = 0 /\ Fresh.refined = 0 /\ Fresh.inner = 0
      /\ Fresh.recorded = 0 /\ Fresh.failed = FALSE /\ Fresh.sequence = "plain" /\ Fresh.cancelled = FALSE
      /\ Fresh.compute = TRUE /\ Fresh.decisions = <<>> /\ Fresh.rows = Fresh.input
  BY DEF Fresh
<1>3. Steps \in Nat \ {0} BY RequestFacts
<1>4. <<>> \in Seq(Truths) OBVIOUS
<1>5. LoopTypes(Fresh) BY <1>2, <1>4, FreshIsRun DEF LoopTypes
<1>6. Placed(Fresh, "decide")
  <2>1. Fresh.cancelled \in BOOLEAN /\ Fresh.compute \in BOOLEAN /\ Fresh.cancelled = FALSE BY <1>2
  <2>2. Fresh.step <= Steps /\ "decide" \in CudaPlaces /\ "decide" \notin Within
    BY <1>2, <1>3 DEF CudaPlaces, Within
  <2>3. QED BY <2>1, <2>2 DEF Placed
<1>7. DecisionsCover(Fresh, "decide") BY <1>2, <1>3 DEF DecisionsCover, Within
<1>8. Tally(Fresh, "decide") BY <1>1, <1>2 DEF Tally, Owed, Planned
<1>9. LatentsRead(Fresh, "decide") BY <1>2 DEF LatentsRead
<1>10. QED BY <1>5, <1>6, <1>7, <1>8, <1>9 DEF CudaRuns, CudaTyped

LEMMA CudaDecideKeeps ==
  ASSUME request \in Requests, NEW r, NEW s, NEW a, NEW b, CudaRuns(r, a), CudaDecide(r, a, s, b)
  PROVE  CudaRuns(s, b)
<1>1. /\ a = "decide" /\ LoopTypes(r) /\ Placed(r, a) /\ Len(r.decisions) = r.step
      /\ Steps \in Nat \ {0} /\ request.inner \in Nat
  BY RequestFacts DEF CudaDecide, CudaRuns, CudaTyped, DecisionsCover
<1>2. /\ r.computed = r.refined + Evaluations(r.decisions) /\ r.skipped = Reuses(r.decisions)
      /\ r.computed \in Nat /\ r.skipped \in Nat /\ r.refined \in Nat
  BY <1>1 DEF CudaRuns, Tally, Owed, Planned, LoopTypes
<1>3. CASE r.step = Steps
  <2>1. s = r /\ b = "end" BY <1>3 DEF CudaDecide
  <2>2. Placed(r, "end") BY <1>1 DEF Placed, CudaPlaces, Within
  <2>3. DecisionsCover(r, "end") BY <1>1, <1>3 DEF CudaRuns, DecisionsCover, Within
  <2>4. Tally(r, "end") BY <1>2 DEF Tally, Owed, Planned
  <2>5. QED BY <1>1, <2>1, <2>2, <2>3, <2>4 DEF CudaRuns, CudaTyped, LatentsRead
<1>4. CASE r.step # Steps
  <2>1. /\ IsRun(s) /\ Keeps(r, s, Fields \ {"compute", "consecutive", "seen", "decisions", "inner", "chain"})
        /\ s.compute = ShouldCompute(r) /\ s.decisions = Append(r.decisions, ShouldCompute(r)) /\ s.inner = 0
    BY <1>1, <1>4, CudaDecides DEF LoopTypes
  <2>2. ShouldCompute(r) \in BOOLEAN /\ r.step < Steps /\ r.step \in Nat /\ r.decisions \in Seq(Truths)
    BY <1>1, <1>4 DEF LoopTypes, Placed, ShouldCompute
  <2>3. PICK c \in Truths : s.compute = c /\ s.decisions = Append(r.decisions, c) /\ (ShouldCompute(r) <=> c = TRUE)
    BY <2>1, <2>2, Zenon DEF Truths
  <2>4. b = IF c = TRUE /\ request.inner > 0 THEN "refine" ELSE "evaluate"
    BY <1>4, <2>3 DEF CudaDecide
  <2>5. c = TRUE \/ c = FALSE BY DEF Truths
  <2>6. /\ s.step = r.step /\ s.computed = r.computed /\ s.skipped = r.skipped /\ s.refined = r.refined
        /\ s.recorded = r.recorded /\ s.failed = r.failed /\ s.sequence = r.sequence /\ s.cancelled = r.cancelled
        /\ s.rows = r.rows /\ s.input = r.input
    BY <2>1 DEF Keeps, Fields
  <2>7. s.decisions \in Seq(Truths) /\ Len(s.decisions) = r.step + 1 /\ s.decisions[r.step + 1] = c
    BY <1>1, <2>2, <2>3
  <2>8. LoopTypes(s) BY <1>1, <2>1, <2>6, <2>7 DEF LoopTypes
  <2>9. Placed(s, b) BY <1>1, <2>2, <2>3, <2>4, <2>5, <2>6 DEF Placed, CudaPlaces, Within
  <2>10. r.step + 1 = Steps => c = TRUE BY <1>1, <2>2, <2>3 DEF ShouldCompute
  <2>11. DecisionsCover(s, b)
    BY <1>1, <2>1, <2>2, <2>3, <2>4, <2>5, <2>6, <2>7, <2>10 DEF DecisionsCover, Within
  <2>12. /\ c = TRUE => Evaluations(s.decisions) = Evaluations(r.decisions) + 1 /\ Reuses(s.decisions) = Reuses(r.decisions)
         /\ c = FALSE => Evaluations(s.decisions) = Evaluations(r.decisions) /\ Reuses(s.decisions) = Reuses(r.decisions) + 1
         /\ Evaluations(r.decisions) \in Nat /\ Reuses(r.decisions) \in Nat
    BY <2>2, <2>3, DecisionsAppend, ZenonT(60)
  <2>13. Owed(s, b) = IF c = TRUE THEN "evaluation" ELSE "reuse" BY <2>3, <2>4 DEF Owed, Planned
  <2>14. Tally(s, b) BY <1>2, <2>5, <2>6, <2>12, <2>13 DEF Tally
  <2>15. LatentsRead(s, b) BY <1>1, <2>4, <2>6 DEF CudaRuns, LatentsRead
  <2>16. QED BY <2>8, <2>9, <2>11, <2>14, <2>15 DEF CudaRuns, CudaTyped
<1>5. QED BY <1>3, <1>4

LEMMA CudaRefineKeeps ==
  ASSUME request \in Requests, NEW r, NEW s, NEW a, NEW b, CudaRuns(r, a), CudaRefine(r, a, s, b)
  PROVE  CudaRuns(s, b)
<1>1. /\ a = "refine" /\ LoopTypes(r) /\ Placed(r, a) /\ r.step < Steps /\ Steps \in Nat \ {0} /\ request.inner \in Nat
      /\ r.step \in Nat /\ r.inner \in Nat
  BY RequestFacts DEF CudaRefine, CudaRuns, CudaTyped, Within, Placed, LoopTypes
<1>2. /\ Len(r.decisions) = r.step + 1 /\ r.decisions[r.step + 1] = r.compute
      /\ r.compute = TRUE /\ r.inner < request.inner /\ (Len(r.decisions) = Steps => r.decisions[Steps] = TRUE)
  <2>1. r.compute /\ r.compute \in BOOLEAN BY <1>1 DEF CudaRuns, DecisionsCover, Placed
  <2>2. r.compute = TRUE BY <2>1, Zenon
  <2>3. QED BY <1>1, <2>2 DEF CudaRuns, DecisionsCover, Within
<1>3. /\ r.computed + 1 = r.refined + Evaluations(r.decisions) /\ r.skipped = Reuses(r.decisions)
      /\ r.computed \in Nat /\ r.skipped \in Nat /\ r.refined \in Nat
  BY <1>1, <1>2 DEF CudaRuns, Tally, Owed, Planned, LoopTypes
<1>4. r.decisions \in Seq(Truths) /\ TRUE \in Truths BY <1>1 DEF LoopTypes, Truths
<1>5. Evaluations(r.decisions) \in Nat /\ Reuses(r.decisions) \in Nat BY <1>4, DecisionsAppend
<1>6. SequenceOf(r) \in {"plain", "context"} BY <1>1 DEF LoopTypes, SequenceOf
<1>7. CASE Goes(r)
  <2>1. /\ IsRun(s) /\ Keeps(r, s, Fields \ {"input", "sequence", "velocity", "computed", "log", "asked", "cancelled",
                                             "inner", "refined", "chain"})
        /\ s.input = IF r.inner + 1 = request.inner THEN [Candidates(r) EXCEPT !.video = Moving(r)] ELSE Candidates(r)
        /\ s.sequence = SequenceOf(r) /\ s.computed = r.computed + 1 /\ s.cancelled = FALSE
        /\ s.inner = r.inner + 1 /\ s.refined = r.refined + 1
    BY <1>1, <1>7, CudaRefines DEF LoopTypes
  <2>2. b = IF r.inner + 1 = request.inner THEN "evaluate" ELSE "refine"
    BY <1>7 DEF CudaRefine, NextOf
  <2>3. /\ s.step = r.step /\ s.skipped = r.skipped /\ s.decisions = r.decisions /\ s.compute = r.compute
        /\ s.recorded = r.recorded /\ s.failed = r.failed /\ s.rows = r.rows
    BY <2>1 DEF Keeps, Fields
  <2>4. LoopTypes(s)
    <3>1. s.step \in Nat /\ s.computed \in Nat /\ s.skipped \in Nat /\ s.refined \in Nat /\ s.inner \in Nat
      BY <1>1, <1>3, <2>1, <2>3
    <3>2. r.recorded = 0 /\ r.failed = FALSE BY <1>1 DEF LoopTypes
    <3>3. IsRun(s) /\ s.recorded = 0 /\ s.failed = FALSE /\ s.sequence \in {"plain", "context"} /\ s.decisions \in Seq(Truths)
      BY <1>4, <1>6, <2>1, <2>3, <3>2
    <3>4. QED BY <3>1, <3>3, Zenon DEF LoopTypes
  <2>5. Placed(s, b) BY <1>1, <1>2, <2>1, <2>2, <2>3 DEF Placed, CudaPlaces, Within
  <2>6. DecisionsCover(s, b) BY <1>1, <1>2, <2>1, <2>2, <2>3 DEF DecisionsCover, Within
  <2>7. Owed(s, b) = "evaluation" BY <1>2, <2>2, <2>3 DEF Owed, Planned
  <2>8. Tally(s, b) BY <1>3, <1>5, <2>1, <2>3, <2>7 DEF Tally
  <2>9. s.input["audio"] = r.input["audio"] /\ r.rows["audio"] = r.input["audio"] /\ request.inner > 0
    BY <1>1, <1>2, <2>1 DEF Candidates, IsRun, LoopTypes, Modalities, CudaRuns, LatentsRead
  <2>10. LatentsRead(s, b) BY <1>1, <2>2, <2>3, <2>9 DEF LatentsRead
  <2>11. QED BY <2>4, <2>5, <2>6, <2>8, <2>10 DEF CudaRuns, CudaTyped
<1>8. CASE ~Goes(r)
  <2>1. /\ IsRun(s) /\ Keeps(r, s, Fields \ {"input", "sequence", "velocity", "computed", "log", "asked", "cancelled",
                                             "refined", "rows", "decisions"})
        /\ s.computed = r.computed + 1 /\ s.cancelled = TRUE /\ s.refined = r.refined + 1
        /\ s.decisions = SubSeq(r.decisions, 1, Len(r.decisions) - 1) /\ s.sequence = SequenceOf(r)
    BY <1>1, <1>8, CudaRefineStops DEF LoopTypes
  <2>2. b = "end" BY <1>8 DEF CudaRefine
  <2>3. /\ s.step = r.step /\ s.skipped = r.skipped /\ s.compute = r.compute /\ s.inner = r.inner
        /\ s.recorded = r.recorded /\ s.failed = r.failed
    BY <2>1 DEF Keeps, Fields
  <2>4. Len(r.decisions) > 0 /\ r.decisions[Len(r.decisions)] = TRUE BY <1>1, <1>2
  <2>5. /\ s.decisions \in Seq(Truths) /\ Len(s.decisions) = Len(r.decisions) - 1
        /\ Evaluations(r.decisions) = Evaluations(s.decisions) + 1 /\ Reuses(r.decisions) = Reuses(s.decisions)
    BY <1>4, <2>1, <2>4, DecisionsFront
  <2>6. Evaluations(s.decisions) \in Nat /\ Reuses(s.decisions) \in Nat
    BY <1>4, <2>5, DecisionsAppend
  <2>7. Len(s.decisions) = r.step BY <1>1, <1>2, <2>5
  <2>8. LoopTypes(s)
    <3>1. s.step \in Nat /\ s.computed \in Nat /\ s.skipped \in Nat /\ s.refined \in Nat /\ s.inner \in Nat
      BY <1>1, <1>3, <2>1, <2>3
    <3>2. r.recorded = 0 /\ r.failed = FALSE BY <1>1 DEF LoopTypes
    <3>3. IsRun(s) /\ s.recorded = 0 /\ s.failed = FALSE /\ s.sequence \in {"plain", "context"} /\ s.decisions \in Seq(Truths)
      BY <1>6, <2>1, <2>3, <2>5, <3>2
    <3>4. QED BY <3>1, <3>3, Zenon DEF LoopTypes
  <2>9. Placed(s, b)
    <3>1. s.cancelled \in BOOLEAN /\ s.compute \in BOOLEAN BY <1>2, <2>1, <2>3
    <3>2. s.step <= Steps /\ "end" \in CudaPlaces /\ "end" \notin Within
      BY <1>1, <2>3 DEF CudaPlaces, Within
    <3>3. QED BY <2>2, <3>1, <3>2 DEF Placed
  <2>10. DecisionsCover(s, b) BY <1>1, <2>1, <2>2, <2>7 DEF DecisionsCover, Within
  <2>11. Owed(s, b) = "nothing" BY <2>2 DEF Owed, Planned
  <2>12. Tally(s, b)
    <3>1. s.computed = s.refined + Evaluations(s.decisions)
      <4>1. s.computed = r.computed + 1 /\ s.refined = r.refined + 1 BY <2>1
      <4>2. Evaluations(r.decisions) = Evaluations(s.decisions) + 1 /\ Evaluations(s.decisions) \in Nat
        BY <2>5, <2>6
      <4>3. r.computed + 1 = r.refined + Evaluations(r.decisions) /\ r.computed \in Nat /\ r.refined \in Nat
        BY <1>3
      <4>4. QED BY <4>1, <4>2, <4>3
    <3>2. s.skipped = Reuses(s.decisions) /\ s.computed \in Nat /\ s.skipped \in Nat
      BY <1>3, <2>1, <2>3, <2>5
    <3>3. QED BY <2>11, <3>1, <3>2 DEF Tally
  <2>13. LatentsRead(s, b) BY <2>2 DEF LatentsRead
  <2>14. QED BY <2>8, <2>9, <2>10, <2>12, <2>13 DEF CudaRuns, CudaTyped
<1>9. QED BY <1>7, <1>8

LEMMA CudaEvaluateKeeps ==
  ASSUME request \in Requests, NEW r, NEW s, NEW a, NEW b, CudaRuns(r, a), CudaEvaluate(r, a, s, b)
  PROVE  CudaRuns(s, b)
<1>1. /\ a = "evaluate" /\ LoopTypes(r) /\ Placed(r, a) /\ DecisionsCover(r, a) /\ Tally(r, a) /\ LatentsRead(r, a)
      /\ Steps \in Nat \ {0} /\ b \in {"effect_video", "preview"}
  BY RequestFacts DEF CudaEvaluate, CudaRuns, CudaTyped
<1>2. r.compute \in BOOLEAN /\ r.computed \in Nat /\ r.skipped \in Nat /\ r.refined \in Nat
  BY <1>1 DEF Placed, LoopTypes
<1>3. /\ IsRun(s) /\ Keeps(r, s, Fields \ {"sequence", "velocity", "computed", "updates", "residual", "seen", "used", "skipped"})
      /\ s.sequence \in {"plain", "context"}
      /\ s.computed = r.computed + (IF r.compute = TRUE THEN 1 ELSE 0)
      /\ s.skipped = r.skipped + (IF r.compute = TRUE THEN 0 ELSE 1)
  <2>1. CASE r.compute
    <3>1. /\ IsRun(s)
          /\ Keeps(r, s, Fields \ {"sequence", "velocity", "computed", "updates", "residual", "seen", "used"})
          /\ s.sequence = SequenceOf(r) /\ s.computed = r.computed + 1
      BY <1>1, <2>1, CudaEvaluates DEF LoopTypes
    <3>2. s.skipped = r.skipped /\ SequenceOf(r) \in {"plain", "context"}
      BY <1>1, <3>1 DEF Keeps, Fields, LoopTypes, SequenceOf
    <3>3. Keeps(r, s, Fields \ {"sequence", "velocity", "computed", "updates", "residual", "seen", "used", "skipped"})
      BY <3>1 DEF Keeps, Fields
    <3>4. r.compute = TRUE BY <1>2, <2>1, Zenon
    <3>5. s.skipped = r.skipped + 0 BY <1>2, <3>2
    <3>6. s.sequence \in {"plain", "context"} BY <3>1, <3>2
    <3>7. QED BY <3>1, <3>3, <3>4, <3>5, <3>6
  <2>2. CASE ~r.compute
    <3>1. /\ IsRun(s) /\ Keeps(r, s, Fields \ {"velocity", "skipped", "used"}) /\ s.skipped = r.skipped + 1
      BY <1>1, <2>2, CudaSkips DEF LoopTypes
    <3>2. s.computed = r.computed /\ s.sequence = r.sequence BY <3>1 DEF Keeps, Fields
    <3>3. Keeps(r, s, Fields \ {"sequence", "velocity", "computed", "updates", "residual", "seen", "used", "skipped"})
      BY <3>1 DEF Keeps, Fields
    <3>4. r.sequence \in {"plain", "context"} /\ r.compute # TRUE BY <1>1, <2>2 DEF LoopTypes
    <3>5. s.computed = r.computed + 0 /\ s.sequence \in {"plain", "context"} BY <1>2, <3>2, <3>4
    <3>6. QED BY <3>1, <3>3, <3>4, <3>5
  <2>3. QED BY <2>1, <2>2
<1>4. /\ s.step = r.step /\ s.decisions = r.decisions /\ s.compute = r.compute /\ s.refined = r.refined
      /\ s.inner = r.inner /\ s.cancelled = r.cancelled
      /\ s.recorded = r.recorded /\ s.failed = r.failed /\ s.rows = r.rows /\ s.input = r.input
  BY <1>3 DEF Keeps, Fields
<1>5. LoopTypes(s) BY <1>1, <1>2, <1>3, <1>4 DEF LoopTypes
<1>6. Placed(s, b) BY <1>1, <1>4 DEF Placed, CudaPlaces, Within
<1>7. DecisionsCover(s, b) BY <1>1, <1>4 DEF DecisionsCover, Within
<1>8. /\ Owed(r, a) = (IF r.compute = TRUE THEN "evaluation" ELSE "reuse") /\ Owed(s, b) = "nothing"
  BY <1>1 DEF Owed, Planned
<1>9. Tally(s, b) BY <1>1, <1>2, <1>3, <1>4, <1>8 DEF Tally
<1>10. LatentsRead(s, b) BY <1>1, <1>4 DEF LatentsRead
<1>11. QED BY <1>5, <1>6, <1>7, <1>9, <1>10 DEF CudaRuns, CudaTyped

\* A step that only asks, shows or works on the predictions.
Silent(r, s) == IsRun(s) /\ Keeps(r, s, Fields \ {"log", "asked", "cancelled", "used"}) /\ s.cancelled \in BOOLEAN

LEMMA SilentKeeps ==
  ASSUME request \in Requests, NEW r, NEW s, NEW a, NEW b, CudaRuns(r, a), Silent(r, s),
         a \in {"effect_video", "effect_audio", "preview"},
         (b \in {"effect_audio", "preview", "update"} /\ s.cancelled = FALSE) \/ (b = "end" /\ s.cancelled = TRUE)
  PROVE  CudaRuns(s, b)
<1>1. /\ LoopTypes(r) /\ Placed(r, a) /\ DecisionsCover(r, a) /\ Tally(r, a) /\ LatentsRead(r, a)
      /\ Steps \in Nat \ {0} /\ a \in Within /\ a \notin Planned
  BY RequestFacts DEF CudaRuns, CudaTyped, Within, Planned
<1>2. /\ s.step = r.step /\ s.decisions = r.decisions /\ s.compute = r.compute /\ s.refined = r.refined
      /\ s.computed = r.computed /\ s.skipped = r.skipped /\ s.sequence = r.sequence /\ s.inner = r.inner
      /\ s.recorded = r.recorded /\ s.failed = r.failed /\ s.rows = r.rows /\ s.input = r.input
  BY DEF Silent, Keeps, Fields
<1>3. LoopTypes(s) BY <1>1, <1>2 DEF Silent, LoopTypes
<1>4. Placed(s, b) BY <1>1, <1>2 DEF Placed, CudaPlaces, Within
<1>5. DecisionsCover(s, b) BY <1>1, <1>2 DEF DecisionsCover, Within
<1>6. Owed(s, b) = "nothing" /\ Owed(r, a) = "nothing" BY <1>1 DEF Owed, Planned
<1>7. Tally(s, b) BY <1>1, <1>2, <1>6 DEF Tally
<1>8. LatentsRead(s, b) BY <1>1, <1>2 DEF LatentsRead
<1>9. QED BY <1>3, <1>4, <1>5, <1>7, <1>8 DEF CudaRuns, CudaTyped

LEMMA CudaEffectKeeps ==
  ASSUME request \in Requests, NEW r, NEW s, NEW a, NEW b, NEW m, NEW place, NEW next,
         CudaRuns(r, a), CudaEffect(m, place, next, r, a, s, b),
         place \in {"effect_video", "effect_audio"}, next \in {"effect_audio", "preview"}
  PROVE  CudaRuns(s, b)
<1>1. /\ a = place /\ IsRun(r) /\ r.cancelled = FALSE /\ b = IF s.cancelled THEN "end" ELSE next
  BY DEF CudaEffect, CudaRuns, CudaTyped, LoopTypes, Placed, Unless
<1>2. Silent(r, s)
  <2>1. CASE m \in Advancing(r)
    <3>1. IsRun(s) /\ Keeps(r, s, Fields \ {"log", "asked", "cancelled", "used"}) /\ s.cancelled = ~Goes(r)
      BY <1>1, <2>1, CudaEffects
    <3>2. QED BY <3>1, Zenon DEF Silent
  <2>2. CASE m \notin Advancing(r) BY <1>1, <2>2 DEF CudaEffect, Silent, Keeps
  <2>3. QED BY <2>1, <2>2
<1>3. (b = next /\ s.cancelled = FALSE) \/ (b = "end" /\ s.cancelled = TRUE)
  BY <1>1, <1>2, Zenon DEF Silent
<1>4. QED BY <1>1, <1>2, <1>3, SilentKeeps

LEMMA CudaPreviewKeeps ==
  ASSUME request \in Requests, NEW r, NEW s, NEW a, NEW b, CudaRuns(r, a), CudaPreview(r, a, s, b)
  PROVE  CudaRuns(s, b)
<1>1. a = "preview" /\ b = "update" /\ IsRun(r) /\ r.cancelled = FALSE
  BY DEF CudaPreview, CudaRuns, CudaTyped, LoopTypes, Placed
<1>2. IsRun(s) /\ Keeps(r, s, Fields \ {"log"}) BY <1>1, CudaPreviews
<1>3. Silent(r, s) /\ s.cancelled = FALSE BY <1>1, <1>2 DEF Silent, Keeps, Fields
<1>4. QED BY <1>1, <1>3, SilentKeeps

LEMMA CudaUpdateKeeps ==
  ASSUME request \in Requests, NEW r, NEW s, NEW a, NEW b, CudaRuns(r, a), CudaUpdate(r, a, s, b)
  PROVE  CudaRuns(s, b)
<1>1. /\ a = "update" /\ b = "report" /\ LoopTypes(r) /\ Placed(r, a) /\ DecisionsCover(r, a) /\ Tally(r, a)
      /\ LatentsRead(r, a) /\ Steps \in Nat \ {0}
  BY RequestFacts DEF CudaUpdate, CudaRuns, CudaTyped
<1>2. IsRun(s) /\ Keeps(r, s, Fields \ {"rows", "input", "noise", "previous"}) /\ s.rows = s.input
  <2>1. IsRun(r) BY <1>1 DEF LoopTypes
  <2>2. IsRun(s) /\ Keeps(r, s, Fields \ {"rows", "input", "noise", "previous"}) /\ s.rows = CudaRows(r) /\ s.input = CudaRows(r)
    BY <2>1, CudaUpdates, Zenon
  <2>3. QED BY <2>2
<1>3. /\ s.step = r.step /\ s.decisions = r.decisions /\ s.compute = r.compute /\ s.refined = r.refined
      /\ s.computed = r.computed /\ s.skipped = r.skipped /\ s.sequence = r.sequence /\ s.inner = r.inner
      /\ s.recorded = r.recorded /\ s.failed = r.failed /\ s.cancelled = r.cancelled
  BY <1>2 DEF Keeps, Fields
<1>4. LoopTypes(s) BY <1>1, <1>2, <1>3 DEF LoopTypes
<1>5. Placed(s, b) BY <1>1, <1>3 DEF Placed, CudaPlaces, Within
<1>6. DecisionsCover(s, b) BY <1>1, <1>3 DEF DecisionsCover, Within
<1>7. Owed(s, b) = "nothing" /\ Owed(r, a) = "nothing" BY <1>1 DEF Owed, Planned
<1>8. Tally(s, b) BY <1>1, <1>3, <1>7 DEF Tally
<1>9. LatentsRead(s, b) BY <1>2 DEF LatentsRead
<1>10. QED BY <1>4, <1>5, <1>6, <1>8, <1>9 DEF CudaRuns, CudaTyped

LEMMA CudaReportKeeps ==
  ASSUME request \in Requests, NEW r, NEW s, NEW a, NEW b, CudaRuns(r, a), Report(r, a, s, b)
  PROVE  CudaRuns(s, b)
<1>1. /\ a = "report" /\ b = (IF s.cancelled THEN "end" ELSE "decide") /\ LoopTypes(r) /\ Placed(r, a) /\ DecisionsCover(r, a)
      /\ Tally(r, a) /\ LatentsRead(r, a) /\ Steps \in Nat \ {0} /\ r.step \in Nat /\ r.step < Steps
  BY RequestFacts DEF Report, CudaRuns, CudaTyped, Unless, LoopTypes, Placed, Within
<1>2. /\ IsRun(s) /\ Keeps(r, s, Fields \ {"log", "asked", "cancelled", "step"}) /\ s.step = r.step + 1
      /\ s.cancelled = ~Goes(r)
  BY <1>1, Reports DEF LoopTypes
<1>3. /\ s.decisions = r.decisions /\ s.compute = r.compute /\ s.refined = r.refined
      /\ s.computed = r.computed /\ s.skipped = r.skipped /\ s.sequence = r.sequence /\ s.inner = r.inner
      /\ s.recorded = r.recorded /\ s.failed = r.failed /\ s.rows = r.rows /\ s.input = r.input
  BY <1>2 DEF Keeps, Fields
<1>4. s.cancelled \in BOOLEAN /\ ((b = "decide" /\ s.cancelled = FALSE) \/ (b = "end" /\ s.cancelled = TRUE))
  <2>1. s.cancelled \in BOOLEAN BY <1>2, Zenon
  <2>2. QED BY <1>1, <2>1, Zenon
<1>5. LoopTypes(s) BY <1>1, <1>2, <1>3 DEF LoopTypes
<1>6. Placed(s, b) BY <1>1, <1>2, <1>3, <1>4 DEF Placed, CudaPlaces, Within
<1>7. DecisionsCover(s, b) BY <1>1, <1>2, <1>3, <1>4 DEF DecisionsCover, Within
<1>8. Owed(s, b) = "nothing" /\ Owed(r, a) = "nothing" BY <1>1, <1>4 DEF Owed, Planned
<1>9. Tally(s, b) BY <1>1, <1>3, <1>8 DEF Tally
<1>10. LatentsRead(s, b) BY <1>1, <1>3, <1>4 DEF LatentsRead
<1>11. QED BY <1>5, <1>6, <1>7, <1>9, <1>10 DEF CudaRuns, CudaTyped

LEMMA CudaStepKeeps ==
  ASSUME request \in Requests, NEW r, NEW s, NEW a, NEW b, CudaRuns(r, a), CudaStep(r, a, s, b)
  PROVE  CudaRuns(s, b)
<1>1. CASE CudaDecide(r, a, s, b) BY <1>1, CudaDecideKeeps
<1>2. CASE CudaRefine(r, a, s, b) BY <1>2, CudaRefineKeeps
<1>3. CASE CudaEvaluate(r, a, s, b) BY <1>3, CudaEvaluateKeeps
<1>4. CASE CudaEffect("video", "effect_video", "effect_audio", r, a, s, b) BY <1>4, CudaEffectKeeps
<1>5. CASE CudaEffect("audio", "effect_audio", "preview", r, a, s, b) BY <1>5, CudaEffectKeeps
<1>6. CASE CudaPreview(r, a, s, b) BY <1>6, CudaPreviewKeeps
<1>7. CASE CudaUpdate(r, a, s, b) BY <1>7, CudaUpdateKeeps
<1>8. CASE Report(r, a, s, b) BY <1>8, CudaReportKeeps
<1>9. QED BY <1>1, <1>2, <1>3, <1>4, <1>5, <1>6, <1>7, <1>8, Zenon DEF CudaStep

-----------------------------------------------------------------------------
(* ExactH3Denoiser::run follows dit::denoise.                              *)

Agreed ==
  {"step", "log", "seen", "computed", "skipped", "cancelled", "asked", "inner", "updates", "consecutive",
   "residual", "previous", "compute", "chain"}
Effects == {"effect", "effect_video", "effect_audio"}
Counterpart(a) == CASE a = "record" -> "evaluate" [] a = "effect" -> "effect_video" [] OTHER -> a

\* The latents of the one are what the transformer reads in the other; so with the prediction a step uses.
InStep(c, v, a) ==
  /\ v.rows = c.input
  /\ v.sequence = IF a \in {"refine", "record"} THEN SequenceOf(c) ELSE c.sequence
  /\ (a = "refine" => request.inner > 0) /\ (a \in Effects => request.effect)
  /\ a = "record" => v.compute = TRUE \/ (v.compute = FALSE /\ Motion /\ v.velocity = Reused(v, v.rows))
  /\ a \in Effects \cup {"preview", "update"} => v.velocity = c.used
  /\ a \in {"effect", "effect_video"} => v.velocity = c.velocity
  /\ a = "effect_audio" => v.velocity["audio"] = c.velocity["audio"]
  /\ request.audio = "none" => v.input["audio"] = v.rows["audio"]

\* What both return, where an effect has not stopped a refined step.
Returns(c, v) == v.rows = c.rows \/ (v.cancelled /\ request.effect /\ request.inner > 0)

Follows(c, ca, v, va) ==
  /\ IsRun(v) /\ v.recorded \in 0..3 /\ v.sequence \in {"plain", "context"} /\ Keeps(c, v, Agreed)
  /\ \/ va = "end" /\ v.failed = TRUE
     \/ va = "end" /\ ca = "end" /\ v.failed = FALSE /\ Returns(c, v)
     \/ va \notin {"end", "idle"} /\ v.failed = FALSE /\ ca = Counterpart(va) /\ InStep(c, v, va)

\* What the place in the schedules decides.
LEMMA AtSameStep ==
  ASSUME NEW r, NEW q, r.step = q.step
  PROVE  /\ Now(r) = Now(q) /\ Advancing(r) = Advancing(q) /\ (Tack(r) <=> Tack(q))
         /\ \A m : IsLast(r, m) <=> IsLast(q, m)
         /\ \A m, x, y, z, w : SchedulerStep(r, m, x, y, z, w) = SchedulerStep(q, m, x, y, z, w)
         /\ \A m, x, y : Remembered(r, m, x, y) = Remembered(q, m, x, y)
         /\ \A x, y : InpaintApply(r, x, y) = InpaintApply(q, x, y)
         /\ \A m, x : Overlap(r, m, x) = Overlap(q, m, x)
         /\ \A m, x, y : EffectCall(r, m, x, y) = EffectCall(q, m, x, y)
         /\ \A x, y : PreviewCall(r, x, y) = PreviewCall(q, x, y)
<1>1. Now(r) = Now(q) BY DEF Now
<1>2. Advancing(r) = Advancing(q) /\ (Tack(r) <=> Tack(q)) /\ (\A m : IsLast(r, m) <=> IsLast(q, m))
  BY <1>1 DEF Advancing, Tack, IsLast
<1>3. \A m, x, y, z, w : SchedulerStep(r, m, x, y, z, w) = SchedulerStep(q, m, x, y, z, w)
  BY <1>1, <1>2 DEF SchedulerStep
<1>4. /\ \A m, x, y : Remembered(r, m, x, y) = Remembered(q, m, x, y)
      /\ \A x, y : InpaintApply(r, x, y) = InpaintApply(q, x, y)
      /\ \A m, x : Overlap(r, m, x) = Overlap(q, m, x)
  BY <1>1, <1>2 DEF Remembered, InpaintApply, Overlap
<1>5. /\ \A m, x, y : EffectCall(r, m, x, y) = EffectCall(q, m, x, y)
      /\ \A x, y : PreviewCall(r, x, y) = PreviewCall(q, x, y)
  BY <1>1 DEF EffectCall, PreviewCall
<1>6. QED BY <1>1, <1>2, <1>3, <1>4, <1>5, Zenon

\* The noise a stochastic sampler adds is the step's, and no other sampler reads it.
Drawn(r, m, noise) == (Stochastic /\ ~IsLast(r, m)) => noise = <<"noise", m, Now(r)[m]>>
Renewed(r, m, sample, velocity, previous, noise) ==
  LET next == SchedulerStep(r, m, sample, velocity, noise, previous)
  IN Overlap(r, m, IF m = "video" THEN InpaintApply(r, next, IF Renoise THEN noise ELSE <<"known">>) ELSE next)

LEMMA NoiseIsTheSteps ==
  ASSUME NEW r, NEW m, NEW x, NEW y, NEW p, NEW i, NEW j, request.sampler \in Samplers,
         Drawn(r, m, i), Drawn(r, m, j)
  PROVE  Renewed(r, m, x, y, p, i) = Renewed(r, m, x, y, p, j)
<1> DEFINE next(n) == SchedulerStep(r, m, x, y, n, p)
<1>1. CASE request.sampler = "euler"
  <2>1. next(i) = next(j) /\ ~Renoise BY <1>1 DEF SchedulerStep, Renoise
  <2> HIDE DEF next
  <2>2. QED BY <2>1 DEF Renewed, next
<1>2. CASE request.sampler # "euler" /\ ~IsLast(r, m)
  <2>1. Stochastic BY <1>2 DEF Stochastic, Samplers
  <2>2. i = j BY <1>2, <2>1 DEF Drawn
  <2>3. QED BY <2>2
<1>3. CASE request.sampler = "er_sde" /\ IsLast(r, m)
  <2>1. next(i) = next(j) /\ ~Renoise BY <1>3 DEF SchedulerStep, Renoise
  <2> HIDE DEF next
  <2>2. QED BY <2>1 DEF Renewed, next
<1>4. CASE Renoise /\ IsLast(r, m)
  <2>1. next(i) = next(j) BY <1>4 DEF SchedulerStep, Renoise
  <2> HIDE DEF next
  <2>2. m = "video" => InpaintApply(r, next(i), i) = InpaintApply(r, next(j), j)
    BY <1>4, <2>1 DEF InpaintApply
  <2>3. QED BY <2>1, <2>2 DEF Renewed, next
<1>5. QED BY <1>1, <1>2, <1>3, <1>4 DEF Samplers, Renoise

LEMMA CudaRenews ==
  ASSUME NEW r, NEW m
  PROVE  \E n : CudaUpdated(r, m) = Renewed(r, m, r.input[m], r.used[m], r.previous[m], n) /\ Drawn(r, m, n)
<1> DEFINE n == StepNoise(r, m, r.noise[m])
<1>1. Drawn(r, m, n) BY DEF Drawn, StepNoise
<1>2. CudaUpdated(r, m) = Renewed(r, m, r.input[m], r.used[m], r.previous[m], n)
  BY Zenon DEF CudaUpdated, Renewed
<1>3. QED BY <1>1, <1>2

LEMMA VulkanRenews ==
  ASSUME NEW r, NEW m \in Modalities, m \in Advancing(r)
  PROVE  /\ VulkanUpdated(r, m, NoiseOf(r, m)) = Renewed(r, m, r.rows[m], r.velocity[m], r.previous[m], NoiseOf(r, m))
         /\ Drawn(r, m, NoiseOf(r, m))
<1>1. Drawn(r, m, NoiseOf(r, m)) BY DEF Drawn, StepNoise, NoiseOf, VideoNoise, Modalities
<1>2. VulkanUpdated(r, m, NoiseOf(r, m)) = Renewed(r, m, r.rows[m], r.velocity[m], r.previous[m], NoiseOf(r, m))
  BY Zenon DEF VulkanUpdated, Renewed
<1>3. QED BY <1>1, <1>2

LEMMA CudaStepAt ==
  ASSUME NEW r, NEW a, NEW s, NEW b, CudaStep(r, a, s, b)
  PROVE  /\ a = "decide" => CudaDecide(r, a, s, b)
         /\ a = "refine" => CudaRefine(r, a, s, b)
         /\ a = "evaluate" => CudaEvaluate(r, a, s, b)
         /\ a = "effect_video" => CudaEffect("video", "effect_video", "effect_audio", r, a, s, b)
         /\ a = "effect_audio" => CudaEffect("audio", "effect_audio", "preview", r, a, s, b)
         /\ a = "preview" => CudaPreview(r, a, s, b)
         /\ a = "update" => CudaUpdate(r, a, s, b)
         /\ a = "report" => Report(r, a, s, b)
         /\ a # "end"
<1>1. /\ CudaDecide(r, a, s, b) => a = "decide"
      /\ CudaRefine(r, a, s, b) => a = "refine"
      /\ CudaEvaluate(r, a, s, b) => a = "evaluate"
      /\ CudaEffect("video", "effect_video", "effect_audio", r, a, s, b) => a = "effect_video"
      /\ CudaEffect("audio", "effect_audio", "preview", r, a, s, b) => a = "effect_audio"
      /\ CudaPreview(r, a, s, b) => a = "preview"
      /\ CudaUpdate(r, a, s, b) => a = "update"
      /\ Report(r, a, s, b) => a = "report"
  BY Zenon DEF CudaDecide, CudaRefine, CudaEvaluate, CudaEffect, CudaPreview, CudaUpdate, Report
<1>2. QED BY <1>1 DEF CudaStep

\* What a request that both backends sample has.
LEMMA SharedRequest ==
  ASSUME request \in Requests, request.cache # "steps"
  PROVE  /\ Motion \in BOOLEAN /\ \A r : ShouldCompute(r) \in BOOLEAN /\ (~Motion => ShouldCompute(r))
         /\ \A r : Motion => ~Tack(r)
         /\ request.sampler \in Samplers /\ request.inner \in Nat
         /\ request.inner > 0 => ~Motion /\ request.audio = "none"
         /\ request.audio = "none" => request.steps.video = request.steps.audio /\ "audio" \notin Generated
         /\ "video" \in Generated
<1>1. Samplable(request) BY RequestFacts
<1>2. Motion \in BOOLEAN /\ (~Motion => request.cache = "off") BY <1>1 DEF Samplable, Motion
<1>3. \A r : ShouldCompute(r) \in BOOLEAN /\ (~Motion => ShouldCompute(r))
  BY <1>2, Zenon DEF ShouldCompute
<1>4. \A r : Motion => ~Tack(r) BY <1>1 DEF Samplable, Motion, Tack
<1>5. /\ request.sampler \in Samplers /\ request.inner \in Nat
      /\ request.inner > 0 => ~Motion /\ request.audio = "none"
      /\ request.audio = "none" => request.steps.video = request.steps.audio
  BY <1>1 DEF Samplable, Motion
<1>6. (request.audio = "none" => "audio" \notin Generated) /\ "video" \in Generated BY DEF Generated
<1>7. QED BY <1>2, <1>3, <1>4, <1>5, <1>6

\* Where a loop is refining, every step advances the video.
LEMMA RefinedAdvance ==
  ASSUME request \in Requests, request.cache # "steps", NEW r, r.step \in Nat, r.step < Steps
  PROVE  request.audio = "none" => "video" \in Advancing(r) /\ "audio" \notin Advancing(r)
<1>1. Steps \in Nat /\ (request.steps.video = request.steps.audio => \A k \in 1..Steps : Schedule[k].advance = Modalities)
  BY RequestFacts
<1>2. r.step + 1 \in 1..Steps BY <1>1
<1>3. request.audio = "none" => Now(r).advance = Modalities BY <1>1, <1>2, SharedRequest DEF Now
<1>4. QED BY <1>3, SharedRequest DEF Advancing, Modalities

LEMMA DecideFollows ==
  ASSUME request \in Requests, request.cache # "steps", NEW c, NEW ca, NEW v, NEW va, NEW d, NEW db, NEW w, NEW wb,
         CudaRuns(c, ca), Follows(c, ca, v, va), CudaStep(c, ca, d, db), VulkanDecide(v, va, w, wb)
  PROVE  Follows(d, db, w, wb)
<1>1. va = "decide" BY DEF VulkanDecide
<1>2. /\ ca = "decide" /\ v.failed = FALSE /\ IsRun(v) /\ v.recorded \in 0..3 /\ v.sequence \in {"plain", "context"}
      /\ Keeps(c, v, Agreed) /\ InStep(c, v, va)
  BY <1>1 DEF Follows, Counterpart
<1>3. CudaDecide(c, ca, d, db) /\ IsRun(c) /\ c.rows = c.input /\ c.sequence \in {"plain", "context"}
  BY <1>2, CudaStepAt DEF CudaRuns, CudaTyped, LoopTypes, LatentsRead
<1>4. /\ v.step = c.step /\ v.consecutive = c.consecutive /\ v.seen = c.seen /\ v.residual = c.residual
      /\ v.updates = c.updates
  BY <1>2 DEF Keeps, Agreed
<1>5. /\ v.rows = c.input /\ v.sequence = c.sequence
      /\ (request.audio = "none" => v.input["audio"] = v.rows["audio"])
  BY <1>1, <1>2 DEF InStep, Effects
<1>6. CASE v.step = Steps
  <2>1. w = v /\ wb = "end" /\ d = c /\ db = "end" BY <1>3, <1>4, <1>6 DEF VulkanDecide, CudaDecide
  <2>2. Returns(c, v) BY <1>3, <1>5 DEF Returns
  <2>3. QED BY <1>2, <2>1, <2>2 DEF Follows
<1>7. CASE v.step # Steps
  <2> DEFINE compute == Motion => ShouldCompute(v)
  <2>1. /\ IsRun(w)
        /\ Keeps(v, w, Fields \ {"compute", "consecutive", "seen", "sequence", "inner", "chain", "velocity"})
        /\ w.compute = compute /\ w.consecutive = IF compute THEN 0 ELSE v.consecutive + 1
        /\ w.seen = IF Motion THEN Append(v.seen, v.rows) ELSE v.seen
        /\ w.sequence = SequenceOf(v) /\ w.inner = 0 /\ w.chain = v.rows.video
        /\ w.velocity = IF compute THEN v.velocity ELSE Reused(v, v.rows)
    BY <1>2, <1>7, VulkanDecides
  <2>2. /\ IsRun(d) /\ Keeps(c, d, Fields \ {"compute", "consecutive", "seen", "decisions", "inner", "chain"})
        /\ d.compute = ShouldCompute(c) /\ d.consecutive = IF ShouldCompute(c) THEN 0 ELSE c.consecutive + 1
        /\ d.seen = IF Motion THEN Append(c.seen, c.input) ELSE c.seen
        /\ d.inner = 0 /\ d.chain = c.input.video
    BY <1>3, <1>4, <1>7, CudaDecides, ZenonT(60)
  <2>3. ShouldCompute(v) <=> ShouldCompute(c) BY <1>4 DEF ShouldCompute
  <2>4. /\ compute \in BOOLEAN /\ compute = ShouldCompute(c) /\ (compute \/ Motion)
    BY <2>3, SharedRequest, Zenon
  <2>5. /\ wb = IF request.inner > 0 THEN "refine" ELSE "record"
        /\ db = IF ShouldCompute(c) /\ request.inner > 0 THEN "refine" ELSE "evaluate"
    BY <1>3, <1>4, <1>7 DEF VulkanDecide, CudaDecide
  <2> HIDE DEF compute
  <2>6. compute = TRUE \/ (compute = FALSE /\ Motion) BY <2>4, Zenon
  <2>7. db = Counterpart(wb) /\ wb \in {"refine", "record"}
    BY <2>4, <2>5, <2>6, SharedRequest DEF Counterpart
  <2>8. /\ w.compute = d.compute /\ w.consecutive = d.consecutive /\ w.seen = d.seen /\ w.inner = d.inner /\ w.chain = d.chain
    BY <1>4, <1>5, <2>1, <2>2, <2>4
  <2>9. Keeps(d, w, Agreed) BY <1>2, <2>1, <2>2, <2>8 DEF Keeps, Agreed, Fields
  <2>10. /\ w.rows = v.rows /\ w.recorded = v.recorded /\ w.input = v.input /\ w.failed = v.failed /\ w.residual = v.residual
         /\ d.input = c.input /\ d.sequence = c.sequence /\ d.step = c.step
    BY <2>1, <2>2 DEF Keeps, Fields
  <2>11. w.sequence = SequenceOf(d) /\ w.sequence \in {"plain", "context"}
    BY <1>3, <1>4, <1>5, <2>1, <2>10 DEF SequenceOf, Tack, Now
  <2>12. w.compute = TRUE \/ (w.compute = FALSE /\ Motion /\ w.velocity = Reused(w, w.rows))
    <3>1. CASE compute = TRUE BY <2>1, <3>1
    <3>2. CASE compute = FALSE /\ Motion BY <2>1, <2>10, <3>2 DEF Reused
    <3>3. QED BY <2>6, <3>1, <3>2
  <2>13. InStep(d, w, wb) BY <1>5, <2>5, <2>7, <2>10, <2>11, <2>12 DEF InStep, Effects
  <2>14. QED BY <1>2, <2>1, <2>7, <2>9, <2>10, <2>11, <2>13 DEF Follows
<1>8. QED BY <1>6, <1>7

LEMMA RefineFollows ==
  ASSUME request \in Requests, request.cache # "steps", NEW c, NEW ca, NEW v, NEW va, NEW d, NEW db, NEW w, NEW wb,
         CudaRuns(c, ca), Follows(c, ca, v, va), CudaStep(c, ca, d, db), VulkanRefine(v, va, w, wb)
  PROVE  Follows(d, db, w, wb)
<1>1. va = "refine" BY DEF VulkanRefine
<1>2. /\ ca = "refine" /\ v.failed = FALSE /\ IsRun(v) /\ v.recorded \in 0..3 /\ v.sequence \in {"plain", "context"}
      /\ Keeps(c, v, Agreed) /\ InStep(c, v, va)
  BY <1>1 DEF Follows, Counterpart
<1>3. CudaRefine(c, ca, d, db) /\ IsRun(c) /\ c.rows["audio"] = c.input["audio"] /\ c.compute
  BY <1>2, CudaStepAt DEF CudaRuns, CudaTyped, LoopTypes, LatentsRead, DecisionsCover
<1>4. /\ v.step = c.step /\ v.inner = c.inner /\ v.chain = c.chain /\ v.asked = c.asked /\ v.log = c.log
      /\ v.computed = c.computed /\ v.compute = c.compute
  BY <1>2 DEF Keeps, Agreed
<1>5. /\ v.rows = c.input /\ v.sequence = SequenceOf(c) /\ request.inner > 0
      /\ (request.audio = "none" => v.input["audio"] = v.rows["audio"])
  BY <1>1, <1>2 DEF InStep, Effects
<1>6. request.audio = "none" /\ v.input["audio"] = v.rows["audio"] /\ ~Motion BY <1>5, SharedRequest
<1>7. Goes(v) <=> Goes(c) BY <1>4 DEF Goes
<1>8. [v.input EXCEPT !.video = v.chain] = [c.input EXCEPT !.video = c.chain]
  BY <1>2, <1>3, <1>4, <1>5, <1>6 DEF IsRun, Modalities
<1>9. VulkanPush(v) = Push(c) /\ VulkanMoving(v) = Moving(c)
  <2>1. VulkanPush(v) = Push(c) BY <1>4, <1>5, <1>8 DEF VulkanPush, Push, Candidates
  <2>2. QED BY <1>4, <2>1 DEF VulkanMoving, Moving
<1>10. CASE Goes(v)
  <2>1. /\ IsRun(w) /\ Keeps(v, w, Fields \ {"rows", "input", "velocity", "computed", "log", "asked", "cancelled",
                                             "inner", "refined", "chain"})
        /\ w.rows = IF v.inner + 1 = request.inner
                    THEN [[v.rows EXCEPT !.video = v.chain] EXCEPT !.video = VulkanMoving(v)]
                    ELSE [v.rows EXCEPT !.video = v.chain]
        /\ w.computed = v.computed + 1 /\ w.log = Append(v.log, <<"progress", v.step>>)
        /\ w.asked = v.asked + 1 /\ w.cancelled = FALSE
        /\ w.inner = v.inner + 1 /\ w.chain = VulkanMoving(v)
    BY <1>2, <1>10, VulkanRefines
  <2>2. /\ IsRun(d) /\ Keeps(c, d, Fields \ {"input", "sequence", "velocity", "computed", "log", "asked", "cancelled",
                                             "inner", "refined", "chain"})
        /\ d.input = IF c.inner + 1 = request.inner THEN [Candidates(c) EXCEPT !.video = Moving(c)] ELSE Candidates(c)
        /\ d.sequence = SequenceOf(c)
        /\ d.computed = c.computed + 1 /\ d.log = Append(c.log, <<"progress", c.step>>)
        /\ d.asked = c.asked + 1 /\ d.cancelled = FALSE
        /\ d.inner = c.inner + 1 /\ d.chain = Moving(c)
    BY <1>3, <1>7, <1>10, CudaRefines
  <2>3. /\ wb = IF v.inner + 1 = request.inner THEN "record" ELSE "refine"
        /\ db = IF c.inner + 1 = request.inner THEN "evaluate" ELSE "refine"
    BY <1>3, <1>7, <1>10 DEF VulkanRefine, CudaRefine, NextOf
  <2>4. w.rows = d.input BY <1>4, <1>5, <1>9, <2>1, <2>2 DEF Candidates
  <2>5. /\ w.computed = d.computed /\ w.log = d.log /\ w.asked = d.asked /\ w.cancelled = d.cancelled
        /\ w.inner = d.inner /\ w.chain = d.chain
    BY <1>4, <1>9, <2>1, <2>2, ZenonT(60)
  <2>6. Keeps(d, w, Agreed)
    <3> DEFINE changed == {"computed", "log", "asked", "cancelled", "inner", "chain"}
    <3>1. \A f \in Agreed \ changed : w[f] = v[f] /\ d[f] = c[f] /\ v[f] = c[f]
      BY <1>2, <2>1, <2>2 DEF Keeps, Agreed, Fields
    <3>2. \A f \in changed : w[f] = d[f] BY <2>5
    <3>3. \A f \in Agreed : w[f] = d[f] BY <3>1, <3>2
    <3>4. QED BY <3>3 DEF Keeps
  <2>7. /\ w.recorded = v.recorded /\ w.failed = v.failed /\ w.sequence = v.sequence /\ w.compute = v.compute
        /\ d.step = c.step
    BY <2>1, <2>2 DEF Keeps, Fields
  <2>8. w.input["audio"] = w.rows["audio"]
    <3>1. /\ IsRun(w) /\ w.input = [v.input EXCEPT !.video = v.chain]
      <4> DEFINE q == Candidate(v)
                 next == Langevin(v, q.velocity)
      <4>1. q = Candidate(v) OBVIOUS
      <4>2. w = [q EXCEPT !.inner = @ + 1, !.refined = @ + 1, !.chain = next,
                          !.rows.video = IF v.inner + 1 = request.inner THEN next ELSE @]
        BY <1>10 DEF VulkanRefine
      <4> HIDE DEF q, next
      <4>3. IsRun(q) /\ q.input = [v.input EXCEPT !.video = v.chain] BY <1>2, <4>1, VulkanAsking
      <4>4. w.input = q.input BY <4>2, <4>3 DEF IsRun, Fields
      <4>5. QED BY <2>1, <4>3, <4>4
    <3>2. w.input["audio"] = v.input["audio"] BY <1>2, <3>1 DEF IsRun, Modalities
    <3>3. w.rows["audio"] = v.rows["audio"] BY <1>2, <2>1 DEF IsRun, Modalities
    <3>4. QED BY <1>6, <3>2, <3>3
  <2>9. SequenceOf(d) = SequenceOf(c)
    <3>1. Tack(d) <=> Tack(c) BY <2>7, AtSameStep
    <3>2. QED BY <2>2, <3>1 DEF SequenceOf
  <2>10. v.compute = TRUE
    <3>1. c.compute \in BOOLEAN BY <1>2 DEF CudaRuns, CudaTyped, Placed
    <3>2. QED BY <1>3, <1>4, <3>1, Zenon
  <2>11. wb \in {"record", "refine"} /\ db = Counterpart(wb) BY <1>4, <2>3 DEF Counterpart
  <2>12. InStep(d, w, wb) BY <1>5, <2>4, <2>7, <2>8, <2>9, <2>10, <2>11 DEF InStep, Effects
  <2>13. QED BY <1>2, <2>1, <2>6, <2>7, <2>11, <2>12 DEF Follows
<1>11. CASE ~Goes(v)
  <2>1. /\ IsRun(w) /\ Keeps(v, w, Fields \ {"rows", "input", "velocity", "computed", "log", "asked", "cancelled", "refined"})
        /\ w.rows = [v.rows EXCEPT !.video = v.chain]
        /\ w.computed = v.computed + 1 /\ w.log = Append(v.log, <<"progress", v.step>>)
        /\ w.asked = v.asked + 1 /\ w.cancelled = TRUE
    BY <1>2, <1>11, VulkanRefineStops
  <2>2. /\ IsRun(d) /\ Keeps(c, d, Fields \ {"input", "sequence", "velocity", "computed", "log", "asked", "cancelled",
                                             "refined", "rows", "decisions"})
        /\ d.computed = c.computed + 1 /\ d.log = Append(c.log, <<"progress", c.step>>)
        /\ d.asked = c.asked + 1 /\ d.cancelled = TRUE
        /\ d.rows = [c.rows EXCEPT !.video = c.chain]
    BY <1>3, <1>7, <1>11, CudaRefineStops
  <2>3. wb = "end" /\ db = "end" BY <1>3, <1>7, <1>11 DEF VulkanRefine, CudaRefine
  <2>4. w.rows = d.rows BY <1>2, <1>3, <1>4, <1>5, <2>1, <2>2 DEF IsRun, Modalities
  <2>5. w.computed = d.computed /\ w.log = d.log /\ w.asked = d.asked /\ w.cancelled = d.cancelled
    <3>1. w.cancelled = d.cancelled BY <2>1, <2>2
    <3>2. w.computed = d.computed /\ w.asked = d.asked BY <1>4, <2>1, <2>2
    <3>3. w.log = d.log BY <1>4, <2>1, <2>2
    <3>4. QED BY <3>1, <3>2, <3>3
  <2>6. Keeps(d, w, Agreed)
    <3> DEFINE changed == {"computed", "log", "asked", "cancelled"}
    <3>1. \A f \in Agreed \ changed : w[f] = v[f] /\ d[f] = c[f] /\ v[f] = c[f]
      BY <1>2, <2>1, <2>2 DEF Keeps, Agreed, Fields
    <3>2. \A f \in changed : w[f] = d[f] BY <2>5
    <3>3. \A f \in Agreed : w[f] = d[f] BY <3>1, <3>2
    <3>4. QED BY <3>3 DEF Keeps
  <2>7. w.recorded = v.recorded /\ w.failed = v.failed /\ w.sequence = v.sequence
    BY <2>1 DEF Keeps, Fields
  <2>8. QED BY <1>2, <2>1, <2>3, <2>4, <2>6, <2>7 DEF Follows, Returns
<1>12. QED BY <1>10, <1>11

LEMMA RecordFollows ==
  ASSUME request \in Requests, request.cache # "steps", NEW c, NEW ca, NEW v, NEW va, NEW d, NEW db, NEW w, NEW wb,
         CudaRuns(c, ca), Follows(c, ca, v, va), CudaStep(c, ca, d, db), VulkanRecord(v, va, w, wb)
  PROVE  Follows(d, db, w, wb)
<1>1. va = "record" BY DEF VulkanRecord
<1>2. /\ ca = "evaluate" /\ v.failed = FALSE /\ IsRun(v) /\ v.recorded \in 0..3 /\ v.sequence \in {"plain", "context"}
      /\ Keeps(c, v, Agreed) /\ InStep(c, v, va)
  BY <1>1 DEF Follows, Counterpart
<1>3. CudaEvaluate(c, ca, d, db) /\ IsRun(c) BY <1>2, CudaStepAt DEF CudaRuns, CudaTyped, LoopTypes
<1>4. /\ v.step = c.step /\ v.compute = c.compute /\ v.computed = c.computed /\ v.skipped = c.skipped
      /\ v.updates = c.updates /\ v.residual = c.residual /\ v.seen = c.seen
  BY <1>2 DEF Keeps, Agreed
<1>5. /\ v.rows = c.input /\ v.sequence = SequenceOf(c)
      /\ (v.compute = TRUE \/ (v.compute = FALSE /\ Motion /\ v.velocity = Reused(v, v.rows)))
  BY <1>1, <1>2 DEF InStep, Effects
<1>6. /\ wb = IF request.effect THEN "effect" ELSE "preview"
      /\ db = IF request.effect THEN "effect_video" ELSE "preview"
  BY <1>3 DEF VulkanRecord, CudaEvaluate
<1>7. db = Counterpart(wb) /\ wb \in {"effect", "preview"} /\ (wb = "effect" => request.effect)
  BY <1>6 DEF Counterpart
<1>8. Copies \in 0..2 BY DEF Copies
<1>9. CASE v.compute = TRUE
  <2>1. /\ IsRun(w)
        /\ Keeps(v, w, Fields \ {"input", "velocity", "computed", "updates", "residual", "seen", "recorded"})
        /\ w.velocity = Answer(v.step, v.sequence, v.rows) /\ w.computed = v.computed + 1
        /\ w.updates = IF Motion THEN v.updates + 1 ELSE v.updates
        /\ w.residual = IF Motion THEN Residuals(v.rows, w.velocity) ELSE v.residual
        /\ w.seen = IF Motion THEN Append(Append(v.seen, v.rows), w.velocity) ELSE v.seen
        /\ w.recorded = IF Motion THEN 0 ELSE Copies + 1
    BY <1>2, <1>9, VulkanRecords
  <2>2. /\ IsRun(d)
        /\ Keeps(c, d, Fields \ {"sequence", "velocity", "computed", "updates", "residual", "seen", "used"})
        /\ d.sequence = SequenceOf(c) /\ d.velocity = Answer(c.step, SequenceOf(c), c.input) /\ d.used = d.velocity
        /\ d.computed = c.computed + 1
        /\ d.updates = IF Motion THEN c.updates + 1 ELSE c.updates
        /\ d.residual = IF Motion THEN Residuals(c.input, d.velocity) ELSE c.residual
        /\ d.seen = IF Motion THEN Append(Append(c.seen, c.input), d.velocity) ELSE c.seen
    BY <1>3, <1>4, <1>9, CudaEvaluates
  <2>3. w.velocity = d.velocity BY <1>4, <1>5, <2>1, <2>2
  <2>4. w.computed = d.computed /\ w.updates = d.updates /\ w.residual = d.residual /\ w.seen = d.seen
    BY <1>4, <1>5, <2>1, <2>2, <2>3
  <2>5. Keeps(d, w, Agreed) BY <1>2, <2>1, <2>2, <2>4 DEF Keeps, Agreed, Fields
  <2>6. w.rows = v.rows /\ w.sequence = v.sequence /\ w.failed = v.failed /\ d.input = c.input
    BY <2>1, <2>2 DEF Keeps, Fields
  <2>7. w.input = v.rows
    <3> DEFINE e == Evaluates([v EXCEPT !.input = v.rows])
               q == MotionUpdate(e, v.rows, e.velocity)
               n == IF Motion THEN 0 ELSE Copies + 1
    <3>1. w = [q EXCEPT !.recorded = n] /\ q = MotionUpdate(e, v.rows, e.velocity)
      BY <1>9 DEF VulkanRecord
    <3>2. IsRun(e) /\ e.input = v.rows
      <4> DEFINE i == [v EXCEPT !.input = v.rows]
      <4>1. IsRun(i) /\ i.input = v.rows BY <1>2 DEF IsRun, Fields
      <4>2. e = Evaluates(i) OBVIOUS
      <4> HIDE DEF i, e
      <4>3. IsRun(e) /\ Keeps(i, e, Fields \ {"velocity", "computed"})
        BY <4>1, <4>2, EvaluatingOnVulkan
      <4>4. QED BY <4>1, <4>3 DEF Keeps, Fields
    <3> HIDE DEF e, q, n
    <3>3. IsRun(q) /\ Keeps(e, q, Learned) BY <3>1, <3>2, Updating
    <3>4. q.input = v.rows BY <3>2, <3>3 DEF Keeps, Fields, Learned
    <3>5. QED BY <3>1, <3>3, <3>4 DEF IsRun, Fields
  <2>8. InStep(d, w, wb) BY <1>5, <1>7, <2>2, <2>3, <2>6, <2>7 DEF InStep, Effects
  <2>9. w.recorded \in 0..3 BY <1>8, <2>1
  <2>10. QED BY <1>2, <1>7, <2>1, <2>5, <2>6, <2>8, <2>9 DEF Follows
<1>10. CASE v.compute = FALSE /\ Motion /\ v.velocity = Reused(v, v.rows)
  <2>1. /\ IsRun(w) /\ Keeps(v, w, Fields \ {"input", "skipped", "recorded"}) /\ w.skipped = v.skipped + 1
        /\ w.recorded = Copies
    BY <1>2, <1>10, VulkanSkips
  <2>2. /\ IsRun(d) /\ Keeps(c, d, Fields \ {"velocity", "skipped", "used"})
        /\ d.velocity = Reused(c, c.input) /\ d.used = d.velocity /\ d.skipped = c.skipped + 1
    BY <1>3, <1>4, <1>10, CudaSkips
  <2>3. Keeps(d, w, Agreed) BY <1>2, <1>4, <2>1, <2>2 DEF Keeps, Agreed, Fields
  <2>4. /\ w.rows = v.rows /\ w.sequence = v.sequence /\ w.failed = v.failed /\ w.velocity = v.velocity
        /\ d.input = c.input /\ d.sequence = c.sequence
    BY <2>1, <2>2 DEF Keeps, Fields
  <2>5. w.velocity = d.velocity BY <1>4, <1>5, <1>10, <2>2, <2>4 DEF Reused
  <2>6. w.sequence = d.sequence BY <1>5, <1>10, <2>4, SharedRequest DEF SequenceOf
  <2>7. w.input = v.rows BY <1>2, <1>10 DEF VulkanRecord, IsRun, Fields
  <2>8. InStep(d, w, wb) BY <1>5, <1>7, <2>2, <2>4, <2>5, <2>6, <2>7 DEF InStep, Effects
  <2>9. QED BY <1>2, <1>7, <1>8, <2>1, <2>3, <2>4, <2>8 DEF Follows
<1>11. QED BY <1>5, <1>9, <1>10

\* Refusing a batch ends Vulkan's run where it was; waiting for one has no counterpart.
LEMMA RefusedFollows ==
  ASSUME NEW c, NEW ca, NEW v, NEW va, NEW w, NEW wb, Follows(c, ca, v, va), VulkanRefused(v, va, w, wb)
  PROVE  Follows(c, ca, w, wb)
<1>1. IsRun(v) /\ v.recorded \in 0..3 /\ v.sequence \in {"plain", "context"} /\ Keeps(c, v, Agreed) /\ wb = "end"
  BY DEF Follows, VulkanRefused
<1>2. IsRun(w) /\ Keeps(v, w, Fields \ {"failed"}) /\ w.failed = TRUE BY <1>1, VulkanRefuses
<1>3. w.recorded = v.recorded /\ w.sequence = v.sequence /\ Keeps(c, w, Agreed)
  BY <1>1, <1>2 DEF Keeps, Fields, Agreed
<1>4. QED BY <1>1, <1>2, <1>3 DEF Follows

LEMMA SyncFollows ==
  ASSUME NEW c, NEW ca, NEW v, NEW va, NEW w, NEW wb, Follows(c, ca, v, va), VulkanSync(v, va, w, wb)
  PROVE  Follows(c, ca, w, wb)
<1>1. va = "effect" /\ wb = "effect_video" BY DEF VulkanSync
<1>2. /\ ca = "effect_video" /\ v.failed = FALSE /\ IsRun(v) /\ v.sequence \in {"plain", "context"}
      /\ Keeps(c, v, Agreed) /\ InStep(c, v, va)
  BY <1>1 DEF Follows, Counterpart
<1>3. IsRun(w) /\ Keeps(v, w, Fields \ {"recorded"}) /\ w.recorded = 0 BY <1>2, VulkanSyncs
<1>4. /\ w.failed = v.failed /\ w.sequence = v.sequence /\ w.rows = v.rows /\ w.velocity = v.velocity
      /\ w.input = v.input /\ Keeps(c, w, Agreed)
  BY <1>2, <1>3 DEF Keeps, Fields, Agreed
<1>5. InStep(c, w, wb) BY <1>1, <1>2, <1>4 DEF InStep, Effects
<1>6. QED BY <1>1, <1>2, <1>3, <1>4, <1>5 DEF Follows, Counterpart

LEMMA EffectFollows ==
  ASSUME request \in Requests, NEW c, NEW ca, NEW v, NEW va, NEW d, NEW db, NEW w, NEW wb,
         NEW m, NEW place, NEW next,
         (m = "video" /\ place = "effect_video" /\ next = "effect_audio")
           \/ (m = "audio" /\ place = "effect_audio" /\ next = "preview"),
         CudaRuns(c, ca), Follows(c, ca, v, va), CudaEffect(m, place, next, c, ca, d, db),
         VulkanEffect(m, place, next, v, va, w, wb)
  PROVE  Follows(d, db, w, wb)
<1>1. va = place /\ ca = place /\ va \in {"effect_video", "effect_audio"}
  BY DEF VulkanEffect, CudaEffect
<1>2. /\ v.failed = FALSE /\ IsRun(v) /\ v.recorded \in 0..3 /\ v.sequence \in {"plain", "context"}
      /\ Keeps(c, v, Agreed) /\ InStep(c, v, va)
  BY <1>1 DEF Follows
<1>3. IsRun(c) /\ c.cancelled = FALSE /\ (request.inner = 0 => c.rows = c.input) /\ request.inner \in Nat
  BY <1>1, RequestFacts DEF CudaRuns, CudaTyped, LoopTypes, Placed, LatentsRead
<1>4. v.step = c.step /\ v.asked = c.asked /\ v.log = c.log /\ v.cancelled = c.cancelled
  BY <1>2 DEF Keeps, Agreed
<1>5. /\ v.rows = c.input /\ v.sequence = c.sequence /\ v.velocity = c.used
      /\ v.velocity[m] = c.velocity[m] /\ v.velocity["audio"] = c.velocity["audio"]
      /\ (request.audio = "none" => v.input["audio"] = v.rows["audio"]) /\ request.effect
  BY <1>1, <1>2 DEF InStep, Effects
<1>6. (Goes(v) <=> Goes(c)) /\ Advancing(v) = Advancing(c) BY <1>4, AtSameStep DEF Goes
<1>7. wb = (IF w.cancelled THEN "end" ELSE next) /\ db = (IF d.cancelled THEN "end" ELSE next)
  BY DEF VulkanEffect, CudaEffect, Unless
<1>8. /\ Keeps(d, w, Agreed) /\ IsRun(w) /\ w.velocity = d.used /\ w.cancelled \in BOOLEAN
      /\ w.rows = v.rows /\ w.input = v.input /\ w.sequence = v.sequence /\ w.failed = v.failed /\ w.recorded = v.recorded
      /\ d.rows = c.rows /\ d.input = c.input /\ d.sequence = c.sequence
      /\ m = "video" => w.velocity["audio"] = d.velocity["audio"]
  <2>1. CASE m \in Advancing(v)
    <3>1. /\ IsRun(w) /\ Keeps(v, w, Fields \ {"log", "asked", "cancelled", "velocity"})
          /\ w.log = Append(v.log, EffectCall(v, m, v.rows[m], v.velocity[m]))
          /\ w.asked = v.asked + 1 /\ w.cancelled = ~Goes(v)
          /\ w.velocity = [v.velocity EXCEPT ![m] = IF Goes(v) THEN Effect(v.rows[m], v.velocity[m]) ELSE v.velocity[m]]
      BY <1>2, <2>1, VulkanEffects
    <3>2. /\ IsRun(d) /\ Keeps(c, d, Fields \ {"log", "asked", "cancelled", "used"})
          /\ d.log = Append(c.log, EffectCall(c, m, c.input[m], c.velocity[m]))
          /\ d.asked = c.asked + 1 /\ d.cancelled = ~Goes(c)
          /\ d.used = [c.used EXCEPT ![m] = IF Goes(c) THEN Effect(c.input[m], c.velocity[m]) ELSE @]
      <4>1. m \in Advancing(c) BY <1>6, <2>1
      <4>2. QED BY <1>3, <4>1, CudaEffects
    <3>3. w.velocity = d.used BY <1>5, <1>6, <3>1, <3>2
    <3>4. w.cancelled = d.cancelled /\ w.cancelled \in BOOLEAN BY <1>6, <3>1, <3>2, Zenon
    <3>5. EffectCall(v, m, v.rows[m], v.velocity[m]) = EffectCall(c, m, c.input[m], c.velocity[m])
      BY <1>4, <1>5, AtSameStep
    <3>6. w.log = d.log /\ w.asked = d.asked BY <1>4, <3>1, <3>2, <3>5
    <3>7. Keeps(d, w, Agreed)
      <4> DEFINE changed == {"log", "asked", "cancelled"}
      <4>1. \A f \in Agreed \ changed : w[f] = v[f] /\ d[f] = c[f] /\ v[f] = c[f]
        BY <1>2, <3>1, <3>2 DEF Keeps, Agreed, Fields
      <4>2. \A f \in changed : w[f] = d[f] BY <3>4, <3>6
      <4>3. \A f \in Agreed : w[f] = d[f] BY <4>1, <4>2
      <4>4. QED BY <4>3 DEF Keeps
    <3>8. /\ w.rows = v.rows /\ w.input = v.input /\ w.sequence = v.sequence /\ w.failed = v.failed /\ w.recorded = v.recorded
          /\ d.rows = c.rows /\ d.input = c.input /\ d.sequence = c.sequence /\ d.velocity = c.velocity
      BY <3>1, <3>2 DEF Keeps, Fields
    <3>9. m = "video" => w.velocity["audio"] = v.velocity["audio"]
      BY <1>2, <3>1 DEF IsRun, Modalities
    <3>10. QED BY <1>5, <3>1, <3>3, <3>4, <3>7, <3>8, <3>9
  <2>2. CASE m \notin Advancing(v)
    <3>1. w = v /\ d = c BY <1>6, <2>2 DEF VulkanEffect, CudaEffect
    <3>2. v.cancelled \in BOOLEAN BY <1>3, <1>4
    <3>3. QED BY <1>2, <1>5, <3>1, <3>2
  <2>3. QED BY <2>1, <2>2
<1>9. w.cancelled = d.cancelled BY <1>8 DEF Keeps, Agreed
<1>10. CASE w.cancelled = TRUE
  <2>1. wb = "end" /\ db = "end" BY <1>7, <1>9, <1>10
  <2>2. request.effect BY <1>1, <1>2 DEF InStep, Effects
  <2>3. Returns(d, w) BY <1>3, <1>5, <1>8, <1>10, <2>2 DEF Returns
  <2>4. QED BY <1>2, <1>8, <2>1, <2>3 DEF Follows
<1>11. CASE w.cancelled = FALSE
  <2>1. wb = next /\ db = next /\ next \in {"effect_audio", "preview"} BY <1>7, <1>9, <1>11
  <2>2. InStep(d, w, wb) BY <1>5, <1>8, <2>1 DEF InStep, Effects
  <2>3. QED BY <1>2, <1>8, <2>1, <2>2 DEF Follows, Counterpart
<1>12. QED BY <1>8, <1>10, <1>11, Zenon

LEMMA PreviewFollows ==
  ASSUME request \in Requests, NEW c, NEW ca, NEW v, NEW va, NEW d, NEW db, NEW w, NEW wb,
         CudaRuns(c, ca), Follows(c, ca, v, va), CudaStep(c, ca, d, db), VulkanPreview(v, va, w, wb)
  PROVE  Follows(d, db, w, wb)
<1>1. va = "preview" /\ wb = "update" BY DEF VulkanPreview
<1>2. /\ ca = "preview" /\ v.failed = FALSE /\ IsRun(v) /\ v.recorded \in 0..3 /\ v.sequence \in {"plain", "context"}
      /\ Keeps(c, v, Agreed) /\ InStep(c, v, va)
  BY <1>1 DEF Follows, Counterpart
<1>3. CudaPreview(c, ca, d, db) /\ IsRun(c) /\ db = "update"
  BY <1>2, CudaStepAt DEF CudaRuns, CudaTyped, LoopTypes, CudaPreview
<1>4. v.step = c.step /\ v.log = c.log BY <1>2 DEF Keeps, Agreed
<1>5. /\ v.rows = c.input /\ v.sequence = c.sequence /\ v.velocity = c.used
      /\ (request.audio = "none" => v.input["audio"] = v.rows["audio"])
  BY <1>1, <1>2 DEF InStep, Effects
<1>6. /\ IsRun(w) /\ Keeps(v, w, Fields \ {"log", "recorded"})
      /\ w.log = IF request.preview /\ "video" \in Advancing(v)
                 THEN Append(v.log, PreviewCall(v, v.rows.video, v.velocity.video)) ELSE v.log
      /\ w.recorded = IF request.preview /\ "video" \in Advancing(v) THEN 0 ELSE v.recorded
  BY <1>2, VulkanPreviews
<1>7. /\ IsRun(d) /\ Keeps(c, d, Fields \ {"log"})
      /\ d.log = IF request.preview /\ "video" \in Advancing(c)
                 THEN Append(c.log, PreviewCall(c, c.input.video, c.used.video)) ELSE c.log
  BY <1>3, CudaPreviews
<1>8. PreviewCall(v, v.rows.video, v.velocity.video) = PreviewCall(c, c.input.video, c.used.video)
      /\ Advancing(v) = Advancing(c)
  BY <1>4, <1>5, AtSameStep
<1>9. w.log = d.log BY <1>4, <1>6, <1>7, <1>8
<1>10. Keeps(d, w, Agreed) BY <1>2, <1>6, <1>7, <1>9 DEF Keeps, Agreed, Fields
<1>11. /\ w.rows = v.rows /\ w.input = v.input /\ w.sequence = v.sequence /\ w.failed = v.failed /\ w.velocity = v.velocity
       /\ d.input = c.input /\ d.sequence = c.sequence /\ d.used = c.used
  BY <1>6, <1>7 DEF Keeps, Fields
<1>12. InStep(d, w, wb) BY <1>1, <1>5, <1>11 DEF InStep, Effects
<1>13. w.recorded \in 0..3 BY <1>2, <1>6
<1>14. QED BY <1>1, <1>2, <1>3, <1>6, <1>10, <1>11, <1>12, <1>13 DEF Follows, Counterpart

LEMMA UpdateFollows ==
  ASSUME request \in Requests, request.cache # "steps", NEW c, NEW ca, NEW v, NEW va, NEW d, NEW db, NEW w, NEW wb,
         CudaRuns(c, ca), Follows(c, ca, v, va), CudaStep(c, ca, d, db), VulkanUpdate(v, va, w, wb)
  PROVE  Follows(d, db, w, wb)
<1>1. va = "update" /\ wb = "report" BY DEF VulkanUpdate
<1>2. /\ ca = "update" /\ v.failed = FALSE /\ IsRun(v) /\ v.sequence \in {"plain", "context"}
      /\ Keeps(c, v, Agreed) /\ InStep(c, v, va)
  BY <1>1 DEF Follows, Counterpart
<1>3. /\ CudaUpdate(c, ca, d, db) /\ IsRun(c) /\ db = "report" /\ c.step \in Nat /\ c.step < Steps
      /\ c.rows["audio"] = c.input["audio"] /\ (request.inner = 0 => c.rows = c.input)
  BY <1>2, CudaStepAt DEF CudaRuns, CudaTyped, LoopTypes, CudaUpdate, Placed, Within, LatentsRead
<1>4. v.step = c.step /\ v.previous = c.previous BY <1>2 DEF Keeps, Agreed
<1>5. /\ v.rows = c.input /\ v.sequence = c.sequence /\ v.velocity = c.used
      /\ (request.audio = "none" => v.input["audio"] = v.rows["audio"])
  BY <1>1, <1>2 DEF InStep, Effects
<1>6. /\ IsRun(w) /\ Keeps(v, w, Fields \ {"rows", "noise", "previous", "recorded"})
      /\ w.rows = VulkanRows(v) /\ w.recorded = 0
      /\ w.previous = [m \in Modalities |-> IF m \in Advancing(v)
                         THEN Remembered(v, m, v.rows[m], v.velocity[m]) ELSE v.previous[m]]
  BY <1>2, VulkanUpdates
<1>7. /\ IsRun(d) /\ Keeps(c, d, Fields \ {"rows", "input", "noise", "previous"})
      /\ d.rows = CudaRows(c) /\ d.input = CudaRows(c)
      /\ d.previous = [m \in Modalities |-> IF m \in Advancing(c)
                         THEN Remembered(c, m, c.input[m], c.used[m]) ELSE c.previous[m]]
  BY <1>3, CudaUpdates
<1>8. Advancing(v) = Advancing(c) /\ \A m, x, y : Remembered(v, m, x, y) = Remembered(c, m, x, y)
  BY <1>4, AtSameStep
<1>9. w.previous = d.previous BY <1>4, <1>5, <1>6, <1>7, <1>8
<1>10. \A m \in Modalities : m \notin Advancing(c) => c.rows[m] = c.input[m]
  <2>1. CASE request.inner = 0 BY <1>3, <2>1
  <2>2. CASE request.inner # 0
    <3>1. request.audio = "none" BY <2>2, SharedRequest
    <3>2. "video" \in Advancing(c) BY <1>3, <3>1, RefinedAdvance
    <3>3. QED BY <1>3, <3>2 DEF Modalities
  <2>3. QED BY <2>1, <2>2
<1>11. \A m \in Modalities : m \in Advancing(c) => VulkanUpdated(v, m, NoiseOf(v, m)) = CudaUpdated(c, m)
  <2>1. SUFFICES ASSUME NEW m \in Modalities, m \in Advancing(c)
                 PROVE  VulkanUpdated(v, m, NoiseOf(v, m)) = CudaUpdated(c, m)
    OBVIOUS
  <2>2. /\ VulkanUpdated(v, m, NoiseOf(v, m)) = Renewed(v, m, v.rows[m], v.velocity[m], v.previous[m], NoiseOf(v, m))
        /\ Drawn(v, m, NoiseOf(v, m))
    BY <1>8, <2>1, VulkanRenews
  <2>3. PICK n : CudaUpdated(c, m) = Renewed(c, m, c.input[m], c.used[m], c.previous[m], n) /\ Drawn(c, m, n)
    BY CudaRenews
  <2>4. \A x, y, p, i : Renewed(v, m, x, y, p, i) = Renewed(c, m, x, y, p, i)
    <3>1. /\ \A x, y, z, u : SchedulerStep(v, m, x, y, z, u) = SchedulerStep(c, m, x, y, z, u)
          /\ \A x, y : InpaintApply(v, x, y) = InpaintApply(c, x, y)
          /\ \A x : Overlap(v, m, x) = Overlap(c, m, x)
      BY <1>4, AtSameStep
    <3>2. QED BY <3>1 DEF Renewed
  <2>5. Drawn(c, m, NoiseOf(v, m))
    <3>1. (IsLast(v, m) <=> IsLast(c, m)) /\ Now(v) = Now(c) BY <1>4, AtSameStep
    <3>2. QED BY <2>2, <3>1 DEF Drawn
  <2>6. request.sampler \in Samplers BY SharedRequest
  <2>7. Renewed(c, m, c.input[m], c.used[m], c.previous[m], NoiseOf(v, m))
          = Renewed(c, m, c.input[m], c.used[m], c.previous[m], n)
    BY <2>3, <2>5, <2>6, NoiseIsTheSteps
  <2>8. QED BY <1>4, <1>5, <2>2, <2>3, <2>4, <2>7
<1>12. VulkanRows(v) = CudaRows(c) BY <1>5, <1>8, <1>10, <1>11 DEF VulkanRows, CudaRows
<1>13. Keeps(d, w, Agreed) BY <1>2, <1>6, <1>7, <1>9 DEF Keeps, Agreed, Fields
<1>14. w.input = v.input /\ w.sequence = v.sequence /\ w.failed = v.failed /\ d.sequence = c.sequence
  BY <1>6, <1>7 DEF Keeps, Fields
<1>15. request.audio = "none" => w.rows["audio"] = v.rows["audio"]
  <2>1. request.audio = "none" => "audio" \notin Advancing(v) BY <1>3, <1>8, RefinedAdvance
  <2>2. QED BY <1>6, <2>1 DEF VulkanRows, Modalities
<1>16. InStep(d, w, wb) BY <1>1, <1>5, <1>6, <1>7, <1>12, <1>14, <1>15 DEF InStep, Effects
<1>17. QED BY <1>1, <1>2, <1>3, <1>6, <1>13, <1>14, <1>16 DEF Follows, Counterpart

LEMMA ReportFollows ==
  ASSUME request \in Requests, NEW c, NEW ca, NEW v, NEW va, NEW d, NEW db, NEW w, NEW wb,
         CudaRuns(c, ca), Follows(c, ca, v, va), CudaStep(c, ca, d, db), Report(v, va, w, wb)
  PROVE  Follows(d, db, w, wb)
<1>1. va = "report" /\ wb = IF w.cancelled THEN "end" ELSE "decide" BY DEF Report, Unless
<1>2. /\ ca = "report" /\ v.failed = FALSE /\ IsRun(v) /\ v.recorded \in 0..3 /\ v.sequence \in {"plain", "context"}
      /\ Keeps(c, v, Agreed) /\ InStep(c, v, va)
  BY <1>1 DEF Follows, Counterpart
<1>3. Report(c, ca, d, db) /\ IsRun(c) /\ c.rows = c.input /\ db = IF d.cancelled THEN "end" ELSE "decide"
  BY <1>2, CudaStepAt DEF CudaRuns, CudaTyped, LoopTypes, LatentsRead, Report, Unless
<1>4. v.step = c.step /\ v.log = c.log /\ v.asked = c.asked BY <1>2 DEF Keeps, Agreed
<1>5. /\ v.rows = c.input /\ v.sequence = c.sequence
      /\ (request.audio = "none" => v.input["audio"] = v.rows["audio"])
  BY <1>1, <1>2 DEF InStep, Effects
<1>6. /\ IsRun(w) /\ Keeps(v, w, Fields \ {"log", "asked", "cancelled", "step"}) /\ w.step = v.step + 1
      /\ w.log = Append(Append(v.log, <<"boundary", v.step, v.rows>>), <<"progress", v.step>>)
      /\ w.asked = v.asked + 1 /\ w.cancelled = ~Goes(v)
  BY <1>2, Reports
<1>7. /\ IsRun(d) /\ Keeps(c, d, Fields \ {"log", "asked", "cancelled", "step"}) /\ d.step = c.step + 1
      /\ d.log = Append(Append(c.log, <<"boundary", c.step, c.rows>>), <<"progress", c.step>>)
      /\ d.asked = c.asked + 1 /\ d.cancelled = ~Goes(c)
  BY <1>3, Reports
<1>8. Goes(v) <=> Goes(c) BY <1>4 DEF Goes
<1>9. w.cancelled = d.cancelled /\ w.cancelled \in BOOLEAN BY <1>6, <1>7, <1>8, Zenon
<1>10. w.step = d.step /\ w.asked = d.asked /\ w.log = d.log BY <1>3, <1>4, <1>5, <1>6, <1>7
<1>11. Keeps(d, w, Agreed)
  <2> DEFINE changed == {"log", "asked", "cancelled", "step"}
  <2>1. \A f \in Agreed \ changed : w[f] = v[f] /\ d[f] = c[f] /\ v[f] = c[f]
    BY <1>2, <1>6, <1>7 DEF Keeps, Agreed, Fields
  <2>2. \A f \in changed : w[f] = d[f] BY <1>9, <1>10
  <2>3. \A f \in Agreed : w[f] = d[f] BY <2>1, <2>2
  <2>4. QED BY <2>3 DEF Keeps
<1>12. /\ w.rows = v.rows /\ w.input = v.input /\ w.sequence = v.sequence /\ w.failed = v.failed /\ w.recorded = v.recorded
       /\ d.rows = c.rows /\ d.input = c.input /\ d.sequence = c.sequence
  BY <1>6, <1>7 DEF Keeps, Fields
<1>13. (wb = "end" /\ db = "end") \/ (wb = "decide" /\ db = "decide") BY <1>1, <1>3, <1>9, Zenon
<1>14. CASE wb = "end" /\ db = "end"
  <2>1. Returns(d, w) BY <1>3, <1>5, <1>12 DEF Returns
  <2>2. QED BY <1>2, <1>6, <1>11, <1>12, <1>14, <2>1 DEF Follows
<1>15. CASE wb = "decide" /\ db = "decide"
  <2>1. InStep(d, w, wb) BY <1>5, <1>12, <1>15 DEF InStep, Effects
  <2>2. QED BY <1>2, <1>6, <1>11, <1>12, <1>15, <2>1 DEF Follows, Counterpart
<1>16. QED BY <1>13, <1>14, <1>15

LEMMA VulkanStepFollows ==
  ASSUME request \in Requests, request.cache # "steps", NEW c, NEW ca, NEW v, NEW va, NEW w, NEW wb,
         CudaRuns(c, ca), Follows(c, ca, v, va), VulkanStep(v, va, w, wb)
  PROVE  \/ Follows(c, ca, w, wb)
         \/ ca # "end" /\ \A d, db : CudaStep(c, ca, d, db) => Follows(d, db, w, wb)
<1>1. CASE VulkanRefused(v, va, w, wb) BY <1>1, RefusedFollows
<1>2. CASE VulkanSync(v, va, w, wb) BY <1>2, SyncFollows
<1>3. CASE ~VulkanRefused(v, va, w, wb) /\ ~VulkanSync(v, va, w, wb)
  <2>1. va \in {"decide", "refine", "record", "effect_video", "effect_audio", "preview", "update", "report"}
    <3>1. /\ VulkanDecide(v, va, w, wb) => va = "decide"
          /\ VulkanRefine(v, va, w, wb) => va = "refine"
          /\ VulkanRecord(v, va, w, wb) => va = "record"
          /\ VulkanEffect("video", "effect_video", "effect_audio", v, va, w, wb) => va = "effect_video"
          /\ VulkanEffect("audio", "effect_audio", "preview", v, va, w, wb) => va = "effect_audio"
          /\ VulkanPreview(v, va, w, wb) => va = "preview"
          /\ VulkanUpdate(v, va, w, wb) => va = "update"
          /\ Report(v, va, w, wb) => va = "report"
      BY Zenon DEF VulkanDecide, VulkanRefine, VulkanRecord, VulkanEffect, VulkanPreview, VulkanUpdate, Report
    <3>2. QED BY <1>3, <3>1 DEF VulkanStep
  <2>2. ca = Counterpart(va) /\ ca # "end" BY <2>1 DEF Follows, Counterpart
  <2>3. ASSUME NEW d, NEW db, CudaStep(c, ca, d, db) PROVE Follows(d, db, w, wb)
    <3>1. CASE VulkanDecide(v, va, w, wb) BY <2>3, <3>1, DecideFollows
    <3>2. CASE VulkanRefine(v, va, w, wb) BY <2>3, <3>2, RefineFollows
    <3>3. CASE VulkanRecord(v, va, w, wb) BY <2>3, <3>3, RecordFollows
    <3>4. CASE VulkanEffect("video", "effect_video", "effect_audio", v, va, w, wb)
      <4>1. ca = "effect_video" BY <2>2, <3>4 DEF VulkanEffect, Counterpart
      <4>2. CudaEffect("video", "effect_video", "effect_audio", c, ca, d, db)
        BY <2>3, <4>1, CudaStepAt
      <4>3. QED BY <3>4, <4>2, EffectFollows
    <3>5. CASE VulkanEffect("audio", "effect_audio", "preview", v, va, w, wb)
      <4>1. ca = "effect_audio" BY <2>2, <3>5 DEF VulkanEffect, Counterpart
      <4>2. CudaEffect("audio", "effect_audio", "preview", c, ca, d, db) BY <2>3, <4>1, CudaStepAt
      <4>3. QED BY <3>5, <4>2, EffectFollows
    <3>6. CASE VulkanPreview(v, va, w, wb) BY <2>3, <3>6, PreviewFollows
    <3>7. CASE VulkanUpdate(v, va, w, wb) BY <2>3, <3>7, UpdateFollows
    <3>8. CASE Report(v, va, w, wb) BY <2>3, <3>8, ReportFollows
    <3>9. QED BY <1>3, <3>1, <3>2, <3>3, <3>4, <3>5, <3>6, <3>7, <3>8, Zenon DEF VulkanStep
  <2>4. QED BY <2>2, <2>3
<1>4. QED BY <1>1, <1>2, <1>3

-----------------------------------------------------------------------------
(* The request never changes, and everything about the loops is of it.     *)

LEMMA RequestStays ==
  ASSUME request' = request
  PROVE  /\ HasAudio' = HasAudio /\ Pinned' = Pinned /\ Generated' = Generated /\ Stochastic' = Stochastic
         /\ Renoise' = Renoise /\ Motion' = Motion /\ Continued' = Continued
         /\ Schedule' = Schedule /\ Steps' = Steps /\ Copies' = Copies
         /\ \A r : Now(r)' = Now(r) /\ Advancing(r)' = Advancing(r) /\ Tack(r)' = Tack(r)
         /\ \A r, m : IsLast(r, m)' = IsLast(r, m)
<1>1. Schedule' = Schedule BY DEF Schedule
<1>2. Steps' = Steps BY <1>1 DEF Steps
<1>3. \A r : Now(r)' = Now(r) BY <1>1 DEF Now
<1>4. /\ HasAudio' = HasAudio /\ Pinned' = Pinned /\ Generated' = Generated /\ Stochastic' = Stochastic
      /\ Renoise' = Renoise /\ Motion' = Motion /\ Continued' = Continued
  BY DEF HasAudio, Pinned, Generated, Stochastic, Renoise, Motion, Continued
<1>5. Copies' = Copies BY <1>4 DEF Copies
<1>6. \A r : Advancing(r)' = Advancing(r) /\ Tack(r)' = Tack(r) BY <1>3, <1>4 DEF Advancing, Tack
<1>7. \A r, m : IsLast(r, m)' = IsLast(r, m) BY <1>3 DEF IsLast
<1>8. QED BY <1>1, <1>2, <1>3, <1>4, <1>5, <1>6, <1>7

LEMMA OperatorsStay ==
  ASSUME request' = request, NEW r
  PROVE  /\ Goes(r)' = Goes(r) /\ ShouldCompute(r)' = ShouldCompute(r) /\ SequenceOf(r)' = SequenceOf(r)
         /\ \A e : Ask(r, e)' = Ask(r, e)
         /\ \A i : Forward(r, i)' = Forward(r, i)
         /\ Evaluated(r)' = Evaluated(r)
         /\ \A c, l : Decided(r, c, l)' = Decided(r, c, l)
         /\ \A l, v : MotionUpdate(r, l, v)' = MotionUpdate(r, l, v)
         /\ \A m, x, y : EffectCall(r, m, x, y)' = EffectCall(r, m, x, y)
         /\ \A x, y : PreviewCall(r, x, y)' = PreviewCall(r, x, y)
         /\ \A m : CudaUpdated(r, m)' = CudaUpdated(r, m)
         /\ \A m, x : StepNoise(r, m, x)' = StepNoise(r, m, x)
         /\ \A m, x, y : Remembered(r, m, x, y)' = Remembered(r, m, x, y)
<1>1. Goes(r)' = Goes(r) /\ ShouldCompute(r)' = ShouldCompute(r) /\ SequenceOf(r)' = SequenceOf(r)
  BY RequestStays DEF Goes, ShouldCompute, SequenceOf
<1>2. \A e : Ask(r, e)' = Ask(r, e) BY <1>1 DEF Ask, Call
<1>3. \A q, i : Forward(q, i)' = Forward(q, i)
  <2> TAKE q, i
  <2>1. AudioTime(q)' = AudioTime(q) BY RequestStays DEF AudioTime
  <2>2. QED BY <2>1, RequestStays DEF Forward
<1>4. Evaluated(r)' = Evaluated(r) BY <1>3, RequestStays DEF Evaluated
<1>5. \A c, l : Decided(r, c, l)' = Decided(r, c, l) BY RequestStays DEF Decided
<1>6. \A l, v : MotionUpdate(r, l, v)' = MotionUpdate(r, l, v)
  BY RequestStays DEF MotionUpdate, Residual
<1>7. /\ \A m, x, y : EffectCall(r, m, x, y)' = EffectCall(r, m, x, y)
      /\ \A x, y : PreviewCall(r, x, y)' = PreviewCall(r, x, y)
  BY RequestStays DEF EffectCall, PreviewCall
<1>8. /\ \A m, x : StepNoise(r, m, x)' = StepNoise(r, m, x)
      /\ \A m, x, y : Remembered(r, m, x, y)' = Remembered(r, m, x, y)
  BY RequestStays DEF StepNoise, Remembered
<1>9. \A m : CudaUpdated(r, m)' = CudaUpdated(r, m)
  <2> TAKE m
  <2>1. \A x, y, z, w : SchedulerStep(r, m, x, y, z, w)' = SchedulerStep(r, m, x, y, z, w)
    BY RequestStays DEF SchedulerStep
  <2>2. \A x, y : InpaintApply(r, x, y)' = InpaintApply(r, x, y) BY RequestStays DEF InpaintApply
  <2>3. \A x : Overlap(r, m, x)' = Overlap(r, m, x) BY RequestStays DEF Overlap
  <2>4. QED BY <1>8, <2>1, <2>2, <2>3, RequestStays DEF CudaUpdated
<1>10. QED BY <1>1, <1>2, <1>3, <1>4, <1>5, <1>6, <1>7, <1>8, <1>9

LEMMA CudaStepStays ==
  ASSUME request' = request, NEW r, NEW a, NEW s, NEW b
  PROVE  CudaStep(r, a, s, b)' <=> CudaStep(r, a, s, b)
<1>1. CudaDecide(r, a, s, b)' <=> CudaDecide(r, a, s, b)
  <2>1. Decided(r, ShouldCompute(r), r.input)' = Decided(r, ShouldCompute(r), r.input)
    BY OperatorsStay
  <2>2. ShouldCompute(r)' = ShouldCompute(r) BY OperatorsStay
  <2>3. QED BY <2>1, <2>2, RequestStays, SMTT(30) DEF CudaDecide
<1>2. CudaRefine(r, a, s, b)' <=> CudaRefine(r, a, s, b)
  <2>1. Asked(r)' = Asked(r) BY OperatorsStay DEF Asked, Published
  <2>2. /\ Refined(Asked(r))' = Refined(Asked(r)) /\ NextOf(r, "evaluate")' = NextOf(r, "evaluate")
    BY <2>1 DEF Refined, NextOf
  <2>3. QED BY <2>1, <2>2, OperatorsStay DEF CudaRefine
<1>3. CudaEvaluate(r, a, s, b)' <=> CudaEvaluate(r, a, s, b)
  BY OperatorsStay, RequestStays DEF CudaEvaluate
<1>4. \A m, place, next : CudaEffect(m, place, next, r, a, s, b)' <=> CudaEffect(m, place, next, r, a, s, b)
  BY OperatorsStay, RequestStays DEF CudaEffect
<1>5. CudaPreview(r, a, s, b)' <=> CudaPreview(r, a, s, b)
  BY OperatorsStay, RequestStays DEF CudaPreview
<1>6. CudaUpdate(r, a, s, b)' <=> CudaUpdate(r, a, s, b)
  <2>1. \A m : (m \in Advancing(r))' <=> m \in Advancing(r) BY RequestStays
  <2>2. /\ \A m : CudaUpdated(r, m)' = CudaUpdated(r, m)
        /\ \A m, x : StepNoise(r, m, x)' = StepNoise(r, m, x)
        /\ \A m, x, y : Remembered(r, m, x, y)' = Remembered(r, m, x, y)
    BY OperatorsStay
  <2>3. [m \in Modalities |-> IF m \in Advancing(r) THEN CudaUpdated(r, m) ELSE r.rows[m]]'
        = [m \in Modalities |-> IF m \in Advancing(r) THEN CudaUpdated(r, m) ELSE r.rows[m]]
    BY <2>1, <2>2
  <2>4. [m \in Modalities |-> IF m \in Advancing(r) THEN StepNoise(r, m, r.noise[m]) ELSE r.noise[m]]'
        = [m \in Modalities |-> IF m \in Advancing(r) THEN StepNoise(r, m, r.noise[m]) ELSE r.noise[m]]
    BY <2>1, <2>2
  <2>5. [m \in Modalities |-> IF m \in Advancing(r) THEN Remembered(r, m, r.input[m], r.used[m]) ELSE r.previous[m]]'
        = [m \in Modalities |-> IF m \in Advancing(r) THEN Remembered(r, m, r.input[m], r.used[m]) ELSE r.previous[m]]
    BY <2>1, <2>2
  <2>6. QED BY <2>3, <2>4, <2>5, Zenon DEF CudaUpdate
<1>7. Report(r, a, s, b)' <=> Report(r, a, s, b) BY OperatorsStay DEF Report
<1>8. QED BY <1>1, <1>2, <1>3, <1>4, <1>5, <1>6, <1>7 DEF CudaStep

LEMMA StatesStay ==
  ASSUME request' = request
  PROVE  /\ Fresh' = Fresh
         /\ \A r : WithFront(r)' = WithFront(r)
         /\ \A r, a : CudaRuns(r, a)' <=> CudaRuns(r, a)
         /\ \A c, ca, v, va : Follows(c, ca, v, va)' <=> Follows(c, ca, v, va)
<1>1. Fresh' = Fresh
  <2>1. \A m : First(m)' = First(m) BY RequestStays DEF First
  <2>2. QED BY <2>1 DEF Fresh
<1>2. \A r : WithFront(r)' = WithFront(r) BY RequestStays DEF WithFront
<1>3. \A r, a : CudaRuns(r, a)' <=> CudaRuns(r, a)
  <2> TAKE r, a
  <2>1. QED BY RequestStays DEF CudaRuns, CudaTyped, Placed, DecisionsCover, LatentsRead
<1>4. \A c, ca, v, va : Follows(c, ca, v, va)' <=> Follows(c, ca, v, va)
  <2> TAKE c, ca, v, va
  <2>1. \A x, y, a : InStep(x, y, a)' <=> InStep(x, y, a) BY OperatorsStay, RequestStays DEF InStep
  <2>2. \A x, y : Returns(x, y)' <=> Returns(x, y) BY DEF Returns
  <2>3. QED BY <2>1, <2>2 DEF Follows
<1>5. QED BY <1>1, <1>2, <1>3, <1>4

-----------------------------------------------------------------------------
(* The inductive invariant: CUDA's loop has taken the steps of a trace, and *)
(* Vulkan's follows one of its states.                                     *)

Trace(n, rs, as) ==
  /\ n \in Nat /\ rs[0] = Fresh /\ as[0] = "decide"
  /\ \A i \in 0..n : CudaRuns(rs[i], as[i])
  /\ \A i \in 0..(n - 1) : CudaStep(rs[i], as[i], rs[i + 1], as[i + 1])

CudaLeft(r) == [WithFront(r) EXCEPT !.sequence = "plain"]
Reached(n, rs, as, place) == \E k \in 0..n : Follows(rs[k], as[k], run, place)

CudaRunning(n, rs, as) ==
  loop = CudaLoops /\ at # "idle" /\ run = rs[n] /\ at = as[n] /\ outcomes = <<>>
CudaEnded(n, rs, as) ==
  loop = CudaLoops /\ at = "idle" /\ run = rs[n] /\ as[n] = "end" /\ outcomes = <<CudaLeft(rs[n])>>
VulkanRunning(n, rs, as) ==
  /\ loop = VulkanLoops /\ at # "idle" /\ as[n] = "end" /\ outcomes = <<CudaLeft(rs[n])>>
  /\ request.loops = 2 /\ Reached(n, rs, as, at)
VulkanEnded(n, rs, as) ==
  /\ loop = VulkanLoops /\ at = "idle" /\ as[n] = "end" /\ outcomes = <<CudaLeft(rs[n]), WithFront(run)>>
  /\ request.loops = 2 /\ Reached(n, rs, as, "end")

Looping(n, rs, as) ==
  \/ CudaRunning(n, rs, as) \/ CudaEnded(n, rs, as) \/ VulkanRunning(n, rs, as) \/ VulkanEnded(n, rs, as)

LoopInv ==
  /\ request \in Requests \cup {NoRequest}
  /\ \/ loop = 0 /\ at = "idle" /\ outcomes = <<>>
     \/ request \in Requests /\ \E n, rs, as : Trace(n, rs, as) /\ Looping(n, rs, as)

\* A trace of n steps leads to s at b.
Leads(n, s, b) == \E rs, as : Trace(n, rs, as) /\ rs[n] = s /\ as[n] = b

LEMMA TraceStays ==
  ASSUME request' = request, NEW n, NEW rs, NEW as
  PROVE  Trace(n, rs, as)' <=> Trace(n, rs, as)
<1>1. Fresh' = Fresh /\ \A i \in 0..n : CudaRuns(rs[i], as[i])' <=> CudaRuns(rs[i], as[i])
  BY StatesStay
<1>2. \A i \in 0..(n - 1) : CudaStep(rs[i], as[i], rs[i + 1], as[i + 1])' <=> CudaStep(rs[i], as[i], rs[i + 1], as[i + 1])
  BY CudaStepStays
<1>3. QED BY <1>1, <1>2, Zenon DEF Trace

\* The trace of one more step.
LEMMA TraceGrows ==
  ASSUME request \in Requests, NEW n, NEW rs, NEW as, NEW s, NEW b, Trace(n, rs, as), CudaStep(rs[n], as[n], s, b)
  PROVE  Leads(n + 1, s, b)
<1> DEFINE ss == [i \in 0..(n + 1) |-> IF i = n + 1 THEN s ELSE rs[i]]
           bs == [i \in 0..(n + 1) |-> IF i = n + 1 THEN b ELSE as[i]]
<1>1. n \in Nat /\ n \in 0..n /\ 0 \in 0..n /\ n + 1 \in 0..(n + 1)
      /\ \A i \in 0..n : i # n + 1 /\ i \in 0..(n + 1)
  <2>1. n \in Nat BY DEF Trace
  <2>2. QED BY <2>1
<1>2. ss[n + 1] = s /\ bs[n + 1] = b /\ \A i \in 0..n : ss[i] = rs[i] /\ bs[i] = as[i]
  BY <1>1, Zenon
<1> HIDE DEF ss, bs
<1>3. ss[0] = Fresh /\ bs[0] = "decide" BY <1>1, <1>2, Zenon DEF Trace
<1>4. CudaRuns(rs[n], as[n]) BY <1>1, Zenon DEF Trace
<1>5. CudaRuns(s, b) BY <1>4, CudaStepKeeps
<1>6. \A i \in 0..(n + 1) : CudaRuns(ss[i], bs[i])
  <2>1. \A i \in 0..n : CudaRuns(ss[i], bs[i]) BY <1>2 DEF Trace
  <2>2. \A i \in 0..(n + 1) : i \in 0..n \/ i = n + 1 BY <1>1
  <2>3. QED BY <2>1, <2>2, <1>2, <1>5
<1>7. \A i \in 0..((n + 1) - 1) : CudaStep(ss[i], bs[i], ss[i + 1], bs[i + 1])
  <2> SUFFICES ASSUME NEW i \in 0..((n + 1) - 1)
               PROVE  CudaStep(ss[i], bs[i], ss[i + 1], bs[i + 1])
    OBVIOUS
  <2>1. CASE i = n BY <2>1, <1>1, <1>2, Zenon
  <2>2. CASE i # n
    <3>1. i \in 0..(n - 1) /\ i \in 0..n /\ i + 1 \in 0..n BY <2>2, <1>1
    <3>2. CudaStep(rs[i], as[i], rs[i + 1], as[i + 1]) BY <3>1 DEF Trace
    <3>3. QED BY <3>1, <3>2, <1>2
  <2>3. QED BY <2>1, <2>2
<1>8. Trace(n + 1, ss, bs) BY <1>1, <1>3, <1>6, <1>7 DEF Trace
<1>9. QED BY <1>2, <1>8 DEF Leads

\* A trace has one end.
LEMMA TraceEnds ==
  ASSUME NEW n, NEW rs, NEW as, NEW k \in 0..n, Trace(n, rs, as)
  PROVE  /\ CudaRuns(rs[k], as[k]) /\ (k # n => CudaStep(rs[k], as[k], rs[k + 1], as[k + 1]) /\ k + 1 \in 0..n)
         /\ as[k] = "end" => k = n
<1>1. n \in Nat /\ (k # n => k \in 0..(n - 1) /\ k + 1 \in 0..n) BY DEF Trace
<1>2. k # n => CudaStep(rs[k], as[k], rs[k + 1], as[k + 1]) BY <1>1 DEF Trace
<1>3. CudaRuns(rs[k], as[k]) BY DEF Trace
<1>4. QED BY <1>1, <1>2, <1>3, CudaStepAt

LEMMA NothingRunsIdle ==
  ASSUME NEW r, NEW s, NEW b
  PROVE  ~CudaStep(r, "idle", s, b) /\ ~VulkanStep(r, "idle", s, b)
  BY DEF CudaStep, CudaDecide, CudaRefine, CudaEvaluate, CudaEffect, CudaPreview, CudaUpdate, Report, VulkanStep,
         VulkanDecide, VulkanRefine, VulkanRecord, VulkanRefused, Refused, Submits, VulkanSync, VulkanEffect,
         VulkanPreview, VulkanUpdate

\* Both loops start at the same state.
LEMMA VulkanStarts == ASSUME request \in Requests PROVE Follows(Fresh, "decide", Fresh, "decide")
<1>1. IsRun(Fresh) /\ Fresh.recorded = 0 /\ Fresh.sequence = "plain" /\ Fresh.failed = FALSE /\ Fresh.rows = Fresh.input
  BY FreshIsRun DEF Fresh
<1>2. Keeps(Fresh, Fresh, Agreed) BY DEF Keeps
<1>3. Fresh.input["audio"] = Fresh.rows["audio"] BY <1>1
<1>4. InStep(Fresh, Fresh, "decide") BY <1>1, <1>3 DEF InStep, Effects
<1>5. QED BY <1>1, <1>2, <1>4 DEF Follows, Counterpart

LEMMA LoopingAt ==
  ASSUME NEW n, NEW rs, NEW as, Looping(n, rs, as)
  PROVE  /\ loop = CudaLoops /\ at # "idle" => CudaRunning(n, rs, as)
         /\ loop = CudaLoops /\ at = "idle" => CudaEnded(n, rs, as)
         /\ loop = VulkanLoops /\ at # "idle" => VulkanRunning(n, rs, as)
         /\ loop = VulkanLoops /\ at = "idle" => VulkanEnded(n, rs, as)
         /\ loop = CudaLoops \/ (loop = VulkanLoops /\ request.loops = 2)
<1>1. CudaLoops # VulkanLoops BY DEF CudaLoops, VulkanLoops
<1>2. /\ CudaRunning(n, rs, as) => loop = CudaLoops /\ at # "idle"
      /\ CudaEnded(n, rs, as) => loop = CudaLoops /\ at = "idle"
      /\ VulkanRunning(n, rs, as) => loop = VulkanLoops /\ at # "idle" /\ request.loops = 2
      /\ VulkanEnded(n, rs, as) => loop = VulkanLoops /\ at = "idle" /\ request.loops = 2
  BY DEF CudaRunning, CudaEnded, VulkanRunning, VulkanEnded
<1>3. QED BY <1>1, <1>2, Zenon DEF Looping

LEMMA StartLoopKeeps == ASSUME LoopInv, StartLoop PROVE LoopInv'
<1>1. /\ request \in Requests /\ request' = request /\ at = "idle" /\ run' = Fresh /\ at' = "decide"
      /\ loop' = loop + 1 /\ loop < request.loops /\ outcomes' = outcomes
  BY DEF StartLoop, LoopInv
<1>2. Fresh' = Fresh /\ request.loops \in 1..2 BY <1>1, StatesStay, RequestFacts DEF Samplable
<1>3. CASE loop = 0 /\ outcomes = <<>>
  <2>1. \E rs, as : Trace(0, rs, as)
    <3> DEFINE rs == [i \in {0} |-> Fresh]
               as == [i \in {0} |-> "decide"]
    <3>1. rs[0] = Fresh /\ as[0] = "decide" OBVIOUS
    <3> HIDE DEF rs, as
    <3>2. CudaRuns(Fresh, "decide") BY <1>1, CudaStarts
    <3>3. 0 \in Nat /\ (\A i \in 0..0 : i = 0) /\ (\A i \in 0..(0 - 1) : FALSE) OBVIOUS
    <3>4. Trace(0, rs, as) BY <3>1, <3>2, <3>3, Zenon DEF Trace
    <3>5. QED BY <3>4
  <2>2. PICK rs, as : Trace(0, rs, as) BY <2>1
  <2>4. rs[0] = Fresh /\ as[0] = "decide" BY <2>2 DEF Trace
  <2>5. Trace(0, rs, as)' BY <2>2, <1>1, TraceStays
  <2>6. CudaRunning(0, rs, as)' BY <1>1, <1>3, <2>4, <1>2 DEF CudaRunning, CudaLoops
  <2>7. QED BY <2>5, <2>6, <1>1, Zenon DEF LoopInv, Looping
<1>4. CASE ~(loop = 0 /\ outcomes = <<>>)
  <2>1. PICK n, rs, as : Trace(n, rs, as) /\ Looping(n, rs, as) BY <1>1, <1>4, Zenon DEF LoopInv
  <2>2. CudaEnded(n, rs, as) /\ request.loops = 2
    <3>1. loop = CudaLoops /\ request.loops = 2
      <4>1. loop < request.loops /\ request.loops \in 1..2 BY <1>1, <1>2
      <4>2. loop = CudaLoops \/ (loop = VulkanLoops /\ request.loops = 2) BY <2>1, LoopingAt, Zenon
      <4>3. QED BY <4>1, <4>2 DEF CudaLoops, VulkanLoops
    <3>2. QED BY <3>1, <2>1, <1>1, LoopingAt, Zenon
  <2>3. Trace(n, rs, as)' BY <2>1, <1>1, TraceStays
  <2>4. Follows(Fresh, "decide", Fresh, "decide") /\ rs[0] = Fresh /\ as[0] = "decide" /\ 0 \in 0..n
    <3>1. n \in Nat /\ rs[0] = Fresh /\ as[0] = "decide" BY <2>1 DEF Trace
    <3>2. QED BY <3>1, <1>1, VulkanStarts
  <2>5. Follows(rs[0], as[0], Fresh, "decide")' BY <2>4, <1>1, <1>2, StatesStay
  <2>6. Reached(n, rs, as, at)' BY <2>4, <2>5, <1>1, <1>2 DEF Reached
  <2>7. CudaLeft(rs[n])' = CudaLeft(rs[n]) BY <1>1, StatesStay DEF CudaLeft
  <2>8. VulkanRunning(n, rs, as)'
    BY <2>2, <2>6, <2>7, <1>1 DEF VulkanRunning, CudaEnded, CudaLoops, VulkanLoops
  <2>9. QED BY <2>3, <2>8, <1>1, Zenon DEF LoopInv, Looping
<1>5. QED BY <1>3, <1>4

LEMMA CudaLoopKeeps == ASSUME LoopInv, CudaLoop PROVE LoopInv'
<1>1. /\ loop = CudaLoops /\ CudaStep(run, at, run', at') /\ request' = request /\ loop' = loop /\ outcomes' = outcomes
  BY DEF CudaLoop
<1>2. PICK n, rs, as : Trace(n, rs, as) /\ Looping(n, rs, as) /\ request \in Requests
  BY <1>1 DEF LoopInv, CudaLoops
<1>3. CudaRunning(n, rs, as) BY <1>1, <1>2, NothingRunsIdle, LoopingAt, Zenon
<1>4. CudaStep(rs[n], as[n], run', at') /\ outcomes = <<>> BY <1>1, <1>3 DEF CudaRunning
<1>5. Leads(n + 1, run', at') BY <1>2, <1>4, TraceGrows, Zenon
<1>6. PICK ss, bs : Trace(n + 1, ss, bs) /\ ss[n + 1] = run' /\ bs[n + 1] = at' BY <1>5 DEF Leads
<1>7. Trace(n + 1, ss, bs)' BY <1>6, <1>1, TraceStays
<1>8. at' # "idle"
  <2>1. n + 1 \in 0..(n + 1) /\ CudaRuns(rs[n], as[n])
    <3>1. n \in Nat BY <1>2 DEF Trace
    <3>2. n + 1 \in 0..(n + 1) /\ n \in 0..n BY <3>1
    <3>3. QED BY <3>2, <1>2, TraceEnds, Zenon
  <2>2. CudaRuns(run', at') BY <2>1, <1>2, <1>4, CudaStepKeeps
  <2>3. QED BY <2>2 DEF CudaRuns, CudaTyped, Placed, CudaPlaces
<1>9. CudaRunning(n + 1, ss, bs)' BY <1>1, <1>4, <1>6, <1>8 DEF CudaRunning
<1>10. QED BY <1>7, <1>9, <1>1, <1>2, Zenon DEF LoopInv, Looping

LEMMA VulkanLoopKeeps == ASSUME LoopInv, VulkanLoop PROVE LoopInv'
<1>1. /\ loop = VulkanLoops /\ VulkanStep(run, at, run', at') /\ request' = request /\ loop' = loop /\ outcomes' = outcomes
  BY DEF VulkanLoop
<1>2. PICK n, rs, as : Trace(n, rs, as) /\ Looping(n, rs, as) /\ request \in Requests
  BY <1>1 DEF LoopInv, VulkanLoops
<1>3. VulkanRunning(n, rs, as) BY <1>1, <1>2, NothingRunsIdle, LoopingAt, Zenon
<1>4. PICK k \in 0..n : Follows(rs[k], as[k], run, at) BY <1>3 DEF VulkanRunning, Reached
<1>5. request.cache # "steps" BY <1>2, <1>3, RequestFacts DEF VulkanRunning, Samplable
<1>6. /\ CudaRuns(rs[k], as[k]) /\ (k # n => CudaStep(rs[k], as[k], rs[k + 1], as[k + 1]) /\ k + 1 \in 0..n)
      /\ as[n] = "end"
  BY <1>2, <1>3, TraceEnds DEF VulkanRunning
<1>7. \/ Follows(rs[k], as[k], run', at')
      \/ as[k] # "end" /\ \A d, db : CudaStep(rs[k], as[k], d, db) => Follows(d, db, run', at')
  BY <1>1, <1>2, <1>4, <1>5, <1>6, VulkanStepFollows
<1>8. \E i \in 0..n : Follows(rs[i], as[i], run', at')
  <2>1. CASE Follows(rs[k], as[k], run', at') BY <2>1
  <2>2. CASE as[k] # "end" /\ \A d, db : CudaStep(rs[k], as[k], d, db) => Follows(d, db, run', at')
    <3>1. k # n BY <2>2, <1>6
    <3>2. Follows(rs[k + 1], as[k + 1], run', at') /\ k + 1 \in 0..n BY <2>2, <3>1, <1>6
    <3>3. QED BY <3>2
  <2>3. QED BY <1>7, <2>1, <2>2
<1>9. PICK i \in 0..n : Follows(rs[i], as[i], run', at') BY <1>8
<1>10. at' # "idle" BY <1>9 DEF Follows
<1>11. Reached(n, rs, as, at)'
  <2>1. Follows(rs[i], as[i], run, at)' BY <1>1, <1>9, StatesStay
  <2>2. QED BY <2>1 DEF Reached
<1>12. CudaLeft(rs[n])' = CudaLeft(rs[n]) /\ Trace(n, rs, as)'
  BY <1>1, <1>2, StatesStay, TraceStays DEF CudaLeft
<1>13. VulkanRunning(n, rs, as)' BY <1>1, <1>3, <1>10, <1>11, <1>12 DEF VulkanRunning
<1>14. QED BY <1>12, <1>13, <1>1, <1>2, Zenon DEF LoopInv, Looping

LEMMA EndLoopKeeps == ASSUME LoopInv, EndLoop PROVE LoopInv'
<1>1. /\ at = "end" /\ at' = "idle" /\ request' = request /\ loop' = loop /\ run' = run
      /\ \/ loop = CudaLoops /\ CudaEnd
         \/ loop = VulkanLoops /\ VulkanEnd
  BY DEF EndLoop
<1>2. PICK n, rs, as : Trace(n, rs, as) /\ Looping(n, rs, as) /\ request \in Requests
  BY <1>1 DEF LoopInv
<1>3. /\ Trace(n, rs, as)' /\ CudaLeft(rs[n])' = CudaLeft(rs[n]) /\ WithFront(run)' = WithFront(run)
  <2>1. \A r : WithFront(r)' = WithFront(r) BY <1>1, StatesStay
  <2>2. WithFront(run)' = WithFront(run) BY <1>1, StatesStay DEF WithFront, RequestStays
  <2>3. QED BY <2>1, <2>2, <1>1, <1>2, TraceStays DEF CudaLeft
<1>4. CASE loop = CudaLoops /\ CudaEnd
  <2>1. CudaRunning(n, rs, as) BY <1>1, <1>2, <1>4, LoopingAt
  <2>2. run = rs[n] /\ as[n] = "end" /\ outcomes = <<>> BY <2>1, <1>1 DEF CudaRunning
  <2>3. outcomes' = <<CudaLeft(rs[n])>>
    <3>1. \A x : Append(<<>>, x) = <<x>> OBVIOUS
    <3>2. QED BY <2>2, <1>4, <3>1, Zenon DEF CudaEnd, CudaLeft
  <2>4. CudaEnded(n, rs, as)' BY <1>1, <1>3, <1>4, <2>2, <2>3 DEF CudaEnded
  <2>5. QED BY <1>3, <2>4, <1>1, <1>2, Zenon DEF LoopInv, Looping
<1>5. CASE loop = VulkanLoops /\ VulkanEnd
  <2>1. VulkanRunning(n, rs, as) BY <1>1, <1>2, <1>5, LoopingAt
  <2>2. /\ as[n] = "end" /\ outcomes = <<CudaLeft(rs[n])>> /\ request.loops = 2 /\ Reached(n, rs, as, "end")
    BY <2>1, <1>1 DEF VulkanRunning
  <2>3. outcomes' = <<CudaLeft(rs[n]), WithFront(run)>>
    <3>1. \A x, y : Append(<<x>>, y) = <<x, y>>
      <4> TAKE x, y
      <4> DEFINE S == {x, y}
      <4>1. <<x>> \in Seq(S) /\ Len(<<x>>) = 1 /\ y \in S /\ <<x>>[1] = x OBVIOUS
      <4>2. /\ Append(<<x>>, y) \in Seq(S) /\ Len(Append(<<x>>, y)) = 2
            /\ Append(<<x>>, y)[1] = x /\ Append(<<x>>, y)[2] = y
        BY <4>1
      <4>3. <<x, y>> \in Seq(S) /\ Len(<<x, y>>) = 2 /\ <<x, y>>[1] = x /\ <<x, y>>[2] = y OBVIOUS
      <4> HIDE DEF S
      <4>4. \A p, q \in Seq(S) : Len(p) = 2 /\ Len(q) = 2 /\ p[1] = q[1] /\ p[2] = q[2] => p = q
        <5> SUFFICES ASSUME NEW p \in Seq(S), NEW q \in Seq(S), Len(p) = 2, Len(q) = 2, p[1] = q[1], p[2] = q[2]
                     PROVE  p = q
          OBVIOUS
        <5>1. \A i \in 1..2 : p[i] = q[i] OBVIOUS
        <5>2. p = [i \in 1..2 |-> p[i]] /\ q = [i \in 1..2 |-> q[i]] OBVIOUS
        <5>3. QED BY <5>1, <5>2
      <4>5. QED BY <4>2, <4>3, <4>4
    <3>2. QED BY <2>2, <1>5, <3>1, Zenon DEF VulkanEnd
  <2>4. Reached(n, rs, as, "end")' BY <2>2, <1>1, StatesStay DEF Reached
  <2>5. VulkanEnded(n, rs, as)' BY <1>1, <1>3, <1>5, <2>2, <2>3, <2>4 DEF VulkanEnded
  <2>6. QED BY <1>3, <2>5, <1>1, <1>2, Zenon DEF LoopInv, Looping
<1>6. QED BY <1>1, <1>4, <1>5

LEMMA IdleKeeps == ASSUME LoopInv, UNCHANGED loopVars PROVE LoopInv'
<1>1. request' = request /\ loop' = loop /\ at' = at /\ run' = run /\ outcomes' = outcomes
  BY DEF loopVars
<1>2. CASE loop = 0 /\ at = "idle" /\ outcomes = <<>> BY <1>1, <1>2 DEF LoopInv
<1>3. CASE ~(loop = 0 /\ at = "idle" /\ outcomes = <<>>)
  <2>1. PICK n, rs, as : Trace(n, rs, as) /\ Looping(n, rs, as) /\ request \in Requests
    BY <1>3 DEF LoopInv
  <2>2. Trace(n, rs, as)' /\ (\A r : CudaLeft(r)' = CudaLeft(r)) /\ WithFront(run)' = WithFront(run)
    <3>1. (\A r : CudaLeft(r)' = CudaLeft(r)) /\ Trace(n, rs, as)'
      BY <1>1, <2>1, StatesStay, TraceStays DEF CudaLeft
    <3>2. WithFront(run)' = WithFront(run) BY <1>1, StatesStay DEF WithFront
    <3>3. QED BY <3>1, <3>2
  <2>3. \A place : Reached(n, rs, as, place) => Reached(n, rs, as, place)'
    BY <1>1, StatesStay DEF Reached
  <2>4. Looping(n, rs, as)'
    BY <1>1, <2>1, <2>2, <2>3 DEF Looping, CudaRunning, CudaEnded, VulkanRunning, VulkanEnded
  <2>5. QED BY <2>1, <2>2, <2>4, <1>1 DEF LoopInv
<1>4. QED BY <1>2, <1>3

\* Putting the front back changes the latents alone, and alike where nothing failed.
LEMMA FrontKeeps ==
  ASSUME NEW r, NEW s, IsRun(r), s = WithFront(r)
  PROVE  /\ IsRun(s) /\ Keeps(r, s, Fields \ {"rows"})
         /\ r.failed = FALSE =>
              s.rows = IF Continued THEN [r.rows EXCEPT !.video = <<"front", r.rows.video>>] ELSE r.rows
<1>1. CASE Continued /\ ~r.failed
  <2>1. s = [r EXCEPT !.rows.video = <<"front", @>>] BY <1>1 DEF WithFront
  <2>2. /\ DOMAIN s = Fields /\ Keeps(r, s, Fields \ {"rows"})
        /\ s.rows = [r.rows EXCEPT !.video = <<"front", r.rows.video>>]
    BY <2>1 DEF IsRun, Keeps, Fields
  <2>3. IsRun(s) BY <2>2 DEF IsRun, Keeps, Fields
  <2>4. QED BY <2>2, <2>3, <1>1
<1>2. CASE ~(Continued /\ ~r.failed)
  <2>1. s = r BY <1>2 DEF WithFront
  <2>2. QED BY <2>1, <1>2 DEF Keeps
<1>3. QED BY <1>1, <1>2

LEMMA CudaLeftKeeps ==
  ASSUME NEW r, NEW s, IsRun(r), r.failed = FALSE, s = CudaLeft(r)
  PROVE  /\ Keeps(r, s, Fields \ {"rows", "sequence"})
         /\ s.rows = IF Continued THEN [r.rows EXCEPT !.video = <<"front", r.rows.video>>] ELSE r.rows
<1> DEFINE q == WithFront(r)
<1>1. q = WithFront(r) OBVIOUS
<1>2. s = [q EXCEPT !.sequence = "plain"] BY DEF CudaLeft
<1> HIDE DEF q
<1>3. /\ IsRun(q) /\ Keeps(r, q, Fields \ {"rows"})
      /\ q.rows = IF Continued THEN [r.rows EXCEPT !.video = <<"front", r.rows.video>>] ELSE r.rows
  BY <1>1, FrontKeeps
<1>4. Keeps(q, s, Fields \ {"sequence"}) BY <1>2, <1>3 DEF IsRun, Keeps, Fields
<1>5. QED BY <1>3, <1>4 DEF Keeps, Fields

\* What the trace says of the outcomes.
LEMMA LoopsLeft ==
  ASSUME LoopInv, outcomes # <<>>
  PROVE  /\ request \in Requests
         /\ \E r : /\ CudaRuns(r, "end") /\ outcomes[CudaLoops] = CudaLeft(r)
                   /\ Len(outcomes) = 2 =>
                        /\ outcomes[VulkanLoops] = WithFront(run)
                        /\ (IsRun(run) /\ run.failed = TRUE) \/ Follows(r, "end", run, "end")
<1>1. PICK n, rs, as : Trace(n, rs, as) /\ Looping(n, rs, as) /\ request \in Requests
  BY Zenon DEF LoopInv
<1>2. /\ as[n] = "end"
      /\ \/ outcomes = <<CudaLeft(rs[n])>>
         \/ outcomes = <<CudaLeft(rs[n]), WithFront(run)>> /\ Reached(n, rs, as, "end")
  BY <1>1, Zenon DEF Looping, CudaRunning, CudaEnded, VulkanRunning, VulkanEnded
<1>3. n \in Nat /\ n \in 0..n
  <2>1. n \in Nat BY <1>1 DEF Trace
  <2>2. QED BY <2>1
<1>4. CudaRuns(rs[n], "end")
  <2>1. CudaRuns(rs[n], as[n]) BY <1>1, <1>3, TraceEnds, Zenon
  <2>2. QED BY <2>1, <1>2
<1>5. /\ \A x : <<x>>[1] = x /\ Len(<<x>>) = 1
      /\ \A x, y : <<x, y>>[1] = x /\ <<x, y>>[2] = y /\ Len(<<x, y>>) = 2
  OBVIOUS
<1>6. outcomes[CudaLoops] = CudaLeft(rs[n])
  <2>1. CASE outcomes = <<CudaLeft(rs[n])>> BY <2>1, <1>5, Zenon DEF CudaLoops
  <2>2. CASE outcomes = <<CudaLeft(rs[n]), WithFront(run)>> BY <2>2, <1>5, Zenon DEF CudaLoops
  <2>3. QED BY <1>2, <2>1, <2>2
<1>7. ASSUME Len(outcomes) = 2
      PROVE  /\ outcomes[VulkanLoops] = WithFront(run)
             /\ (IsRun(run) /\ run.failed = TRUE) \/ Follows(rs[n], "end", run, "end")
  <2>1. outcomes = <<CudaLeft(rs[n]), WithFront(run)>> /\ Reached(n, rs, as, "end")
    <3>1. \A x : Len(<<x>>) # 2 BY <1>5
    <3>2. QED BY <1>2, <1>7, <3>1, Zenon
  <2>2. PICK k \in 0..n : Follows(rs[k], as[k], run, "end") BY <2>1 DEF Reached
  <2>3. IsRun(run) /\ (run.failed = TRUE \/ as[k] = "end") BY <2>2 DEF Follows
  <2>4. as[k] = "end" => k = n BY <1>1, TraceEnds
  <2>5. QED BY <2>1, <2>2, <2>3, <2>4, <1>2, <1>5, Zenon DEF VulkanLoops
<1>8. QED BY <1>1, <1>4, <1>6, <1>7

LEMMA DecisionsFit == ASSUME LoopInv PROVE DecisionsTell
<1> SUFFICES ASSUME outcomes # <<>>
             PROVE  DecisionsTell
  BY DEF DecisionsTell
<1>1. PICK r : CudaRuns(r, "end") /\ outcomes[CudaLoops] = CudaLeft(r) BY LoopsLeft
<1>2. request \in Requests /\ IsRun(r) /\ r.failed = FALSE
  BY <1>1, LoopsLeft DEF CudaRuns, CudaTyped, LoopTypes
<1> DEFINE s == outcomes[CudaLoops]
<1>3. s = CudaLeft(r) BY <1>1
<1> HIDE DEF s
<1>4. s.computed = r.computed /\ s.skipped = r.skipped /\ s.refined = r.refined /\ s.decisions = r.decisions
      /\ s.cancelled = r.cancelled
  <2>1. Keeps(r, s, Fields \ {"rows", "sequence"}) BY <1>2, <1>3, CudaLeftKeeps
  <2>2. QED BY <2>1 DEF Keeps, Fields
<1>5. r.computed = r.refined + Evaluations(r.decisions) /\ r.skipped = Reuses(r.decisions)
  <2>1. /\ r.computed + 0 = r.refined + Evaluations(r.decisions) /\ r.skipped + 0 = Reuses(r.decisions)
    BY <1>1, Zenon DEF CudaRuns, Tally, Owed, Planned
  <2>2. r.computed \in Nat /\ r.skipped \in Nat BY <1>1 DEF CudaRuns, CudaTyped, LoopTypes
  <2>3. QED BY <2>1, <2>2
<1>6. r.cancelled \/ r.decisions[Len(r.decisions)] = TRUE BY <1>1 DEF CudaRuns, DecisionsCover
<1>7. /\ s.computed = s.refined + Evaluations(s.decisions) /\ s.skipped = Reuses(s.decisions)
      /\ s.cancelled \/ s.decisions[Len(s.decisions)] = TRUE
  BY <1>4, <1>5, <1>6
<1>8. QED BY <1>7, Zenon DEF DecisionsTell, Evaluations, Reuses, CountOf, s

LEMMA TrajectoriesAgree == ASSUME LoopInv PROVE SameTrajectory
<1> SUFFICES ASSUME Len(outcomes) = 2, ~outcomes[VulkanLoops].failed
             PROVE  Told(outcomes[VulkanLoops]) = Told(outcomes[CudaLoops])
  BY DEF SameTrajectory
<1>1. outcomes # <<>> OBVIOUS
<1>2. PICK r : /\ CudaRuns(r, "end") /\ outcomes[CudaLoops] = CudaLeft(r)
               /\ outcomes[VulkanLoops] = WithFront(run)
               /\ (IsRun(run) /\ run.failed = TRUE) \/ Follows(r, "end", run, "end")
  BY <1>1, LoopsLeft
<1> DEFINE c == outcomes[CudaLoops]
           v == outcomes[VulkanLoops]
<1>3. c = CudaLeft(r) /\ v = WithFront(run) BY <1>2
<1> HIDE DEF c, v
<1>4. IsRun(r) /\ r.failed = FALSE /\ IsRun(run) BY <1>2 DEF CudaRuns, CudaTyped, LoopTypes, Follows
<1>5. Keeps(run, v, Fields \ {"rows"}) BY <1>3, <1>4, FrontKeeps
<1>6. run.failed = FALSE /\ Keeps(r, run, Agreed) /\ Returns(r, run)
  <2>1. v.failed = run.failed BY <1>5 DEF Keeps, Fields
  <2>2. run.failed # TRUE BY <2>1, Zenon DEF v
  <2>3. QED BY <1>2, <2>2 DEF Follows
<1>7. /\ Keeps(r, c, Fields \ {"rows", "sequence"})
      /\ c.rows = IF Continued THEN [r.rows EXCEPT !.video = <<"front", r.rows.video>>] ELSE r.rows
      /\ v.rows = IF Continued THEN [run.rows EXCEPT !.video = <<"front", run.rows.video>>] ELSE run.rows
  BY <1>3, <1>4, <1>6, CudaLeftKeeps, FrontKeeps
<1>8. /\ v.log = c.log /\ v.seen = c.seen /\ v.computed = c.computed /\ v.skipped = c.skipped
      /\ v.cancelled = c.cancelled /\ v.cancelled = run.cancelled
  BY <1>5, <1>6, <1>7 DEF Keeps, Fields, Agreed
<1>9. Returned(v) = Returned(c)
  <2>1. CASE run.rows = r.rows BY <2>1, <1>7, <1>8 DEF Returned
  <2>2. CASE run.cancelled /\ request.effect /\ request.inner > 0 BY <2>2, <1>8, Zenon DEF Returned
  <2>3. QED BY <1>6, <2>1, <2>2 DEF Returns
<1>10. Told(v) = Told(c) BY <1>8, <1>9, Zenon DEF Told
<1>11. QED BY <1>10 DEF c, v

LEMMA LoopsTyped == ASSUME LoopInv PROVE LoopTypeOK
<1>1. CASE loop = 0 /\ at = "idle" /\ outcomes = <<>> BY <1>1 DEF LoopTypeOK
<1>2. CASE ~(loop = 0 /\ at = "idle" /\ outcomes = <<>>)
  <2>1. PICK n, rs, as : Trace(n, rs, as) /\ Looping(n, rs, as) /\ request \in Requests
    BY <1>2, Zenon DEF LoopInv
  <2>2. n \in Nat /\ n \in 0..n
    <3>1. n \in Nat BY <2>1 DEF Trace
    <3>2. QED BY <3>1
  <2>3. loop \in 0..2 /\ Len(outcomes) \in {loop, loop - 1}
    <3>1. \/ loop = 1 /\ (outcomes = <<>> \/ \E x : outcomes = <<x>>)
          \/ loop = 2 /\ ((\E x : outcomes = <<x>>) \/ \E x, y : outcomes = <<x, y>>)
      BY <2>1, Zenon DEF Looping, CudaRunning, CudaEnded, VulkanRunning, VulkanEnded, CudaLoops, VulkanLoops
    <3>2. /\ Len(<<>>) = 0 /\ (\A x : Len(<<x>>) = 1) /\ (\A x, y : Len(<<x, y>>) = 2) OBVIOUS
    <3>3. (loop = 1 /\ Len(outcomes) \in {0, 1}) \/ (loop = 2 /\ Len(outcomes) \in {1, 2})
      BY <3>1, <3>2
    <3>5. CASE loop = 1 /\ Len(outcomes) \in {0, 1}
      <4>1. {loop, loop - 1} = {0, 1} /\ loop \in 0..2 BY <3>5
      <4>2. QED BY <4>1, <3>5, Zenon
    <3>6. CASE loop = 2 /\ Len(outcomes) \in {1, 2}
      <4>1. {loop, loop - 1} = {1, 2} /\ loop \in 0..2 BY <3>6
      <4>2. QED BY <4>1, <3>6, Zenon
    <3>7. QED BY <3>3, <3>5, <3>6
  <2>4. at = "idle" \/ at \in CudaPlaces \/ at \in {"record", "effect"}
    <3>1. CASE CudaRunning(n, rs, as)
      BY <3>1, <2>1, <2>2, TraceEnds DEF CudaRunning, CudaRuns, CudaTyped, Placed
    <3>2. CASE CudaEnded(n, rs, as) \/ VulkanEnded(n, rs, as) BY <3>2 DEF CudaEnded, VulkanEnded
    <3>3. CASE VulkanRunning(n, rs, as)
      <4>1. PICK k \in 0..n : Follows(rs[k], as[k], run, at) BY <3>3 DEF VulkanRunning, Reached
      <4>2. as[k] \in CudaPlaces BY <2>1, TraceEnds DEF CudaRuns, CudaTyped, Placed
      <4>3. QED BY <4>1, <4>2 DEF Follows, Counterpart, CudaPlaces
    <3>4. QED BY <2>1, <3>1, <3>2, <3>3 DEF Looping
  <2>5. \E k \in 0..n : /\ run.step = rs[k].step /\ run.computed = rs[k].computed /\ run.skipped = rs[k].skipped
                        /\ run.sequence \in {"plain", "context"} /\ run.recorded \in 0..3
    <3>1. \A k \in 0..n : \A place : Follows(rs[k], as[k], run, place) =>
            /\ run.step = rs[k].step /\ run.computed = rs[k].computed /\ run.skipped = rs[k].skipped
            /\ run.sequence \in {"plain", "context"} /\ run.recorded \in 0..3
      BY DEF Follows, Keeps, Agreed
    <3>2. rs[n].sequence \in {"plain", "context"} /\ rs[n].recorded \in 0..3
      <4>1. CudaRuns(rs[n], as[n]) BY <2>1, <2>2, TraceEnds, Zenon
      <4>2. QED BY <4>1 DEF CudaRuns, CudaTyped, LoopTypes
    <3>3. CASE run = rs[n] BY <2>2, <3>2, <3>3
    <3>4. CASE \E k \in 0..n, place \in {at, "end"} : Follows(rs[k], as[k], run, place)
      BY <3>1, <3>4
    <3>5. QED
      BY <2>1, <3>3, <3>4, Zenon DEF Looping, CudaRunning, CudaEnded, VulkanRunning, VulkanEnded, Reached
  <2>6. PICK k \in 0..n : /\ run.step = rs[k].step /\ run.computed = rs[k].computed /\ run.skipped = rs[k].skipped
                          /\ run.sequence \in {"plain", "context"} /\ run.recorded \in 0..3
    BY <2>5
  <2>7. run.step \in 0..Steps /\ run.computed + run.skipped \in Nat
    <3>1. /\ rs[k].step \in Nat /\ rs[k].step <= Steps /\ rs[k].computed \in Nat /\ rs[k].skipped \in Nat
      BY <2>1, TraceEnds DEF CudaRuns, CudaTyped, LoopTypes, Placed
    <3>2. Steps \in Nat BY <2>1, RequestFacts
    <3>3. QED BY <3>1, <3>2, <2>6
  <2>8. QED BY <2>3, <2>4, <2>6, <2>7 DEF LoopTypeOK, CudaPlaces
<1>3. QED BY <1>1, <1>2

-----------------------------------------------------------------------------
(* The loops in the Vulkan backend's specification.                        *)

LEMMA LoopInvHolds == Spec => []LoopInv
<1>1. Init => LoopInv BY DEF Init, LoopInit, LoopInv
<1>2. ASSUME LoopInv, [Next]_vars
      PROVE  LoopInv'
  <2>1. CASE LoopNext
    <3>1. StartLoop \/ CudaLoop \/ VulkanLoop \/ EndLoop BY <2>1 DEF LoopNext
    <3>2. QED BY <1>2, <3>1, StartLoopKeeps, CudaLoopKeeps, VulkanLoopKeeps, EndLoopKeeps
  <2>2. CASE UNCHANGED loopVars BY <1>2, <2>2, IdleKeeps
  <2>3. QED BY <1>2, <2>1, <2>2 DEF Next, vars
<1>3. QED BY <1>1, <1>2, PTL DEF Spec

\* Both backends' loops take the same latents along the same trajectory, ask the host the same and stop
\* the same, unless Vulkan's throws; and the decisions and counts a run reports are what it did.
THEOREM LoopsDoTheSame == Spec => []LoopsAgree
<1>1. LoopInv => LoopsAgree BY DecisionsFit, TrajectoriesAgree DEF LoopsAgree
<1>2. QED BY <1>1, LoopInvHolds, PTL

\* What the batches and the loops keep is of the types their code declares.
THEOREM WorkIsTyped == Spec => []TypeOK
<1>1. Init => subject \in Subjects BY DEF Init
<1>2. subject \in Subjects /\ [Next]_vars => (subject \in Subjects)' BY DEF Next, vars
<1>3. Spec => [](subject \in Subjects) BY <1>1, <1>2, PTL DEF Spec
<1>4. LoopInv => LoopTypeOK BY LoopsTyped
<1>5. QED BY <1>3, <1>4, LoopInvHolds, BatchesAreTyped, PTL DEF TypeOK
=============================================================================
