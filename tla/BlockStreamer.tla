---------------------------- MODULE BlockStreamer ----------------------------
(***************************************************************************)
(* The block loop of Transformer::forward (src/src/dit/transformer.cpp)    *)
(* with the BlockStreamer (src/src/dit/transformer_support.h) and the      *)
(* block cache.  The blocks of the offloaded suffix live in pinned host    *)
(* memory and pass through two device slots, the next one while the        *)
(* present one computes; the block cache replaces a span of blocks by the  *)
(* residual it captured in an earlier step.                                *)
(***************************************************************************)
EXTENDS CudaStreams, Integers

CONSTANTS NumBlocks,     \* main blocks of the transformer
          CacheSpans,    \* spans of the block cache, <<begin, end>>; an empty one is "off"
          MaxSequences,  \* bound: prepare_sequence calls
          MaxForwards    \* bound: forward calls

Blocks == 0 .. NumBlocks - 1

ASSUME StreamerAssumption ==
  /\ NumBlocks \in Nat \ {0} /\ MaxSequences \in Nat /\ MaxForwards \in Nat
  /\ CacheSpans \subseteq {c \in (0 .. NumBlocks) \X (0 .. NumBlocks) : c[1] <= c[2]}

VARIABLES
  fwPc,       \* the host: "idle", "block", "ready", "next", "ahead", "run", "sync", "unloaded"
  block,      \* b
  first,      \* streamer->first; NumBlocks when nothing is offloaded
  queued,     \* queued_: the block each slot holds or is getting, -1 if none
  span,       \* bc_span; begin = end when the cache is off
  compute,    \* bc_compute
  haveDelta,  \* bc_have_delta
  sequence,   \* which prepare_sequence is in force, 0 before the first
  forwards    \* calls of forward so far

fwVars == <<fwPc, block, first, queued, span, compute, haveDelta, sequence, forwards>>

Slot(b) == (b - first) % 2
Device(b) == <<"slot", Slot(b)>>
Host(b) == <<"host", b>>
Delta == <<"delta">>
Weights(b) == <<"block", b>>

OffloadedFrom(b) == b >= first
Offloaded(b) == b \in first .. NumBlocks - 1
Cached == span[1] < span[2]

\* The converted weights, and as many device slots as there are blocks to alternate, two at most.
StreamerPlaces(f) ==
  [p \in {<<"host", b>> : b \in f .. NumBlocks - 1}
         \cup {<<"slot", i>> : i \in {j \in {0, 1} : j < NumBlocks - f}} |->
     IF p[1] = "host" THEN Weights(p[2]) ELSE Torn]

TransformerTypeOK ==
  /\ fwPc \in {"idle", "block", "ready", "next", "ahead", "run", "sync", "unloaded"}
  /\ block \in 0 .. NumBlocks /\ first \in 0 .. NumBlocks
  /\ queued \in [{0, 1} -> Blocks \cup {-1}]
  /\ span \in CacheSpans
  /\ compute \in BOOLEAN /\ haveDelta \in BOOLEAN
  /\ sequence \in 0 .. MaxSequences /\ forwards \in 0 .. MaxForwards

TransformerInit ==
  /\ fwPc = "idle" /\ block = 0
  /\ first \in 0 .. NumBlocks /\ span \in CacheSpans
  /\ queued = [i \in {0, 1} |-> -1]
  /\ compute = TRUE /\ haveDelta = FALSE /\ sequence = 0 /\ forwards = 0

-----------------------------------------------------------------------------
(* The streamer.                                                           *)

TransferAtOnce(b) ==
  LET filled == <<"filled", Slot(b)>>
  IN Issue(<<>>, <<Work(At(Host(b), Weights(b)), At(Device(b), Weights(b))), RecordOf(filled)>>, {filled})

\* The copy of block b waits for everything issued to the compute stream so far.
Transfer(b) ==
  LET emptied == <<"emptied", Slot(b)>> filled == <<"filled", Slot(b)>>
  IN Issue(<<RecordOf(emptied)>>,
           <<WaitForRecordOf(emptied), Work(At(Host(b), Weights(b)), At(Device(b), Weights(b))),
             RecordOf(filled)>>,
           {emptied, filled})

Prefetch(b) ==
  IF Offloaded(b) /\ queued[Slot(b)] # b
  THEN Transfer(b) /\ queued' = [queued EXCEPT ![Slot(b)] = b]
  ELSE UNCHANGED <<queue, running, recorded, reached, queued>>

-----------------------------------------------------------------------------
(* The transformer.                                                        *)

\* prepare_sequence synchronizes its stream before it replaces the delta buffer, whose new
\* contents are whatever the allocator finds.
PrepareSequence ==
  /\ fwPc = "idle" /\ sequence < MaxSequences
  /\ Idle("compute")
  /\ sequence' = sequence + 1 /\ haveDelta' = FALSE
  /\ memory' = IF Cached THEN Over(At(Delta, Torn), memory) ELSE memory
  /\ UNCHANGED <<queue, running, recorded, reached, fwPc, block, first, queued, span, compute, forwards>>

\* The streamer fetches its first block while the modulation is built.  BlockCache::should_compute
\* goes by the step number, but never reuses a delta that is not there.
BeginForward ==
  /\ fwPc = "idle" /\ sequence > 0 /\ forwards < MaxForwards
  /\ forwards' = forwards + 1 /\ fwPc' = "block" /\ block' = 0
  /\ Prefetch(first)
  /\ \E reuse \in IF Cached /\ haveDelta THEN BOOLEAN ELSE {FALSE} : compute' = ~reuse
  /\ UNCHANGED <<memory, first, span, haveDelta, sequence>>

\* At the start of the span: keep the stream as it enters, or add the delta and jump to the end.
AtSpan == Cached /\ block = span[1]

Snapshot == Issue(<<Work(None, At(Delta, <<"before", sequence>>))>>, <<>>, {})
AddDelta == Issue(<<Work(At(Delta, <<"delta", sequence>>), None)>>, <<>>, {})

\* The loop goes on behind the span.
ForgetsToSkip == span[1]
AfterReuse == span[2]

ReuseSpan ==
  /\ fwPc = "block" /\ AtSpan /\ ~compute
  /\ AddDelta
  /\ block' = AfterReuse
  /\ fwPc' = IF AfterReuse = NumBlocks THEN "sync" ELSE "block"
  /\ UNCHANGED <<memory, first, queued, span, compute, haveDelta, sequence, forwards>>

EnterSpan ==
  /\ fwPc = "block" /\ AtSpan /\ compute
  /\ Snapshot /\ haveDelta' = FALSE
  /\ fwPc' = "ready"
  /\ UNCHANGED <<memory, block, first, queued, span, compute, sequence, forwards>>

EnterBlock ==
  /\ fwPc = "block" /\ ~AtSpan
  /\ fwPc' = "ready"
  /\ UNCHANGED <<cudaVars, block, first, queued, span, compute, haveDelta, sequence, forwards>>

\* acquire(b): prefetch(b), then the compute stream waits for it, then prefetch(b + 1).
AcquireBlock ==
  /\ fwPc = "ready"
  /\ Prefetch(block)
  /\ fwPc' = IF Offloaded(block) THEN "next" ELSE "run"
  /\ UNCHANGED <<memory, block, first, span, compute, haveDelta, sequence, forwards>>

WaitReady == Issue(<<WaitFor(<<"filled", Slot(block)>>)>>, <<>>, {})

AcquireWaits ==
  /\ fwPc = "next"
  /\ WaitReady
  /\ fwPc' = "ahead"
  /\ UNCHANGED <<memory, block, first, queued, span, compute, haveDelta, sequence, forwards>>

PrefetchNext ==
  /\ fwPc = "ahead"
  /\ Prefetch(block + 1)
  /\ fwPc' = "run"
  /\ UNCHANGED <<memory, block, first, span, compute, haveDelta, sequence, forwards>>

\* run_block, and at the end of the span the delta: the stream minus what entered, in place.
Kernel(b) == IF Offloaded(b) THEN <<Work(At(Device(b), Weights(b)), None)>> ELSE <<>>
Captures == Cached /\ compute /\ block = span[2] - 1
Capture == IF Captures
           THEN <<Work(At(Delta, <<"before", sequence>>), At(Delta, <<"delta", sequence>>))>>
           ELSE <<>>

RunBlock ==
  /\ fwPc = "run"
  /\ Issue(Kernel(block) \o Capture, <<>>, {})
  /\ haveDelta' = (haveDelta \/ Captures)
  /\ block' = block + 1
  /\ fwPc' = IF block + 1 = NumBlocks THEN "sync" ELSE "block"
  /\ UNCHANGED <<memory, first, queued, span, compute, sequence, forwards>>

\* run_block throws (a workspace that does not fit, an unsupported projection); what it issued
\* before stays in the stream.
BlockThrows ==
  /\ fwPc = "run"
  /\ fwPc' = "idle"
  /\ \/ UNCHANGED <<queue, running, recorded, reached>>
     \/ Offloaded(block) /\ Issue(Kernel(block), <<>>, {})
  /\ UNCHANGED <<memory, block, first, queued, span, compute, haveDelta, sequence, forwards>>

ForwardReturns ==
  /\ fwPc = "sync" /\ Idle("compute")
  /\ fwPc' = "idle"
  /\ UNCHANGED <<cudaVars, block, first, queued, span, compute, haveDelta, sequence, forwards>>

\* unload() destroys the streamer, whose destructor drains both streams before its buffers go.
Drained == Idle("compute") /\ Idle("copy")

Unload ==
  /\ fwPc = "idle" /\ Drained
  /\ fwPc' = "unloaded"
  /\ memory' = Restrict(memory, DOMAIN memory \cap {Delta})
  /\ UNCHANGED <<queue, running, recorded, reached, block, first, queued, span, compute, haveDelta, sequence, forwards>>

ForwardStep ==
  \/ ReuseSpan \/ EnterSpan \/ EnterBlock \/ AcquireBlock \/ AcquireWaits \/ PrefetchNext
  \/ RunBlock \/ BlockThrows \/ ForwardReturns

TransformerNext == PrepareSequence \/ BeginForward \/ ForwardStep \/ Unload
=============================================================================
