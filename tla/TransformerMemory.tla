------------------------- MODULE TransformerMemory -------------------------
(***************************************************************************)
(* The CUDA transformer's scratch arena: how large load, prepare_text and  *)
(* prepare_sequence make it and what the calls then carve from it          *)
(* (src/src/dit/transformer_support.h, transformer_prepare.cpp,            *)
(* transformer_execution.cpp, transformer.cpp, src/src/cuda/linear.cu and  *)
(* workspace.cu).  Attention's own scratch is the same on both sides and   *)
(* left out.                                                               *)
(***************************************************************************)
EXTENDS Integers, FiniteSets, FiniteSetsExt

CONSTANTS
  Hidden, Inner, Ffn, TextDim, TimestepDim,   \* of the transformer
  ScratchAlign,  \* what every piece is rounded up to (256)
  RowChunk,      \* rows a loop takes at once (2048)
  GroupColumns,  \* of a ConvRot rotation (256)
  NativeRows,    \* rows the native NVFP4 GEMM takes at once (8192)
  Stacks,        \* the transformers to look at: the formats of their condition, attention and
                 \* feed-forward weights, whether those are rotated, and how they run
  Prompts,       \* tokens of a text
  Videos,        \* further rows of a sequence
  Timesteps      \* distinct timesteps of a step

ASSUME MemoryAssumption ==
  /\ {Hidden, Inner, Ffn, TextDim, TimestepDim, ScratchAlign, RowChunk, GroupColumns, NativeRows}
       \subseteq Nat \ {0}
  /\ Prompts \cup Videos \cup Timesteps \subseteq Nat
\* A chunk is at most half as long as a token is wide, and the widths are those of a transformer
\* (2048; 5376, 7168 and 14336).
ASSUME WidthsAssumption ==
  2 * RowChunk <= Hidden /\ Hidden <= Inner /\ 2 * Hidden <= Ffn /\ ScratchAlign <= RowChunk /\ 32 <= Hidden
ASSUME StacksAssumption ==
  \A s \in Stacks : {s.rotated, s.vsa, s.fullAdaLN, s.native, s.fullQueries} \subseteq BOOLEAN

VARIABLES
  stack,     \* the loaded transformer, <<>> for none
  scratch,   \* the arena: its bytes, where its cursor was left, what the last call needed of it
  prepared   \* what was prepared: tokens (-1 for no text) and rows (0 for no
             \* sequence), and whether the sequence came last

memoryVars == <<stack, scratch, prepared>>

Padded(n) == ((n + ScratchAlign - 1) \div ScratchAlign) * ScratchAlign
Larger(S) == Max(S \cup {0})

-----------------------------------------------------------------------------
(* What a linear weight needs, by the functions that plan for it.          *)

IsPackedInt8(format) == format \in {"W4", "W6"}
LinearOf(format, out, in, rotated) == [format |-> format, out |-> out, in |-> in, rotated |-> rotated]
Rotates(w) == w.rotated /\ w.in % GroupColumns = 0

\* Packed weights: integer codes, a rotated and a quantised activation, its scales, the sums.
PackedBytes(w, rows) ==
  Padded(w.out * w.in) + Padded(2 * rows * w.in) + Padded(rows * w.in) + Padded(4 * rows) + Padded(4 * rows * w.out)
\* The native GEMM: a quantised activation and its scales, a pass at a time.
NativeBytes(w, rows) ==
  LET r == Min({rows, NativeRows}) IN Padded((r * w.in) \div 2) + Padded((r * w.in) \div 16)

\* linear_workspace_bytes, of products in fp32.
LinearWorkspaceBytes(w, rows) ==
  (IF w.format # "F32" THEN Padded(2 * w.out * w.in) + Padded(4 * w.out * w.in) ELSE 0)
    + (IF Rotates(w) THEN Padded(4 * rows * w.in) ELSE 0)

LinearDenseWeightBytes(w) ==
  IF w.format = "BF16" \/ IsPackedInt8(w.format) THEN 0 ELSE Padded(2 * w.out * w.in)

-----------------------------------------------------------------------------
(* plan_carve.                                                             *)

Chunk(rows) == Min({RowChunk, Larger({rows, 1})})

\* compact_queries, and more rows than a chunk.
Chunked(mode, vsa, rows) == mode = "compact" /\ ~vsa /\ rows > Chunk(rows)

\* q, k, v and the attention's output; a normed chunk, the fused hidden and the gated one, a branch.
BlockPieces(rows, chunked, vsa) ==
  LET chunk == Chunk(rows)
      queries == IF chunked THEN chunk ELSE rows
  IN 2 * Padded(2 * queries * Inner) + 2 * Padded(2 * rows * Inner)
       + 2 * Padded(2 * chunk * Hidden) + Padded(2 * chunk * Larger({2 * Ffn, IF vsa THEN Inner ELSE 0}))
       + Padded(2 * chunk * Ffn)
\* And the two fp32 chunks of the heads.
Pieces(rows, chunked, vsa) == BlockPieces(rows, chunked, vsa) + 2 * Padded(4 * Chunk(rows) * Hidden)

\* The most a loop over chunks holds: the dense copies of its weights, and one activation.
OneWeightAtATime(rows, rotated) ==   \* mistake: the loops still decode one weight at a time
  LET probe(out, in) == LinearOf("F8", out, in, rotated)
      one(out, in) == LinearDenseWeightBytes(probe(out, in))
                        + (IF rotated THEN Padded(2 * Chunk(rows) * in) ELSE 0)
  IN Larger({one(Inner, Hidden), one(Hidden, Inner), one(2 * Ffn, Hidden), one(Hidden, Ffn),
             LinearWorkspaceBytes(LinearOf("BF16", Hidden, TextDim, FALSE), Chunk(rows))})
PlanScratch(rows, rotated) ==
  LET dense(out, in) == LinearDenseWeightBytes(LinearOf("F8", out, in, rotated))
      activation(out, in) == IF rotated THEN Padded(2 * Chunk(rows) * in) ELSE 0
  IN Larger({3 * dense(Inner, Hidden) + activation(Inner, Hidden),
             dense(Hidden, Inner) + activation(Hidden, Inner),
             dense(Inner, Hidden) + dense(Hidden, Inner)
               + Larger({activation(Inner, Hidden), activation(Hidden, Inner)}),
             dense(2 * Ffn, Hidden) + dense(Hidden, Ffn)
               + Larger({activation(2 * Ffn, Hidden), activation(Hidden, Ffn)}),
             LinearWorkspaceBytes(LinearOf("BF16", Hidden, TextDim, FALSE), Chunk(rows))})

PlanCarve(s, rows, mode, vsa, rotated) ==
  Pieces(rows, Chunked(mode, vsa, rows), vsa) + Padded(PlanScratch(rows, rotated))

\* The text refiner runs Flash2 unless attention is exact, without VSA.
TextMode(s) ==
  IF s.mode = "exact" THEN "exact" ELSE IF s.fullQueries THEN "full" ELSE "compact"

\* stack_uses_convrot.
AnyRotated(s) == s.rotated \/ IsPackedInt8(s.attention) \/ IsPackedInt8(s.mlp)

TextPlan(s, tokens) == PlanCarve(s, tokens, TextMode(s), FALSE, AnyRotated(s))

\* A full AdaLN's projections are products in fp32, of eighteen parameters of every timestep.
FullAdaLN == LinearOf("F8", 18 * Hidden, TimestepDim, FALSE)
AdaLNExcess(s, rows, timesteps, rotated) ==
  IF s.fullAdaLN
  THEN Larger({Padded(LinearWorkspaceBytes(FullAdaLN, timesteps)) - Padded(PlanScratch(rows, rotated))})
  ELSE 0

SequencePlan(s, rows) ==
  PlanCarve(s, rows, s.mode, s.vsa, AnyRotated(s)) + AdaLNExcess(s, rows, 2, AnyRotated(s))

SizedAsStored(s, tokens, rows) ==   \* mistake: weights rotate only if the format says so
  Larger({PlanCarve(s, rows, s.mode, s.vsa, FALSE) + AdaLNExcess(s, rows, 4, FALSE),
          PlanCarve(s, tokens, TextMode(s), FALSE, FALSE) + tokens * (6 * TextDim + 2 * Hidden)})
\* What load sets aside for the arena and the prompt's own buffers, whether weights rotate or not.
Estimate(s, tokens, rows) ==
  Larger({PlanCarve(s, rows, s.mode, s.vsa, TRUE) + AdaLNExcess(s, rows, 4, TRUE),
          PlanCarve(s, tokens, TextMode(s), FALSE, TRUE) + tokens * (6 * TextDim + 2 * Hidden)})

-----------------------------------------------------------------------------
(* What the calls carve.                                                   *)

\* LinearRunner::takes_native_nvfp4.
TakesNative(s, w) == s.native /\ w.format = "NVFP4" /\ ~Rotates(w)

\* LinearRunner::prepare: the dense copy, kept through a loop.
Prepares(s, w) ==
  IF TakesNative(s, w) \/ IsPackedInt8(w.format) \/ w.format = "BF16" THEN 0 ELSE Padded(2 * w.out * w.in)

\* forward_prepared, or run_block's exact products: given back after each projection.
Projects(s, w, rows, exact) ==
  CASE IsPackedInt8(w.format) -> PackedBytes(w, rows)
    [] ~exact /\ TakesNative(s, w) -> NativeBytes(w, rows)
    [] OTHER -> IF Rotates(w) THEN Padded(2 * rows * w.in) ELSE 0

\* A loop over chunks holds the dense copies of its weights, n of a kind or two of two kinds, and one
\* projection's pieces at a time.
LoopOf(s, n, w, rows, exact) == n * Prepares(s, w) + Projects(s, w, Chunk(rows), exact)
LoopOfTwo(s, v, w, rows, exact) ==
  Prepares(s, v) + Prepares(s, w) + Larger({Projects(s, x, Chunk(rows), exact) : x \in {v, w}})

\* run_block's loops, with chunked queries or without, and the gate of VSA.
BlockPeak(s, rows, mode, gated) ==
  LET exact == mode = "exact"
      attention(out, in) == LinearOf(s.attention, out, in, s.rotated \/ IsPackedInt8(s.attention))
      mlp(out, in) == LinearOf(s.mlp, out, in, s.rotated \/ IsPackedInt8(s.mlp))
      slice == attention(Inner, Hidden)
      output == attention(Hidden, Inner)
      loops == IF Chunked(mode, gated, rows)
               THEN {LoopOf(s, 2, slice, rows, exact), LoopOfTwo(s, slice, output, rows, exact)}
               ELSE {LoopOf(s, 3, slice, rows, exact), LoopOf(s, 1, output, rows, exact)}
                      \cup (IF gated THEN {LoopOf(s, 1, slice, rows, exact)} ELSE {})
  IN Larger(loops \cup {LoopOfTwo(s, mlp(2 * Ffn, Hidden), mlp(Hidden, Ffn), rows, exact)})

\* Needs of a call, after what it leaves carved.
Needs(bytes, cursor) == [scratch EXCEPT !.cursor = cursor, !.peak = bytes]

-----------------------------------------------------------------------------
(* The calls.                                                              *)

Unused ==
  /\ scratch = [capacity |-> 0, cursor |-> 0, peak |-> 0]
  /\ prepared = [tokens |-> -1, rows |-> 0, fresh |-> FALSE]
MemoryInit == stack \in Stacks /\ Unused
MemoryIdle == stack = <<>> /\ Unused

\* The arena grows for the text and the narrowed prompt, and stays as large as it was.
PrepareText(tokens) ==
  LET s == stack
      prompt == Padded(2 * tokens * TextDim)
      condition == LinearOf(s.condition, Hidden, TextDim, FALSE)
      pieces == BlockPieces(tokens, Chunked(TextMode(s), FALSE, tokens), FALSE)
      first == IF TextMode(s) = "exact" THEN 0 ELSE LoopOf(s, 1, condition, tokens, FALSE)
  IN /\ (TextMode(s) = "exact" => s.condition = "BF16")
     /\ prepared' = [prepared EXCEPT !.tokens = tokens, !.fresh = FALSE]
     /\ IF tokens = 0 THEN scratch' = scratch
        ELSE scratch' =
               [capacity |-> Larger({scratch.capacity, Padded(TextPlan(s, tokens) + prompt)}),
                cursor |-> 0,
                peak |-> prompt + Larger({first, pieces + BlockPeak(s, tokens, TextMode(s), FALSE)})]
     /\ UNCHANGED stack

\* The arena takes the sequence's size, growing or shrinking.
PrepareSequence(more) ==
  /\ prepared.tokens >= 0 /\ prepared.tokens + more > 0
  /\ scratch' = [capacity |-> Padded(SequencePlan(stack, prepared.tokens + more)),
                 cursor |-> 0, peak |-> 0]
  /\ prepared' = [prepared EXCEPT !.rows = prepared.tokens + more, !.fresh = TRUE]
  /\ UNCHANGED stack

\* The modulation comes first, over what the step before left carved.
Forward(timesteps) ==
  LET s == stack
      rows == prepared.rows
      pieces == Pieces(rows, Chunked(s.mode, s.vsa, rows), s.vsa)
      modulation == IF s.fullAdaLN
                    THEN scratch.cursor + LinearWorkspaceBytes(FullAdaLN, timesteps) ELSE 0
  IN /\ rows > 0 /\ UNCHANGED <<stack, prepared>>
     /\ scratch' = Needs(Larger({modulation, pieces + BlockPeak(s, rows, s.mode, s.vsa)}), pieces)

MemoryNext ==
  \/ \E tokens \in Prompts : PrepareText(tokens)
  \/ \E more \in Videos : PrepareSequence(more)
  \/ \E timesteps \in Timesteps : Forward(timesteps)

MemorySpec == MemoryInit /\ [][MemoryNext]_memoryVars

MemoryTypeOK ==
  /\ stack \in Stacks
  /\ \A n \in {scratch.capacity, scratch.cursor, scratch.peak} : n \in Nat
  /\ prepared.tokens \in Prompts \cup {-1} /\ prepared.rows \in Nat

-----------------------------------------------------------------------------
(* Properties.                                                             *)

\* No call asks the arena for more than it was made to hold, whatever the formats of the weights,
\* the way attention runs, and what was prepared before (Workspace::alloc would throw half-way).
NeverExhausted == scratch.peak <= scratch.capacity

\* Had load been told of the text and the sequence that were prepared, what it set aside before the
\* weights were known would hold their arena, and the text's arena, narrowed prompt and cache.
EstimateCovers ==
  prepared.fresh =>
    LET estimate == Estimate(stack, prepared.tokens, prepared.rows)
    IN /\ scratch.capacity <= estimate + ScratchAlign
       /\ TextPlan(stack, prepared.tokens) + prepared.tokens * (6 * TextDim + 2 * Hidden) <= estimate

ArenaSuffices == NeverExhausted /\ EstimateCovers
=============================================================================
