----------------------------- MODULE TensorOps -----------------------------
(***************************************************************************)
(* The operators of a Vulkan TensorBatch (src/src/vulkan/tensor_*.cpp).    *)
(* An operator reads tensors row by row (ins) or as a whole (all), writes  *)
(* others (outs), asks for the accesses uses in this order, and takes n of *)
(* the batch's max_batch_operators.  rows is the part of the sequence it   *)
(* works on, par its parameters, and legal says whether the tensors it was *)
(* given are as distinct as the code demands.  Shapes, types and what a    *)
(* shader computes are left out: a value is the operator applied to the    *)
(* values it read.                                                         *)
(***************************************************************************)
EXTENDS Integers, Sequences, FiniteSets, SequencesExt

Slots == 1..3                       \* row ranges; three are enough to tell a range, its rest and a gap

R(t) == [t |-> t, a |-> "ComputeRead"]
W(t) == [t |-> t, a |-> "ComputeWrite"]
RW(t) == [t |-> t, a |-> "ComputeReadWrite"]
TR(t) == [t |-> t, a |-> "TransferRead"]
TW(t) == [t |-> t, a |-> "TransferWrite"]

Rs(ts) == [i \in DOMAIN ts |-> R(ts[i])]
Ws(ts) == [i \in DOMAIN ts |-> W(ts[i])]
Distinct(ts) == \A i, j \in DOMAIN ts : i # j => ts[i] # ts[j]

Operator(op, ins, all, outs, uses, legal) ==
  [op |-> op, par |-> <<>>, ins |-> ins, all |-> all, outs |-> outs, uses |-> uses, n |-> 1,
   rows |-> Slots, legal |-> legal]

On(rows, o) == [o EXCEPT !.rows = rows]
With(par, o) == [o EXCEPT !.par = par]
Counted(n, o) == [o EXCEPT !.n = n]

\* Reads ins, writes outs, and none of them may be another.
Compute(op, ins, outs) == Operator(op, ins, <<>>, outs, Rs(ins) \o Ws(outs), Distinct(ins \o outs))

\* Reads and writes t.
Update(op, t, ins) == Operator(op, <<t>> \o ins, <<>>, <<t>>, <<RW(t)>> \o Rs(ins), Distinct(<<t>> \o ins))

\* dst may be src.
MayUpdate(op, src, ins, dst) == IF src = dst THEN Update(op, src, ins) ELSE Compute(op, <<src>> \o ins, <<dst>>)

\* A transfer moves a value.
Move(src, dst) == Operator("copy", <<src>>, <<>>, <<dst>>, <<TR(src), TW(dst)>>, src # dst)

\* One access for each distinct tensor; the written one is read as well.
Deduplicated(op, ins, outs) ==
  LET bound == ins \o outs
      First(i) == \A j \in 1..(i - 1) : bound[j] # bound[i]
      use == [i \in DOMAIN bound |-> IF \E k \in DOMAIN outs : outs[k] = bound[i] THEN RW(bound[i]) ELSE R(bound[i])]
      kept == SelectSeq([i \in DOMAIN bound |-> i], First)
  IN Operator(op, ins, <<>>, outs, [i \in DOMAIN kept |-> use[kept[i]]], TRUE)

\* The rows of the results that are compared: all of those of the tensors ts.
All(ts) == [t \in ts |-> Slots]

\* A batch begins, and n operators are declared to be enough for what will be recorded.
Declare(n) == Counted(0, With(<<n>>, Operator("begin", <<>>, <<>>, <<>>, <<>>, TRUE)))

-----------------------------------------------------------------------------
(* tensor_pointwise.cpp *)

copy(src, dst) == Move(src, dst)
copy_rows(src, dst, rows) == On(rows, Move(src, dst))
add(a, b, out) == Operator("add", <<a, b>>, <<>>, <<out>>, <<R(a), R(b), W(out)>>, out \notin {a, b})
convert(src, dst) == Compute("convert", <<src>>, <<dst>>)
transpose_2d(src, dst) == Compute("transpose", <<src>>, <<dst>>)
gather_rows(src, idx, dst) == Compute("gather", <<src, idx>>, <<dst>>)
scatter_rows(src, idx, dst) == Compute("scatter", <<src, idx>>, <<dst>>)
add_bias(src, bias, dst) == MayUpdate("add_bias", src, <<bias>>, dst)
layer_scale_residual_f32(x, y, bias, scale) == Update("layer_scale_residual", x, <<y, bias, scale>>)
swiglu_bias_f32(src, bias, dst) == Compute("swiglu_bias", <<src, bias>>, <<dst>>)
latent_denorm_f32(src, mean, std, dst) == Compute("denorm", <<src, mean, std>>, <<dst>>)
heads_to_tokens_bf16(src, dst) == Compute("heads_to_tokens", <<src>>, <<dst>>)
depth_to_space(src, dst) == Compute("depth_to_space", <<src>>, <<dst>>)

-----------------------------------------------------------------------------
(* tensor_norm.cpp, tensor_recording.h *)

rope_bf16(data, cos, sin, neox) == With(<<neox>>, Update("rope", data, <<cos, sin>>))
split_qkv_norm_rope_f32(qkv, bias, cos, sin, q, k, v) ==
  Compute("split_qkv_norm_rope", <<qkv, bias, cos, sin>>, <<q, k, v>>)
rms_norm(src, w, dst) == MayUpdate("rms_norm", src, <<w>>, dst)
layer_norm(src, w, b, dst) == MayUpdate("layer_norm", src, <<w, b>>, dst)
rms_norm_bf16(src, w, dst) == MayUpdate("rms_norm", src, <<w>>, dst)
rms_norm_heads_bf16(src, w, dst) == MayUpdate("head_rms_norm", src, <<w>>, dst)
layer_norm_bf16(src, w, b, dst) == MayUpdate("layer_norm", src, <<w, b>>, dst)
rms_norm_modulate(src, w, scale, shift, index, dst) ==
  MayUpdate("rms_norm_modulate_tables", src, <<w, scale, shift, index>>, dst)
rms_norm_modulate_bf16_table(src, w, table, scale, shift, index, dst) ==
  With(<<scale, shift>>, MayUpdate("rms_norm_modulate", src, <<w, table, index>>, dst))

-----------------------------------------------------------------------------
(* tensor_dit.cpp *)

dit_add_gated_bf16(x, branch, gate, index) == Update("add_gated_gate", x, <<branch, gate, index>>)
dit_add_gated_bf16_table(x, branch, table, gate, index) ==
  With(<<gate>>, Update("add_gated", x, <<branch, table, index>>))
dit_swiglu_bf16(fused, out) == Compute("swiglu", <<fused>>, <<out>>)
dit_expand_adaln(w, b, code, out) == Compute("expand_adaln", <<w, b, code>>, <<out>>)
dit_euler_step_f32(x, v) == Update("euler", x, <<v>>)

-----------------------------------------------------------------------------
(* tensor_conditioning.cpp *)

text_add_residual_bf16(x, branch) == Update("add_residual", x, <<branch>>)
text_swiglu_split_bf16(gate, up, out) == Compute("swiglu_split", <<gate, up>>, <<out>>)
vision_gelu_tanh_bf16(x) == Update("gelu_tanh", x, <<>>)
vision_add_positions_bf16(x, table, index) == Update("add_positions", x, <<table, index>>)
vision_split_qkv_bf16(fused, q, k, v) == Counted(3, Compute("split_qkv", <<fused>>, <<q, k, v>>))
vision_merge_four_bf16(src, dst) == Compute("merge_four", <<src>>, <<dst>>)
vision_scatter_add_bf16(src, dst, index) ==
  Operator("scatter_add", <<src, dst, index>>, <<>>, <<dst>>, <<R(src), RW(dst), R(index)>>, Distinct(<<src, dst, index>>))
vision_scatter_bf16(src, dst, index) ==
  Operator("vision_scatter", <<src, dst, index>>, <<>>, <<dst>>, <<R(src), W(dst), R(index)>>, Distinct(<<src, dst, index>>))

-----------------------------------------------------------------------------
(* tensor_weights.cpp, tensor_gemm.cpp: a weight is a name, p.data and so on its tensors. *)

Part(p, suffix) == p \o suffix

\* LinearWeight::materialize_bf16, materialize_f16.
materialize(p, aux, dense) ==
  LET stored == <<Part(p, ".data")>> \o [i \in DOMAIN aux |-> Part(p, aux[i])]
  IN [Compute("materialize", stored, <<dense>>) EXCEPT !.ins = <<Part(p, ".data")>>]
apply_pre_quant_scale(p, src, dst) == Compute("pre_quant_scale", <<src, Part(p, ".pre_scale")>>, <<dst>>)
apply_convrot(src, dst) == Compute("convrot", <<src>>, <<dst>>)
w4a8_linear(p, rotated, scratch, dst) ==
  LET weight == <<Part(p, ".data"), Part(p, ".block_scale"), Part(p, ".codebook"), Part(p, ".scale")>>
  IN <<[Compute("quantize", <<rotated>>, <<scratch>>) EXCEPT !.legal = Distinct(<<rotated, scratch, dst>>)],
       [Compute("integer_gemm", weight \o <<scratch>>, <<dst>>) EXCEPT !.ins = <<scratch, weight[1]>>]>>
\* DenseGemmPlan::record; a bias is none or one tensor.
gemm(src, dense, bias, dst) == Compute("gemm", <<src, dense>> \o bias, <<dst>>)

-----------------------------------------------------------------------------
(* tensor_attention.cpp, veda_attention.cpp *)

\* PreparedAttentionInputs::prepare and BlockedAttentionPlan::record.
prepare_attention(q, k, v, q16, k16, v16) == Compute("to_f16", <<q, k, v>>, <<q16, k16, v16>>)
blocked_attention(q, k, v, q16, k16, v16, out) ==
  [Operator("attention", <<q16>>, <<k16, v16>>, <<out>>, Rs(<<q16, k16, v16>>) \o <<W(out)>>, out \notin {q, k, v})
   EXCEPT !.legal = @ /\ Distinct(<<q16, k16, v16, out>>)]

\* H3AttentionPlan::record; sage says whether its workspace is used, pv is none or one tensor.
h3_attention(q, k, v, out, ranges, sage, pv) ==
  LET q8 == "attention.q8"
      k8 == "attention.k8"
      aux == "attention.aux"
      work == IF ~sage THEN Rs(ranges)
              ELSE Ws(<<q8, k8, aux>> \o pv) \o <<RW(aux), RW(aux)>> \o Rs(<<q8, k8, aux>> \o pv \o ranges)
  IN Operator("attention", <<q>> \o ranges, <<k, v>>, <<out>>, Rs(<<q, k, v>>) \o <<W(out)>> \o work,
              Distinct(<<q, k, v, out>>))

\* VsaAttentionPlan::record and add_compression.
vsa_attention(q, k, v, out) ==
  LET pooled == "vsa.pooled"
      mask == "vsa.mask"
  IN Counted(3, Operator("vsa_attention", <<q, "vsa.geometry">>, <<k, v>>, <<out, "vsa.compressed">>,
                         Rs(<<q, k, v, "vsa.geometry">>) \o Ws(<<pooled, mask, "vsa.compressed", out>>)
                           \o Rs(<<pooled, mask>>),
                         Distinct(<<q, k, v, out>>)))
vsa_add_compression(gate, out) ==
  Operator("add_compression", <<out, gate, "vsa.geometry", "vsa.compressed">>, <<>>, <<out>>,
           Rs(<<gate, "vsa.geometry", "vsa.compressed">>) \o <<RW(out)>>, gate # out)

\* VedaAttentionPlan::record: one operator for each head.
veda_attention(heads, projection, q, k, v, out) ==
  LET work == Ws(<<"veda.features">>) \o Rs(<<"veda.features">>) \o Ws(<<"veda.projected">>) \o Rs(<<"veda.projected">>)
                \o Ws(<<"veda.mask">>) \o Rs(<<"veda.mask">>) \o Ws(<<out>>)
      OfHead(h) == Rs(<<"veda.geometry">>) \o work
  IN Counted(heads, Operator("veda_attention", <<q>>, <<k, v, projection>>, <<out>>,
                             Rs(<<q, k, v, projection>>) \o OfHead(1) \o (IF heads > 1 THEN OfHead(2) ELSE <<>>),
                             Distinct(<<q, k, v, out>>)))

\* CausalGQAAttentionPlan::record.
causal_gqa_attention(q, k, v, out) ==
  Operator("causal_attention", <<q>>, <<k, v>>, <<out>>, Rs(<<q, k, v>>) \o <<W(out)>>, Distinct(<<q, k, v, out>>))

-----------------------------------------------------------------------------
(* tensor_reference.cpp, tensor_krea.cpp, tensor_music.cpp, tensor_sol_vae.cpp *)

group_norm_silu_f16_affine(src, w, b, dst) == MayUpdate("group_norm_silu", src, <<w, b>>, dst)
reference_operation(op, ins, out) ==
  Operator(op, ins, <<>>, <<out>>, Rs(ins) \o <<W(out)>>, \A i \in DOMAIN ins : ins[i] # out)
keyframe_conv3d_f16(src, w, b, dst) == Compute("conv3d", <<src, w, b>>, <<dst>>)
keyframe_group_norm_silu_f16_affine(src, w, b, dst) == Compute("group_norm_silu", <<src, w, b>>, <<dst>>)
keyframe_add_f32(a, b, out) == Compute("add", <<a, b>>, <<out>>)
krea_operation(op, ins, out) == Deduplicated(op, ins, <<out>>)
music_operation(op, ins, out) == Deduplicated(op, ins, <<out>>)
sol_vae_operation(op, ins, outs) == Deduplicated(op, ins, outs)

-----------------------------------------------------------------------------
(* tensor_audio.cpp *)

audio_conv1d(src, w, bias, dst) == Compute("conv1d", <<src, w>> \o bias, <<dst>>)
audio_conv_transpose1d(src, w, bias, dst) == Compute("conv_transpose1d", <<src, w>> \o bias, <<dst>>)
audio_add_inplace(x, y) == Update("add", x, <<y>>)
audio_copy_prefix(src, dst) == Move(src, dst)
audio_scale_inplace(x, scale) == With(<<scale>>, Update("scale", x, <<>>))
audio_clamp_inplace(x) == Update("clamp", x, <<>>)
audio_interleave(src, dst) == Compute("interleave", <<src>>, <<dst>>)
audio_snake_beta_inplace(x, alpha, beta) == Update("snake", x, <<alpha, beta>>)
audio_aa_upsample_snake(src, filter, alpha, beta, dst) == Compute("upsample_snake", <<src, filter, alpha, beta>>, <<dst>>)
audio_aa_downsample(src, filter, dst) == Compute("downsample", <<src, filter>>, <<dst>>)

-----------------------------------------------------------------------------
(* A linear projection: its quantised weight and its LoRA factors, as both *)
(* backends run it (src/src/vulkan/dit_block.cpp, text_layer.cpp, lora.cpp; *)
(* src/src/cuda/linear.cu, lora.cu and dit/transformer_execution.cpp).      *)

\* A weight: the name of its tensors, whether its activation is scaled and rotated first, whether
\* it is multiplied in its packed form, whether a dense form is kept, and its LoRA factors.
Weight(p, kind, factors) ==
  [p |-> p, pre |-> kind \in {"pre", "pre+rotated"}, rotated |-> kind \in {"rotated", "pre+rotated", "packed"},
   packed |-> kind = "packed", streamed |-> kind # "resident", factors |-> factors]

Kinds == {"resident", "streamed", "pre", "rotated", "pre+rotated", "packed"}
Factor(w, i, x) == Part(w.p, <<".a1", ".b1", ".a2", ".b2">>[2 * i - (IF x = "a" THEN 1 ELSE 0)])
Stored(w) == {Part(w.p, s) : s \in {".data", ".pre_scale"}} \cup {Factor(w, i, x) : i \in 1..w.factors, x \in {"a", "b"}}

Dense(w) == Part(w.p, ".dense")
Cache == "cache.dense"                 \* the one StreamedNVFP4WeightCache of a scratch

If(condition, ops) == IF condition THEN ops ELSE <<>>

-----------------------------------------------------------------------------
(* Vulkan.                                                                 *)

\* A GEMM's rows: whole tiles of 64 and the rest.  96 stands for any count with both.
Tiled(rows) == IF rows < 64 THEN {} ELSE IF rows % 64 = 0 THEN Slots ELSE {1, 2}
RowParts(rows, o) ==
  If(rows >= 64, <<On(Tiled(rows), o)>>) \o If(rows % 64 # 0, <<On(Slots \ Tiled(rows), o)>>)

\* load_projection: a dense form is made while loading.
LoadProjection(w) == If(~w.streamed, <<Declare(1), materialize(w.p, <<>>, Dense(w))>>)

\* LoraProjection::record.
RecordLora(w, input, output, rows) ==
  FlattenSeq([i \in 1..w.factors |->
    RowParts(rows, gemm(input, Factor(w, i, "a"), <<>>, "lora.hidden"))
    \o RowParts(rows, gemm("lora.hidden", Factor(w, i, "b"), <<>>, "lora.delta"))
    \o <<text_add_residual_bf16(output, "lora.delta")>>])

\* transformed_input.
Scaled(w, input, a) == IF w.pre THEN a ELSE input
RotatedInPlace(w, input, a, b) == IF ~w.rotated THEN Scaled(w, input, a) ELSE a   \* mistake
Source(w, input, a, b) == IF ~w.rotated THEN Scaled(w, input, a) ELSE IF w.pre THEN b ELSE a
TransformInput(w, input, a, b) ==
  If(w.pre, <<apply_pre_quant_scale(w.p, input, a)>>)
  \o If(w.rotated, <<apply_convrot(Scaled(w, input, a), Source(w, input, a, b))>>)

LoraOfSource(w, input, a, b) == Source(w, input, a, b)   \* mistake: LoRA of the rotated activation
LoraInput(w, input, a, b) == input

\* projection.
RecordProjection(w, input, output, a, b, rows) ==
  LET source == Source(w, input, a, b)
  IN TransformInput(w, input, a, b)
     \o (IF w.packed THEN w4a8_linear(w.p, source, b, output)
         ELSE If(w.streamed, <<materialize(w.p, <<>>, Cache)>>)
              \o RowParts(rows, gemm(source, IF w.streamed THEN Cache ELSE Dense(w), <<>>, output)))
     \o RecordLora(w, LoraInput(w, input, a, b), output, rows)

\* projection_operators, LoraProjection::operators.
One(condition) == IF condition THEN 1 ELSE 0
PartCount(rows) == One(rows >= 64) + One(rows % 64 # 0)
LoraOperators(w, rows) == w.factors * (2 * PartCount(rows) + 1)
UncountedMaterialization(w, rows) ==   \* mistake
  (IF w.packed THEN 3 ELSE One(w.pre) + One(w.rotated) + PartCount(rows)) + LoraOperators(w, rows)
ProjectionOperators(w, rows) ==
  (IF w.packed THEN 3 ELSE One(w.pre) + One(w.rotated) + One(w.streamed) + PartCount(rows))
  + LoraOperators(w, rows)

-----------------------------------------------------------------------------
(* CUDA.  Dense weights and temporaries are carved one after the other from *)
(* an arena whose cursor each scope rewinds.                               *)

Arena == <<"arena1", "arena2", "arena3", "arena4", "arena5", "arena6">>
ArenaAndLora == Range(Arena) \cup {"lora.hidden", "lora.delta"}

\* LinearRunner::prepare of several weights in one scope; a packed one has no dense form.
DenseAt(ws, i) == Cardinality({j \in 1..i : ~ws[j].packed})
Prepared(ws) == FlattenSeq([i \in DOMAIN ws |-> If(~ws[i].packed, <<materialize(ws[i].p, <<>>, Arena[DenseAt(ws, i)])>>)])
Cursor(ws) == DenseAt(ws, Len(ws))

\* LoraRunner::apply.
ApplyLora(w, input, output) ==
  FlattenSeq([i \in 1..w.factors |->
    <<gemm(input, Factor(w, i, "a"), <<>>, "lora.hidden"), gemm("lora.hidden", Factor(w, i, "b"), <<>>, "lora.delta"),
      text_add_residual_bf16(output, "lora.delta")>>])

\* LinearRunner::forward_prepared and the exact projection of run_block, for weight i of those
\* prepared together.
Multiply(w, dense, input, output, top) ==
  IF w.packed
  THEN <<apply_convrot(input, Arena[top + 1])>> \o w4a8_linear(w.p, Arena[top + 1], Arena[top + 2], output)
  ELSE LET scaled == Scaled(w, input, Arena[top + 1])
           source == IF w.rotated THEN Arena[top + 1 + One(w.pre)] ELSE scaled
       IN If(w.pre, <<apply_pre_quant_scale(w.p, input, scaled)>>)
          \o If(w.rotated, <<apply_convrot(scaled, source)>>)
          \o <<gemm(source, dense, <<>>, output)>>

Project(ws, i, input, output) ==
  Multiply(ws[i], Arena[DenseAt(ws, i)], input, output, Cursor(ws)) \o ApplyLora(ws[i], input, output)

\* The same operators for one chunk of rows, or for each in turn.
OnRows(rows, ops) == [i \in DOMAIN ops |-> On(rows, ops[i])]
ForChunks(chunks, ops) == FlattenSeq([c \in DOMAIN chunks |-> OnRows(chunks[c], ops)])
=============================================================================
