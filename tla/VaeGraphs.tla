----------------------------- MODULE VaeGraphs -----------------------------
(***************************************************************************)
(* The decoders of the video and the audio VAE: src/src/vulkan/            *)
(* vae_vit_block.cpp, vae_decoder.cpp and audio_decoder.cpp against        *)
(* src/src/cuda/vae_vit_block.cu, vit_decoder.cu and                       *)
(* src/src/vae/audio_decoder.cpp; and the encoders of keyframes, reference *)
(* videos and reference audio: src/src/vulkan/keyframe_encoder.cpp and     *)
(* reference_encoder.cpp against src/src/vae/keyframe_cuda.cpp and         *)
(* audio_encoder.cpp.  A fused kernel is given as its parts, with a tensor *)
(* of its own between them.                                                *)
(***************************************************************************)
EXTENDS TensorOps, TLC

Concat(n, Ops(_)) == FlattenSeq([i \in 1..n |-> Ops(i)])
Numbered(t, i) == t \o ToString(i)

-----------------------------------------------------------------------------
(* The video decoder's transformer block.                                  *)

Layers == 2                \* bound: of 36
B(l, p) == Part(Numbered("block", l), p)

\* A GEMM whose activation is narrowed first.
NarrowedGemm(input, prepared, weight, output) ==
  <<convert(input, prepared), gemm(prepared, Part(weight, ".weight"), <<>>, output)>>
RmsNorm(tokens, l, n, normed) == <<rms_norm(tokens, B(l, n), normed)>>
Residual(tokens, l, proj, branch, scale) ==
  <<layer_scale_residual_f32(tokens, branch, B(l, Part(proj, ".bias")), B(l, scale))>>

\* ExactViTBlockStage::record, with one scratch for all layers and documents.
RecordViTBlock(l, tokens) ==
  LET Gemm(in, prepared, p, out) == NarrowedGemm(in, prepared, B(l, p), out)
  IN RmsNorm(tokens, l, ".norm1", "normed") \o Gemm("normed", "prepared_dim", ".qkv", "qkv")
     \o <<split_qkv_norm_rope_f32("qkv", B(l, ".qkv.bias"), "cos", "sin", "q", "k", "v"),
          heads_to_tokens_bf16("q", "q_bf16"), heads_to_tokens_bf16("k", "k_bf16"), heads_to_tokens_bf16("v", "v_bf16"),
          prepare_attention("q_bf16", "k_bf16", "v_bf16", "q16", "k16", "v16"),
          blocked_attention("q_bf16", "k_bf16", "v_bf16", "q16", "k16", "v16", "attention"),
          convert("attention", "normed")>>
     \o Gemm("normed", "prepared_dim", ".out", "projected") \o Residual(tokens, l, ".out", "projected", ".scale1")
     \o RmsNorm(tokens, l, ".norm2", "normed") \o Gemm("normed", "prepared_dim", ".w1", "ffn")
     \o <<swiglu_bias_f32("ffn", B(l, ".w1.bias"), "activation")>>
     \o Gemm("activation", "prepared_inner", ".w2", "projected") \o Residual(tokens, l, ".w2", "projected", ".scale2")

\* kRecordedOperators, kOperatorsPerLayer.
ViTBlockOperators == 20

\* ExactViTBlockGraph::record, and the CUDA graph, whose run_exact_block issues the same calls.
RecordViTGraph(tokens) == Concat(Layers, LAMBDA l : RecordViTBlock(l, tokens))

\* run_block of the shipped CUDA decoder: norms and products go over the rows of every document at
\* once, attention over one document at a time.
RunViTBlock(l, docs) ==
  LET T(d) == Numbered("tokens", d)
      In(d) == Numbered("gemm_in", d)
      EachDoc(Ops(_)) == Concat(docs, Ops)
      Gemm(p, Out(_)) == EachDoc(LAMBDA d : <<gemm(In(d), B(l, Part(p, ".weight")), <<>>, Out(d))>>)
      Norm(n) == EachDoc(LAMBDA d : RmsNorm(T(d), l, n, "fused") \o <<convert("fused", In(d))>>)
      Qkv(d) == Numbered("qkv", d)
      Normed(d) == Numbered("normed", d)
      Ffn(d) == Numbered("ffn", d)
      Attend(d) == <<split_qkv_norm_rope_f32(Qkv(d), B(l, ".qkv.bias"), "cos", "sin", "fused_q", "fused_k", "fused_v"),
                     heads_to_tokens_bf16("fused_q", "q_bf16"), heads_to_tokens_bf16("fused_k", "k_bf16"),
                     heads_to_tokens_bf16("fused_v", "v_bf16"),
                     prepare_attention("q_bf16", "k_bf16", "v_bf16", "work_q", "work_k", "work_v"),
                     blocked_attention("q_bf16", "k_bf16", "v_bf16", "work_q", "work_k", "work_v", "attn_bf16"),
                     convert("attn_bf16", "fused"), convert("fused", In(d))>>
  IN Norm(".norm1") \o Gemm(".qkv", Qkv) \o EachDoc(Attend)
     \o Gemm(".out", Normed) \o EachDoc(LAMBDA d : Residual(T(d), l, ".out", Normed(d), ".scale1"))
     \o Norm(".norm2") \o Gemm(".w1", Ffn)
     \o EachDoc(LAMBDA d : <<swiglu_bias_f32(Ffn(d), B(l, ".w1.bias"), "fused"), convert("fused", In(d))>>)
     \o Gemm(".w2", Normed) \o EachDoc(LAMBDA d : Residual(T(d), l, ".w2", Normed(d), ".scale2"))

-----------------------------------------------------------------------------
(* The video decoder.                                                      *)

\* The rows of a document: its patches, then the registers, then one row of zeros.
Patches == {1}
Registers == {2}
ZeroRow == {3}

Doc(d, p) == Part(Numbered("doc", d), p)

\* VideoVaeDecoder::Impl::record_document: what is prepared for a GEMM is shared by the documents.
RecordDocument(d) ==
  LET T(p) == Doc(d, p)
  IN OnRows(Patches,
       <<transpose_2d(T(".latent"), T(".patch"))>> \o NarrowedGemm(T(".patch"), "post_prepared", "post", T(".quantized"))
       \o <<add_bias(T(".quantized"), "post.bias", T(".quantized"))>>
       \o NarrowedGemm(T(".quantized"), "embed_prepared", "embed", T(".tokens")))
     \o <<add_bias(T(".tokens"), "embed.bias", T(".tokens")),
          On(Registers, scatter_rows("register_tokens", "register_indices", T(".tokens"))),
          On(ZeroRow, scatter_rows("zero_token", "zero_index", T(".tokens")))>>
     \o RecordViTGraph(T(".tokens"))
     \o OnRows(Patches,
          <<gather_rows(T(".tokens"), "patch_indices", T(".patch_tokens")),
            layer_norm(T(".patch_tokens"), "norm.weight", "norm.bias", T(".normed"))>>
          \o NarrowedGemm(T(".normed"), "proj_prepared", "proj", T(".projected"))
          \o <<add_bias(T(".projected"), "proj.bias", T(".projected")), depth_to_space(T(".projected"), T(".pixels"))>>)

\* decoder_operator_count.
FixedOperators == 15
DocumentOperators == FixedOperators + ViTBlockOperators * Layers

\* A transfer between the host and the device, outside any batch.
Transfer(src, dst) == On(Patches, [copy(src, dst) EXCEPT !.n = 0, !.uses = <<>>])
Latent(d) == Numbered("latent", d)
Output(docs, d) == Numbered("output", docs + 1 - d)      \* any slots: here the last document's is the first

\* forward_windows: as many documents in a transaction as its operators allow.
RecordWindows(docs, capacity) ==
  LET perTransaction == capacity \div DocumentOperators
      Transaction(t) ==
        LET first == (t - 1) * perTransaction
            n == IF first + perTransaction <= docs THEN perTransaction ELSE docs - first
        IN <<Declare(capacity)>> \o Concat(n, LAMBDA i : RecordDocument(first + i))
           \o Concat(n, LAMBDA i : <<Transfer(Doc(first + i, ".pixels"), Output(docs, first + i))>>)
  IN Concat(docs, LAMBDA d : <<Transfer(Latent(d), Doc(d, ".latent"))>>)
     \o Concat((docs + perTransaction - 1) \div perTransaction, Transaction)

\* ViTDecoder::forward_windows: every document's tokens first, then the blocks, then, one document
\* after the other, the projection of its patches, whose pixels are fetched before the next.
EmbedDocument(d) ==
  LET T(p) == Numbered(p, d)
      tokens == T("tokens")
  IN OnRows(Patches,
       <<transpose_2d(T("d_latent"), T("patch"))>> \o NarrowedGemm(T("patch"), "gemm_in1", "post", T("quantised"))
       \o <<add_bias(T("quantised"), "post.bias", T("quantised"))>>
       \o NarrowedGemm(T("quantised"), "gemm_in1", "embed", tokens) \o <<add_bias(tokens, "embed.bias", tokens)>>)
     \o <<On(Registers, scatter_rows("register_tokens", "register_indices", tokens)),
          On(ZeroRow, scatter_rows("zero_token", "zero_index", tokens))>>
ProjectDocument(docs, d) ==
  OnRows(Patches,
    <<gather_rows(Numbered("tokens", d), "patch_indices", "view"), layer_norm("view", "norm.weight", "norm.bias", "normed1")>>
    \o NarrowedGemm("normed1", "gemm_in1", "proj", "proj") \o <<add_bias("proj", "proj.bias", "proj"), depth_to_space("proj", "pixels")>>)
  \o <<Transfer("pixels", Output(docs, d))>>
ForwardWindows(docs, exact) ==
  Concat(docs, LAMBDA d : <<Transfer(Latent(d), Numbered("d_latent", d))>>) \o Concat(docs, EmbedDocument)
  \o (IF exact THEN Concat(docs, LAMBDA d : RecordViTGraph(Numbered("tokens", d)))
      ELSE Concat(Layers, LAMBDA l : RunViTBlock(l, docs)))
  \o Concat(docs, LAMBDA d : ProjectDocument(docs, d))

ViTWeights ==
  {B(l, p) : l \in 1..Layers, p \in {".norm1", ".norm2", ".scale1", ".scale2"}}
  \cup {B(l, Part(p, s)) : l \in 1..Layers, p \in {".qkv", ".out", ".w1", ".w2"}, s \in {".weight", ".bias"}}
DecoderWeights ==
  ViTWeights \cup {Part(p, s) : p \in {"post", "embed", "proj", "norm"}, s \in {".weight", ".bias"}}
  \cup {"register_tokens", "zero_token", "register_indices", "zero_index", "patch_indices"}

DecoderGraph(docs, capacity) ==
  [name |-> <<"video decoder", docs, capacity>>, inputs |-> {Latent(d) : d \in 1..docs} \cup {"cos", "sin"},
   weights |-> DecoderWeights,
   programs |-> <<[ops |-> RecordWindows(docs, capacity), first |-> {}],
                  [ops |-> ForwardWindows(docs, TRUE), first |-> {}],
                  [ops |-> ForwardWindows(docs, FALSE), first |-> {}]>>,
   results |-> [t \in {Numbered("output", d) : d \in 1..docs} |-> Patches]]
\* One document in a transaction, and two with room to spare.
DecoderGraphs == {DecoderGraph(d, c) : d \in {1, 3}, c \in {DocumentOperators, 2 * DocumentOperators + 1}}

-----------------------------------------------------------------------------
(* The audio decoder.                                                      *)

Stages == 3                \* bound: of 7; after three the buffers have returned to their places
Branches == 3              \* the three residual blocks of a stage
Dilations == <<1, 3, 5>>

\* record_conv and run_conv, whose parameter is the dilation.
Conv(conv, x, y, dilation) == With(<<dilation>>, audio_conv1d(x, Part(conv, ".weight"), <<Part(conv, ".bias")>>, y))
Activate(act, x, y) ==
  <<audio_aa_upsample_snake(x, Part(act, ".up"), Part(act, ".alpha"), Part(act, ".beta"), "aa_scratch"),
    audio_aa_downsample("aa_scratch", Part(act, ".down"), y)>>

Block(s, j) == Numbered("resblocks", (s - 1) * Branches + j)

\* record_block, run_amp_block: dilation k has activations 2k and 2k + 1.
AmpBlock(block, x, t1, t2) ==
  Concat(3, LAMBDA k :
    Activate(Part(block, Numbered(".act", 2 * k - 2)), x, t1)
    \o <<Conv(Part(block, Numbered(".convs1.", k)), t1, t2, Dilations[k])>>
    \o Activate(Part(block, Numbered(".act", 2 * k - 1)), t2, t1)
    \o <<Conv(Part(block, Numbered(".convs2.", k)), t1, t2, 1), audio_add_inplace(x, t2)>>)

\* One stage on the arena buffers current, spare and accumulator, which it leaves in other roles.
AudioStage(at, s) ==
  LET up == at.spare        \* the upsampled activation; the stage's input is free for the branches
      work == at.current
      Branch(j) ==
        LET destination == IF j = 1 THEN at.accumulator ELSE work
        IN <<audio_copy_prefix(up, destination)>> \o AmpBlock(Block(s, j), destination, at.t1, at.t2)
           \o If(j # 1, <<audio_add_inplace(at.accumulator, work)>>)
  IN [at EXCEPT
       !.ops = @ \o <<audio_conv_transpose1d(at.current, Numbered("ups", s), <<Part(Numbered("ups", s), ".bias")>>, up)>>
                 \o Concat(Branches, Branch) \o <<audio_scale_inplace(at.accumulator, "third")>>
                 \o If(at.trace, <<audio_copy_prefix(at.accumulator, Numbered("tap", s + 2))>>),
       !.current = at.accumulator, !.spare = work, !.accumulator = up]

\* AudioDecoder::decode; interleaved is the tensor the samples are fetched from, none if it is spare.
AudioGraphOps(trace, interleaved) ==
  LET Tap(t, i) == If(trace, <<audio_copy_prefix(t, Numbered("tap", i))>>)
      start == [ops |-> <<Conv("dec_in_proj", "input", "a", 1)>> \o Tap("a", 1) \o <<Conv("conv_pre", "a", "b", 1)>> \o Tap("b", 2),
                current |-> "b", spare |-> "a", accumulator |-> "c", t1 |-> "t1", t2 |-> "t2", trace |-> trace]
      end == FoldLeft(AudioStage, start, [s \in 1..Stages |-> s])
      out == IF interleaved = "" THEN end.spare ELSE interleaved
  IN end.ops \o Activate("activation_post", end.current, end.spare) \o Tap(end.spare, Stages + 3)
     \o <<audio_conv1d(end.spare, "conv_post.weight", <<>>, end.current)>> \o Tap(end.current, Stages + 4)
     \o <<audio_clamp_inplace(end.current)>> \o Tap(end.current, Stages + 5)
     \o <<audio_interleave(end.current, out)>> \o Tap(out, Stages + 6)
     \o <<Transfer(out, "samples")>>

\* kGraphOperators, 497 with seven stages, and one for each boundary that is traced.
Boundaries == Stages + 6
AudioOperators(trace) == 7 + 70 * Stages + (IF trace THEN Boundaries ELSE 0)

\* The stage throws if it did not record exactly as many.
RecordAudio(trace) ==
  LET ops == AudioGraphOps(trace, "interleaved")
      recorded == Cardinality({i \in DOMAIN ops : ops[i].n = 1})
  IN <<Declare(AudioOperators(trace))>> \o ops \o <<[Declare(0) EXCEPT !.legal = recorded = AudioOperators(trace)]>>

AudioConvs ==
  {"dec_in_proj", "conv_pre"}
  \cup {Part(Block(s, j), Numbered(c, k)) : s \in 1..Stages, j \in 1..Branches, c \in {".convs1.", ".convs2."}, k \in 1..3}
AudioActs == {"activation_post"} \cup {Part(Block(s, j), Numbered(".act", k)) : s \in 1..Stages, j \in 1..Branches, k \in 0..5}
AudioWeights ==
  {Part(c, x) : c \in AudioConvs, x \in {".weight", ".bias"}} \cup {Part(a, x) : a \in AudioActs, x \in {".up", ".alpha", ".beta", ".down"}}
  \cup {"conv_post.weight"} \cup {Numbered("ups", s) : s \in 1..Stages} \cup {Part(Numbered("ups", s), ".bias") : s \in 1..Stages}

AudioGraph(trace) ==
  [name |-> <<"audio decoder", trace>>, inputs |-> {"input"}, weights |-> AudioWeights,
   programs |-> <<[ops |-> OnRows({1}, RecordAudio(trace)), first |-> {}],
                  [ops |-> OnRows({1}, AudioGraphOps(trace, "")), first |-> {}]>>,
   results |-> [t \in {"samples"} \cup (IF trace THEN {Numbered("tap", i) : i \in 1..Boundaries} ELSE {}) |-> {1}]]
AudioGraphs == {AudioGraph(t) : t \in BOOLEAN}

-----------------------------------------------------------------------------
(* The encoders of keyframes, reference videos and reference audio.         *)

Weighted(layers) == {Part(l, p) : l \in layers, p \in {".weight", ".bias"}}
Rows == {1}                             \* nothing here works on a part of the rows

\* A tensor allocated for the result of a layer, which no other layer writes to.
Out(layer) == Part(layer, ".out")

-----------------------------------------------------------------------------
(* The layers of the video VAE's encoder.                                  *)

kChannels == <<128, 256, 256, 512, 512, 1024>>
Spatial == <<2, 2, 2, 2, 1, 1>>         \* kDownsample
Temporal == <<1, 2, 2, 1, 1, 1>>

Level(l) == Numbered("encoder.down.", l - 1)
EncoderBlock(l, b) == Part(Level(l), Numbered(".block.", b - 1))
Downsample(l) == Part(Level(l), ".downsample.conv")
ChangesChannels(l, b) == b = 1 /\ l > 1 /\ kChannels[l - 1] # kChannels[l]

EncoderLayers ==
  {"encoder.conv_in", "encoder.norm_out", "encoder.conv_out", "quant_conv"} \cup {Downsample(l) : l \in 1..6}
  \cup {Part(EncoderBlock(l, b), p) : l \in 1..6, b \in 1..2, p \in {".norm1", ".norm2", ".conv1", ".conv2", ".nin_shortcut"}}

-----------------------------------------------------------------------------
(* Keyframes.                                                              *)

Plain == <<1, FALSE>>                   \* the stride, and whether only right and bottom are padded
KeyframeConv(x, y, layer, p) == With(p, keyframe_conv3d_f16(x, Part(layer, ".weight"), Part(layer, ".bias"), y))
KeyframeNorm(x, y, layer) == keyframe_group_norm_silu_f16_affine(x, Part(layer, ".weight"), Part(layer, ".bias"), y)

\* KeyframeEncoder::encode_moments on Vulkan: three buffers that take turns; enc.state holds the
\* newest activation.
Buffer(i) == Numbered("arena", i % 3)
Advance(enc, Op(_, _)) ==
  [enc EXCEPT !.ops = Append(@, Op(Buffer(enc.state), Buffer(enc.state + 1))), !.state = (@ + 1) % 3]

RecordResidual(enc, l, b) ==
  LET state == Buffer(enc.state)
      first == Buffer(enc.state + 1)
      second == Buffer(enc.state + 2)
      P(s) == Part(EncoderBlock(l, b), s)
  IN IF ChangesChannels(l, b)
     THEN [enc EXCEPT !.state = (@ + 2) % 3, !.ops = @ \o
            <<KeyframeConv(state, first, P(".nin_shortcut"), Plain), KeyframeNorm(state, second, P(".norm1")),
              KeyframeConv(second, state, P(".conv1"), Plain), KeyframeNorm(state, second, P(".norm2")),
              KeyframeConv(second, state, P(".conv2"), Plain), keyframe_add_f32(first, state, second)>>]
     ELSE [enc EXCEPT !.state = (@ + 1) % 3, !.ops = @ \o
            <<KeyframeNorm(state, first, P(".norm1")), KeyframeConv(first, second, P(".conv1"), Plain),
              KeyframeNorm(second, first, P(".norm2")), KeyframeConv(first, second, P(".conv2"), Plain),
              keyframe_add_f32(state, second, first)>>]

RecordLevel(enc, l) ==
  LET blocks == RecordResidual(RecordResidual(enc, l, 1), l, 2)
  IN IF Spatial[l] = 1 THEN blocks
     ELSE Advance(blocks, LAMBDA x, y : KeyframeConv(x, y, Downsample(l), <<2, TRUE>>))

kOperators == 72
RecordKeyframe ==
  LET start == [ops |-> <<KeyframeConv("pixels", Buffer(0), "encoder.conv_in", Plain)>>, state |-> 0]
      levels == FoldLeft(RecordLevel, start, [l \in 1..6 |-> l])
      normed == Advance(levels, LAMBDA x, y : KeyframeNorm(x, y, "encoder.norm_out"))
      conv == Advance(normed, LAMBDA x, y : KeyframeConv(x, y, "encoder.conv_out", Plain))
      quant == Advance(conv, LAMBDA x, y : KeyframeConv(x, y, "quant_conv", Plain))
  IN <<Declare(kOperators)>> \o quant.ops \o <<audio_copy_prefix(Buffer(quant.state), "moments")>>

\* encode_moments on CUDA, where every result has a buffer of its own.
EncodeResidual(l, b, x) ==
  LET P(s) == Part(EncoderBlock(l, b), s)
  IN If(ChangesChannels(l, b), <<KeyframeConv(x, "residual", P(".nin_shortcut"), Plain)>>)
     \o <<KeyframeNorm(x, "tmp", P(".norm1")), KeyframeConv("tmp", "tmp", P(".conv1"), Plain),
          KeyframeNorm("tmp", "tmp", P(".norm2")), KeyframeConv("tmp", "tmp", P(".conv2"), Plain),
          keyframe_add_f32(IF ChangesChannels(l, b) THEN "residual" ELSE x, "tmp", x)>>
EncodeKeyframe ==
  <<KeyframeConv("pixels", "hbuf", "encoder.conv_in", Plain)>>
  \o Concat(6, LAMBDA l :
       EncodeResidual(l, 1, "hbuf") \o EncodeResidual(l, 2, "hbuf")
       \o If(Spatial[l] = 2, <<KeyframeConv("hbuf", "hbuf", Downsample(l), <<2, TRUE>>)>>))
  \o <<KeyframeNorm("hbuf", "hbuf", "encoder.norm_out"), KeyframeConv("hbuf", "hbuf", "encoder.conv_out", Plain),
       KeyframeConv("hbuf", "hbuf", "quant_conv", Plain), copy("hbuf", "moments")>>

KeyframeGraph ==
  [name |-> <<"keyframe encoder">>, inputs |-> {"pixels"}, weights |-> Weighted(EncoderLayers),
   programs |-> <<[ops |-> OnRows(Rows, RecordKeyframe), first |-> {}], [ops |-> OnRows(Rows, EncodeKeyframe), first |-> {}]>>,
   results |-> [t \in {"moments"} |-> Rows]]

-----------------------------------------------------------------------------
(* Reference operators on Vulkan.                                          *)

\* ReferenceEncoder::Impl::run: the operator has a batch and an output of its own.  It is bound to
\* an input, a weight, a bias, the output and two more tensors, some of which the shader reads.
Run(op, bound, read, out) ==
  <<Declare(1), [reference_operation(op, bound, Out("fresh")) EXCEPT !.ins = read, !.outs = <<out>>]>>
RunWith(par, op, bound, read, out) == [Run(op, bound, read, out) EXCEPT ![2].par = par]

-----------------------------------------------------------------------------
(* Reference videos: a tensor for each frame on Vulkan.                    *)

Levels == 3                             \* bound: of 6; later levels keep the frames and repeat these
Frame(x, t) == Numbered(x, t)           \* frames count from 0
Frames(n, Ops(_)) == Concat(n, LAMBDA i : Ops(i - 1))
After(n, ts) == (n - 1) \div ts + 1     \* the frames of a convolution with stride ts

\* Impl::conv3, whose shader reads as many frames as there are up to x[t], at most k.
Taps(t, k) == IF t + 1 < k THEN t + 1 ELSE k
Previous(t) == IF t > 0 THEN t - 1 ELSE 0
Earliest(t) == IF t > 1 THEN t - 2 ELSE 0
RecordConv3(x, y, layer, n, k, ss, ts) ==
  LET w == <<Part(layer, ".weight"), Part(layer, ".bias")>>
      At(o) == LET t == o * ts
                   newest == <<Frame(x, t), Frame(x, Previous(t)), Frame(x, Earliest(t))>>
               IN RunWith(<<ss>>, "conv3d", <<newest[1]>> \o w \o Tail(newest), w \o SubSeq(newest, 1, Taps(t, k)), Frame(y, o))
  IN Frames(After(n, ts), At)

RecordNorm3(x, y, layer, n) ==
  LET w == <<Part(layer, ".weight"), Part(layer, ".bias")>>
      At(t) == Run("group_norm_silu", <<Frame(x, t)>> \o w, <<Frame(x, t)>> \o w, Frame(y, t))
  IN Frames(n, At)
RecordAdd3(x, y, n) == Frames(n, LAMBDA t : Run("add", <<Frame(x, t), Frame(y, t)>>, <<Frame(x, t), Frame(y, t)>>, Frame(x, t)))

\* ReferenceEncoderOps::conv3d: zeros before the first frame.
Conv3(x, y, layer, n, k, ss, ts) ==
  LET w == <<Part(layer, ".weight"), Part(layer, ".bias")>>
      Read(o) == SelectSeq([i \in 1..k |-> o * ts + (k - i) - (k - 1)], LAMBDA st : st >= 0)
      At(o) == <<With(<<ss>>, Compute("conv3d", w \o [i \in DOMAIN Read(o) |-> Frame(x, Read(o)[i])], <<Frame(y, o)>>))>>
  IN Frames(After(n, ts), At)
Norm3(x, y, layer, n) ==
  Frames(n, LAMBDA t : <<MayUpdate("group_norm_silu", Frame(x, t), <<Part(layer, ".weight"), Part(layer, ".bias")>>, Frame(y, t))>>)
Add3(x, y, n) == Frames(n, LAMBDA t : <<Update("add", Frame(x, t), <<Frame(y, t)>>)>>)

\* encode_temporal_moments: enc.x names the newest frames, n their number.
RecordTemporalBlock(enc, l, b) ==
  LET P(s) == Part(EncoderBlock(l, b), s)
      x == IF ChangesChannels(l, b) THEN Out(P(".nin_shortcut")) ELSE enc.x
      n == enc.n
  IN [enc EXCEPT !.x = x, !.ops = @
        \o RecordNorm3(enc.x, Out(P(".norm1")), P(".norm1"), n)
        \o RecordConv3(Out(P(".norm1")), Out(P(".conv1")), P(".conv1"), n, 3, 1, 1)
        \o RecordNorm3(Out(P(".conv1")), Out(P(".norm2")), P(".norm2"), n)
        \o RecordConv3(Out(P(".norm2")), Out(P(".conv2")), P(".conv2"), n, 3, 1, 1)
        \o If(ChangesChannels(l, b), RecordConv3(enc.x, x, P(".nin_shortcut"), n, 1, 1, 1))
        \o RecordAdd3(x, Out(P(".conv2")), n)]
RecordTemporalLevel(enc, l) ==
  LET blocks == RecordTemporalBlock(RecordTemporalBlock(enc, l, 1), l, 2)
      y == Out(Downsample(l))
  IN IF Spatial[l] = 1 /\ Temporal[l] = 1 THEN blocks
     ELSE [x |-> y, n |-> After(blocks.n, Temporal[l]),
           ops |-> blocks.ops \o RecordConv3(blocks.x, y, Downsample(l), blocks.n, 3, Spatial[l], Temporal[l])]
RecordTemporal(frames) ==
  LET start == [x |-> Out("encoder.conv_in"), n |-> frames,
                ops |-> RecordConv3("frame", Out("encoder.conv_in"), "encoder.conv_in", frames, 3, 1, 1)]
      enc == FoldLeft(RecordTemporalLevel, start, [l \in 1..Levels |-> l])
  IN enc.ops \o RecordNorm3(enc.x, Out("encoder.norm_out"), "encoder.norm_out", enc.n)
     \o RecordConv3(Out("encoder.norm_out"), Out("encoder.conv_out"), "encoder.conv_out", enc.n, 3, 1, 1)
     \o RecordConv3(Out("encoder.conv_out"), "moments", "quant_conv", enc.n, 1, 1, 1)

\* KeyframeEncoder::Impl::temporal_moments: norms and sums in place.
TemporalBlock(enc, l, b) ==
  LET P(s) == Part(EncoderBlock(l, b), s)
      x == IF ChangesChannels(l, b) THEN Out(P(".nin_shortcut")) ELSE enc.x
      n == enc.n
  IN [enc EXCEPT !.x = x, !.ops = @
        \o Norm3(enc.x, "branch", P(".norm1"), n) \o Conv3("branch", Out(P(".conv1")), P(".conv1"), n, 3, 1, 1)
        \o Norm3(Out(P(".conv1")), Out(P(".conv1")), P(".norm2"), n)
        \o Conv3(Out(P(".conv1")), Out(P(".conv2")), P(".conv2"), n, 3, 1, 1)
        \o If(ChangesChannels(l, b), Conv3(enc.x, x, P(".nin_shortcut"), n, 1, 1, 1))
        \o Add3(x, Out(P(".conv2")), n)]
TemporalLevel(enc, l) ==
  LET blocks == TemporalBlock(TemporalBlock(enc, l, 1), l, 2)
      y == Out(Downsample(l))
  IN IF Spatial[l] = 1 /\ Temporal[l] = 1 THEN blocks
     ELSE [x |-> y, n |-> After(blocks.n, Temporal[l]),
           ops |-> blocks.ops \o Conv3(blocks.x, y, Downsample(l), blocks.n, 3, Spatial[l], Temporal[l])]
TemporalMoments(frames) ==
  LET start == [x |-> Out("encoder.conv_in"), n |-> frames,
                ops |-> Conv3("frame", Out("encoder.conv_in"), "encoder.conv_in", frames, 3, 1, 1)]
      enc == FoldLeft(TemporalLevel, start, [l \in 1..Levels |-> l])
  IN enc.ops \o Norm3(enc.x, enc.x, "encoder.norm_out", enc.n)
     \o Conv3(enc.x, Out("encoder.conv_out"), "encoder.conv_out", enc.n, 3, 1, 1)
     \o Conv3(Out("encoder.conv_out"), "moments", "quant_conv", enc.n, 1, 1, 1)

FramesOfMoments(frames) == FoldLeft(LAMBDA n, l : After(n, Temporal[l]), frames, [l \in 1..Levels |-> l])
VideoGraph(frames) ==
  [name |-> <<"reference video", frames>>, inputs |-> {Frame("frame", t) : t \in 0..(frames - 1)},
   weights |-> Weighted(EncoderLayers),
   programs |-> <<[ops |-> OnRows(Rows, RecordTemporal(frames)), first |-> {}],
                  [ops |-> OnRows(Rows, TemporalMoments(frames)), first |-> {}]>>,
   results |-> [t \in {Frame("moments", o) : o \in 0..(FramesOfMoments(frames) - 1)} |-> Rows]]

-----------------------------------------------------------------------------
(* Reference audio.                                                        *)

Strides == <<2, 4, 4, 5, 5>>
AudioDilations == <<1, 3, 9>>
Stage(s) == Part(Numbered("encoder.block.", s), ".block.")
Unit(s, b) == Part(Numbered(Stage(s), b - 1), ".block.")

\* The layers of a stage on x, by the three ways in which the backends call their operators.
RecordConv1(x, y, layer, p) ==
  LET w == <<Part(layer, ".weight"), Part(layer, ".bias")>> IN RunWith(p, "conv1d", <<x>> \o w, <<x>> \o w, y)
RecordSnake(x, y, layer) == LET alpha == Part(layer, ".alpha") IN Run("snake", <<x, alpha>>, <<x, alpha>>, y)
RecordBinary(op, x, y) == Run(op, <<x, y>>, <<x, y>>, x)
RecordUnary(op, par, x, y) == RunWith(par, op, <<x>>, <<x>>, y)
RecordNorm(x, y, layer) ==
  LET w == <<Part(layer, ".weight"), Part(layer, ".bias")>> IN Run("layer_norm", <<x>> \o w, <<x>> \o w, y)

\* A linear layer is given as its product and its bias, one operator together.
RecordLinear(x, y, layer) ==
  LET w == Part(layer, ".weight")
      b == Part(layer, ".bias")
      linear == Run("linear", <<x, w, b>>, <<x, w>>, "product")
  IN linear \o <<[add_bias("product", b, y) EXCEPT !.n = 0, !.uses = <<>>]>>
RecordAttention(x, y) == Run("causal_attention", <<x>>, <<x>>, "heads") \o Run("pool_heads", <<"heads">>, <<"heads">>, y)

\* ReferenceEncoder::encode_mean.
RecordUnit(s, b) ==
  LET U(i) == Numbered(Unit(s, b), i)
  IN RecordSnake("x", "branch", U(0)) \o RecordConv1("branch", "branch", U(1), <<1, AudioDilations[b]>>)
     \o RecordSnake("branch", "branch", U(2)) \o RecordConv1("branch", "branch", U(3), <<1, 1>>)
     \o RecordBinary("add", "x", "branch")
RecordStage(s) ==
  Concat(3, LAMBDA b : RecordUnit(s, b))
  \o RecordSnake("x", "x", Numbered(Stage(s), 3)) \o RecordConv1("x", "x", Numbered(Stage(s), 4), <<Strides[s], 1>>)
RecordMean ==
  RecordConv1("stereo", "x", "encoder.block.0", <<1, 1>>) \o Concat(5, RecordStage)
  \o RecordSnake("x", "x", "encoder.block.6") \o RecordConv1("x", "x", "encoder.block.7", <<1, 1>>)
  \o RecordUnary("transpose", <<"rows">>, "x", "x")
  \o RecordNorm("x", "q", "pre_block.norm1") \o RecordLinear("q", "q", "pre_block.attn.qkv") \o RecordAttention("q", "q")
  \o RecordLinear("q", "q", "pre_block.attn.proj")
  \o RecordNorm("x", "x", "pre_block.norm3") \o RecordLinear("x", "x", "pre_block.proj") \o RecordBinary("add", "x", "q")
  \o RecordNorm("x", "branch", "pre_block.norm2") \o RecordNorm("branch", "branch", "pre_block.mlp.norm")
  \o RecordLinear("branch", "gate", "pre_block.mlp.w1") \o RecordLinear("branch", "branch", "pre_block.mlp.w0")
  \o RecordBinary("geglu", "branch", "gate") \o RecordLinear("branch", "branch", "pre_block.mlp.w2")
  \o RecordBinary("add", "x", "branch") \o RecordUnary("transpose", <<"columns">>, "x", "x")
  \o RecordConv1("x", "mean", "mean_proj", <<1, 1>>)

\* AudioEncoder::encode_mean: the attention adds the bias of its queries, keys and values itself.
Conv1(x, y, layer, p) == <<With(p, Compute("conv1d", <<x, Part(layer, ".weight"), Part(layer, ".bias")>>, <<y>>))>>
Snake(x, layer) == <<Update("snake", x, <<Part(layer, ".alpha")>>)>>
Norm1(x, y, layer) == <<Compute("layer_norm", <<x, Part(layer, ".weight"), Part(layer, ".bias")>>, <<y>>)>>
Linear(x, y, layer) == <<Compute("linear", <<x, Part(layer, ".weight")>>, <<"product">>), add_bias("product", Part(layer, ".bias"), y)>>
Attention(x, y) ==
  <<add_bias(x, "pre_block.attn.qkv.bias", x), Compute("causal_attention", <<x>>, <<"heads">>), Compute("pool_heads", <<"heads">>, <<y>>)>>
EncodeUnit(s, b) ==
  LET U(i) == Numbered(Unit(s, b), i)
  IN <<copy("x", "branch")>> \o Snake("branch", U(0)) \o Conv1("branch", "branch", U(1), <<1, AudioDilations[b]>>)
     \o Snake("branch", U(2)) \o Conv1("branch", "branch", U(3), <<1, 1>>) \o <<Update("add", "x", <<"branch">>)>>
EncodeStage(s) ==
  Concat(3, LAMBDA b : EncodeUnit(s, b))
  \o Snake("x", Numbered(Stage(s), 3)) \o Conv1("x", "x", Numbered(Stage(s), 4), <<Strides[s], 1>>)
EncodeMean ==
  Conv1("stereo", "x", "encoder.block.0", <<1, 1>>) \o Concat(5, EncodeStage)
  \o Snake("x", "encoder.block.6") \o Conv1("x", "x", "encoder.block.7", <<1, 1>>)
  \o <<With(<<"rows">>, Compute("transpose", <<"x">>, <<"x">>))>>
  \o Norm1("x", "q", "pre_block.norm1") \o <<Compute("linear", <<"q", "pre_block.attn.qkv.weight">>, <<"q">>)>>
  \o Attention("q", "q") \o Linear("q", "q", "pre_block.attn.proj")
  \o Norm1("x", "x", "pre_block.norm3") \o Linear("x", "x", "pre_block.proj") \o <<Update("add", "x", <<"q">>)>>
  \o Norm1("x", "branch", "pre_block.norm2") \o Norm1("branch", "branch", "pre_block.mlp.norm")
  \o Linear("branch", "gate", "pre_block.mlp.w1") \o Linear("branch", "branch", "pre_block.mlp.w0")
  \o <<Update("geglu", "branch", <<"gate">>)>> \o Linear("branch", "branch", "pre_block.mlp.w2")
  \o <<Update("add", "x", <<"branch">>), With(<<"columns">>, Compute("transpose", <<"x">>, <<"x">>))>>
  \o Conv1("x", "mean", "mean_proj", <<1, 1>>)

AudioLayers ==
  {"encoder.block.0", "encoder.block.7", "mean_proj"}
  \cup {Numbered(Stage(s), 4) : s \in 1..5} \cup {Numbered(Unit(s, b), i) : s \in 1..5, b \in 1..3, i \in {1, 3}}
  \cup {Part("pre_block.", p) : p \in {"norm1", "norm2", "norm3", "proj", "attn.qkv", "attn.proj", "mlp.norm", "mlp.w0", "mlp.w1", "mlp.w2"}}
AudioSnakes ==
  {"encoder.block.6"} \cup {Numbered(Stage(s), 3) : s \in 1..5} \cup {Numbered(Unit(s, b), i) : s \in 1..5, b \in 1..3, i \in {0, 2}}
ReferenceAudioGraph ==
  [name |-> <<"reference audio">>, inputs |-> {"stereo"}, weights |-> Weighted(AudioLayers) \cup {Part(s, ".alpha") : s \in AudioSnakes},
   programs |-> <<[ops |-> OnRows(Rows, RecordMean), first |-> {}], [ops |-> OnRows(Rows, EncodeMean), first |-> {}]>>,
   results |-> [t \in {"mean"} |-> Rows]]

ReferenceGraphsOf(frames) == {KeyframeGraph, ReferenceAudioGraph} \cup {VideoGraph(n) : n \in frames}
=============================================================================
