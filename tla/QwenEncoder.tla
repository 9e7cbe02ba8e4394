---------------------------- MODULE QwenEncoder ----------------------------
(***************************************************************************)
(* The text conditioner and its vision tower: src/src/vulkan/text_layer.cpp, *)
(* text_encoder.cpp and vision_stage.cpp against src/src/cuda/encoder_layer.cu, *)
(* encoder_runtime.cu, qwen_vision.cu and qwen_vision_encoder.cu.          *)
(***************************************************************************)
EXTENDS TensorOps, TLC

Formats == {"ConvRot", "NVFP4"}
LastLayer == 3             \* bound: layers 0 to 3 stand for 50, three of them with a DeepStack slot
Layer(l, p) == Part("layer" \o ToString(l), p)

\* LayerTensor: in one format every projection is rotated, in the other two are scaled.
TextWeight(f, l, p) ==
  Weight(Layer(l, p), IF f = "ConvRot" THEN "rotated" ELSE IF p \in {".o", ".down"} THEN "pre" ELSE "streamed", 0)
TextNames == {".q", ".k", ".v", ".o", ".gate", ".up", ".down"}
Norms == {".input_norm", ".post_norm", ".q_norm", ".k_norm"}

-----------------------------------------------------------------------------
(* Vulkan, text.                                                           *)

\* transform_for: the arena of the activation's width; square says that the heads are as wide as
\* the hidden state together.
Transform(p, square) ==
  CASE p = ".down" -> "ffn_transform" [] p = ".o" /\ ~square -> "query_transform" [] OTHER -> "hidden_transform"

\* record_projection.
RecordText(f, l, p, input, output, rows, square, shared) ==
  LET w == TextWeight(f, l, p)
      own == Transform(p, square)
  IN (IF shared THEN <<>> ELSE If(w.pre, <<apply_pre_quant_scale(w.p, input, own)>>) \o If(w.rotated, <<apply_convrot(input, own)>>))
     \o <<materialize(w.p, <<>>, Cache)>>
     \o RowParts(rows, gemm(IF shared THEN "hidden_transform" ELSE IF w.pre \/ w.rotated THEN own ELSE input, Cache, <<>>, output))

TextTap(taps, l, t, tap) == If(taps, <<copy(t, Part(Layer(l, ".tap"), tap))>>)


\* ExactQwenTextLayerStage::record.
RecordTextLayer(f, l, rows, square, taps) ==
  LET shared == f = "ConvRot"
      Rotate(p) == If(shared, <<apply_convrot("normed", "hidden_transform")>>)
      P(p, in, out, sh) == RecordText(f, l, p, in, out, rows, square, sh)
      T(t, tap) == TextTap(taps, l, t, tap)
  IN <<rms_norm_bf16("tokens", Layer(l, ".input_norm"), "normed")>> \o T("normed", ".input_norm")
     \o Rotate(".q")
     \o P(".q", "normed", "query", shared) \o P(".k", "normed", "key", shared) \o P(".v", "normed", "value", shared)
     \o <<rms_norm_heads_bf16("query", Layer(l, ".q_norm"), "query"), rms_norm_heads_bf16("key", Layer(l, ".k_norm"), "key"),
          rope_bf16("query", "cos", "sin", TRUE), rope_bf16("key", "cos", "sin", TRUE)>>
     \o T("query", ".query") \o T("key", ".key") \o T("value", ".value")
     \o <<causal_gqa_attention("query", "key", "value", "attention")>> \o T("attention", ".attention")
     \o P(".o", "attention", "branch", FALSE)
     \o <<text_add_residual_bf16("tokens", "branch")>> \o T("tokens", ".attention_residual")
     \o <<rms_norm_bf16("tokens", Layer(l, ".post_norm"), "normed")>> \o T("normed", ".post_norm")
     \o Rotate(".gate")
     \o P(".gate", "normed", "gate", shared) \o P(".up", "normed", "up", shared)
     \o T("gate", ".gate") \o T("up", ".up")
     \o <<text_swiglu_split_bf16("gate", "up", "activation")>> \o T("activation", ".activation")
     \o P(".down", "activation", "branch", FALSE)
     \o <<text_add_residual_bf16("tokens", "branch")>> \o T("tokens", ".final_residual")

Summed(f, N(_)) == N(".q") + N(".k") + N(".v") + N(".o") + N(".gate") + N(".up") + N(".down")

\* ExactQwenTextLayerStage::required_operators.
TextLayerOperators(f, rows, taps) ==
  LET N(p) == 1 + PartCount(rows) + One(TextWeight(f, 0, p).pre) + One(TextWeight(f, 0, p).rotated)
  IN 10 + Summed(f, N) - (IF f = "ConvRot" THEN 3 ELSE 0) + (IF taps THEN 11 ELSE 0)

\* layer_operators: the same number, from the format alone, before any layer is loaded.
LayerOperators(f, rows) ==
  IF f = "ConvRot" THEN 10 + 7 * (2 + PartCount(rows)) - 3
  ELSE 10 + 5 * (1 + PartCount(rows)) + 2 * (2 + PartCount(rows))

Images == {1, 2}           \* bound; the rest of the rows is text
DeepSlot(l) == IF l < 3 THEN l ELSE -1
Deep(k) == "deep" \o ToString(k)

\* Each image goes through the tower, whose outputs the next overwrites.
VisualCopies ==
  FlattenSeq([i \in 1..Cardinality(Images) |->
    <<Declare(4)>> \o OnRows({i}, <<copy("tower.main", "visual"), copy("tower.deep0", "deep0"),
                                    copy("tower.deep1", "deep1"), copy("tower.deep2", "deep2")>>)])

\* An image's outputs, made by the tower below.
TowerOutputs(i) ==
  OnRows({i}, <<Compute("tower", <<"image">>, <<"tower.main", "tower.deep0", "tower.deep1", "tower.deep2">>)>>)
EncodeImages(copies) ==
  LET perImage == Len(copies) \div Cardinality(Images)
  IN FlattenSeq([i \in 1..Cardinality(Images) |->
       <<Declare(1)>> \o TowerOutputs(i) \o SubSeq(copies, (i - 1) * perImage + 1, i * perImage)])

InjectLate(f, l, visual, ops) == ops   \* mistake: DeepStack rows are not added
Inject(f, l, visual, ops) ==
  ops \o If(visual /\ DeepSlot(l) >= 0, <<vision_scatter_add_bf16(Deep(DeepSlot(l)), "tokens", "image_rows")>>)

\* ExactQwenTextEncoder::encode, without and with images.
EncodeText(f, rows, square, visual, trace) ==
  If(visual, EncodeImages(VisualCopies) \o <<Declare(1), vision_scatter_bf16("visual", "tokens", "image_rows")>>)
  \o FlattenSeq([k \in 1..(LastLayer + 1) |->
       LET l == k - 1
       IN <<Declare(TextLayerOperators(f, rows, FALSE) + One(visual /\ DeepSlot(l) >= 0) + One(trace) + One(l = LastLayer))>>
          \o Inject(f, l, visual, RecordTextLayer(f, l, rows, square, FALSE))
          \o If(trace, <<copy("tokens", Layer(l, ".trace"))>>)
          \o If(l = LastLayer, <<convert("tokens", "output")>>)])

-----------------------------------------------------------------------------
(* CUDA, text.                                                             *)

ExactProject(f, l, p, input, output) ==
  LET w == TextWeight(f, l, p)
      own == "arena1"
  IN If(w.pre, <<apply_pre_quant_scale(w.p, input, own)>>) \o If(w.rotated, <<apply_convrot(input, own)>>)
     \o <<materialize(w.p, <<>>, "arena2"), gemm(IF w.pre \/ w.rotated THEN own ELSE input, "arena2", <<>>, output)>>

\* LinearRunner::forward.
Forward(w, input, output) == Prepared(<<w>>) \o Project(<<w>>, 1, input, output)

\* encoder_layer_forward_exact and encoder_layer_forward, whose gated unit is computed in place.
CudaTextLayer(f, l, exact, taps) ==
  LET P(p, in, out) == IF exact THEN ExactProject(f, l, p, in, out) ELSE Forward(TextWeight(f, l, p), in, out)
      activation == IF exact THEN "activation" ELSE "gate"
      T(t, tap) == TextTap(taps, l, t, tap)
  IN <<rms_norm_bf16("tokens", Layer(l, ".input_norm"), "n")>> \o T("n", ".input_norm")
     \o P(".q", "n", "q") \o P(".k", "n", "k") \o P(".v", "n", "v")
     \o <<rms_norm_heads_bf16("q", Layer(l, ".q_norm"), "q"), rms_norm_heads_bf16("k", Layer(l, ".k_norm"), "k"),
          rope_bf16("q", "cos", "sin", TRUE), rope_bf16("k", "cos", "sin", TRUE)>>
     \o T("q", ".query") \o T("k", ".key") \o T("v", ".value")
     \o <<causal_gqa_attention("q", "k", "v", "attn")>> \o T("attn", ".attention")
     \o P(".o", "attn", "proj")
     \o <<text_add_residual_bf16("tokens", "proj")>> \o T("tokens", ".attention_residual")
     \o <<rms_norm_bf16("tokens", Layer(l, ".post_norm"), "n")>> \o T("n", ".post_norm")
     \o P(".gate", "n", "gate") \o P(".up", "n", "up") \o T("gate", ".gate") \o T("up", ".up")
     \o <<text_swiglu_split_bf16("gate", "up", activation)>> \o T(activation, ".activation")
     \o P(".down", activation, "proj")
     \o <<text_add_residual_bf16("tokens", "proj")>> \o T("tokens", ".final_residual")

\* Encoder::encode: the images' rows replace the placeholders' embeddings before the upload.
CudaEncode(f, exact, visual, trace) ==
  If(visual, FlattenSeq([i \in 1..Cardinality(Images) |->
       TowerOutputs(i) \o OnRows({i}, <<copy("tower.main", "visual"), copy("tower.deep0", "deep0"),
                                        copy("tower.deep1", "deep1"), copy("tower.deep2", "deep2")>>)])
     \o <<vision_scatter_bf16("visual", "tokens", "image_rows")>>)
  \o FlattenSeq([k \in 1..(LastLayer + 1) |->
       CudaTextLayer(f, k - 1, exact, FALSE)
       \o If(visual /\ DeepSlot(k - 1) >= 0, <<vision_scatter_add_bf16(Deep(DeepSlot(k - 1)), "tokens", "image_rows")>>)
       \o If(trace, <<copy("tokens", Layer(k - 1, ".trace"))>>)])
  \o <<convert("tokens", "output")>>

TextWeights(f) ==
  UNION {Stored(TextWeight(f, l, p)) : l \in 0..LastLayer, p \in TextNames} \cup {Layer(l, n) : l \in 0..LastLayer, n \in Norms}
TextTaps == {Part(Layer(0, ".tap"), t) : t \in {".input_norm", ".query", ".key", ".value", ".attention", ".attention_residual",
                                               ".post_norm", ".gate", ".up", ".activation", ".final_residual"}}
Tower == {"tower.main", "tower.deep0", "tower.deep1", "tower.deep2"}
TextFirst == {"lora.hidden", "lora.delta"} \cup Tower

\* One layer with its taps; the whole conditioner, with a trace, and with images.
LayerGraph(f, rows, square) ==
  [name |-> <<"text layer", f, rows, square>>, inputs |-> {"tokens", "cos", "sin"}, weights |-> TextWeights(f),
   programs |-> <<[ops |-> <<Declare(TextLayerOperators(f, rows, TRUE))>> \o RecordTextLayer(f, 0, rows, square, TRUE), first |-> {}],
                  [ops |-> CudaTextLayer(f, 0, TRUE, TRUE), first |-> {}]>>,
   results |-> All({"tokens"} \cup TextTaps)]
EncoderGraph(f, rows, visual, trace) ==
  [name |-> <<"text encoder", f, rows, visual, trace>>, inputs |-> {"tokens", "cos", "sin", "image"},
   weights |-> TextWeights(f) \cup {"image_rows"} \cup (IF visual THEN {"visual", "deep0", "deep1", "deep2"} ELSE {}),
   programs |-> <<[ops |-> <<Declare(LayerOperators(f, rows) + 1 + One(visual) + One(trace))>>
                          \o <<Counted(TextLayerOperators(f, rows, FALSE) + One(visual) + One(trace) + 1, copy("tokens", "preflight"))>>
                          \o EncodeText(f, rows, FALSE, visual, trace), first |-> Tower],
                  [ops |-> CudaEncode(f, TRUE, visual, trace), first |-> Tower],
                  [ops |-> CudaEncode(f, FALSE, visual, trace), first |-> TextFirst]>>,
   results |-> All({"output"} \cup (IF trace THEN {Layer(l, ".trace") : l \in 0..LastLayer} ELSE {}))]

TextGraphs ==
  {LayerGraph(f, r, s) : f \in Formats, r \in {32, 64, 96}, s \in BOOLEAN}
  \cup {EncoderGraph(f, r, v, t) : f \in Formats, r \in {64, 96}, v \in BOOLEAN, t \in BOOLEAN}

-----------------------------------------------------------------------------
(* The vision tower.                                                       *)

LastBlock == 3             \* bound: blocks 0 to 3 stand for 27
DeepAfter(b) == b - 1      \* after blocks 1, 2 and 3 for 8, 16 and 24
V(b, p) == Part("block" \o ToString(b), p)
M(m, p) == Part(IF m < 0 THEN "merger" ELSE "merger" \o ToString(m), p)

RecordPatch(rows) ==
  RowParts(rows, gemm("pixels", "patch.weight", <<"patch.bias">>, "residual"))
  \o <<vision_add_positions_bf16("residual", "positions", "index")>>
PatchOperators(rows) == PartCount(rows) + 1

RecordVisionBlock(b, rows) ==
  LET Gemm(p, in, out) == RowParts(rows, gemm(in, V(b, Part(p, ".weight")), <<V(b, Part(p, ".bias"))>>, out))
      Norm(n) == <<layer_norm_bf16("residual", V(b, Part(n, ".weight")), V(b, Part(n, ".bias")), "normed")>>
  IN Norm(".norm1") \o Gemm(".qkv", "normed", "qkv")
     \o <<vision_split_qkv_bf16("qkv", "query", "key", "value"),
          rope_bf16("query", "cos", "sin", TRUE), rope_bf16("key", "cos", "sin", TRUE),
          prepare_attention("query", "key", "value", "q16", "k16", "v16"),
          blocked_attention("query", "key", "value", "q16", "k16", "v16", "attention")>>
     \o Gemm(".projection", "attention", "branch") \o <<text_add_residual_bf16("residual", "branch")>>
     \o Norm(".norm2") \o Gemm(".fc1", "normed", "mlp") \o <<vision_gelu_tanh_bf16("mlp")>>
     \o Gemm(".fc2", "mlp", "branch") \o <<text_add_residual_bf16("residual", "branch")>>
VisionBlockOperators(rows) == 12 + 4 * PartCount(rows)

\* Merging first or normalising first: the main merger normalises rows, the others merged rows.
RecordMerger(m, output, rows) ==
  LET source == IF m < 0 THEN "merged" ELSE "merger_normed"
      Gemm(p, in, out) == RowParts(rows \div 4, gemm(in, M(m, Part(p, ".weight")), <<M(m, Part(p, ".bias"))>>, out))
      Norm(in, out) == layer_norm_bf16(in, M(m, ".norm.weight"), M(m, ".norm.bias"), out)
  IN (IF m < 0 THEN <<Norm("residual", "normed"), vision_merge_four_bf16("normed", "merged")>>
      ELSE <<vision_merge_four_bf16("residual", "merged"), Norm("merged", "merger_normed")>>)
     \o Gemm(".fc1", source, "merger_hidden") \o <<vision_gelu_tanh_bf16("merger_hidden")>>
     \o Gemm(".fc2", "merger_hidden", output)
MergerOperators(rows) == 3 + 2 * PartCount(rows \div 4)

TowerOutput(m) == IF m < 0 THEN "out" ELSE Deep(m)

\* ExactQwenVisionEncoder::encode.
RecordTower(rows, trace) ==
  <<Declare(PatchOperators(rows))>> \o RecordPatch(rows)
  \o FlattenSeq([k \in 1..(LastBlock + 1) |->
       <<Declare(VisionBlockOperators(rows) + One(trace))>> \o RecordVisionBlock(k - 1, rows)
       \o If(trace, <<copy("residual", V(k - 1, ".trace"))>>)
       \o If(DeepAfter(k - 1) >= 0, <<Declare(MergerOperators(rows))>> \o RecordMerger(DeepAfter(k - 1), TowerOutput(DeepAfter(k - 1)), rows))])
  \o <<Declare(MergerOperators(rows))>> \o RecordMerger(-1, "out", rows)

\* CUDA: qwen_vision_block_forward_exact and qwen_vision_block_forward write each branch back into
\* normed; the second reads the fused projection in its attention.
CudaVisionBlock(b, exact) ==
  LET Gemm(p, in, out) == <<gemm(in, V(b, Part(p, ".weight")), <<V(b, Part(p, ".bias"))>>, out)>>
      Norm(n) == <<layer_norm_bf16("x", V(b, Part(n, ".weight")), V(b, Part(n, ".bias")), "normed")>>
  IN Norm(".norm1") \o Gemm(".qkv", "normed", "qkv")
     \o <<vision_split_qkv_bf16("qkv", "q", "k", "v"),
          rope_bf16("q", "cos", "sin", TRUE), rope_bf16("k", "cos", "sin", TRUE),
          prepare_attention("q", "k", "v", "shared_q", "shared_k", "shared_v"),
          blocked_attention("q", "k", "v", "shared_q", "shared_k", "shared_v", "branch")>>
     \o Gemm(".projection", "branch", "normed") \o <<text_add_residual_bf16("x", "normed")>>
     \o Norm(".norm2") \o Gemm(".fc1", "normed", "mlp") \o <<vision_gelu_tanh_bf16("mlp")>>
     \o Gemm(".fc2", "mlp", "normed") \o <<text_add_residual_bf16("x", "normed")>>

CudaMerger(m, output) ==
  LET source == IF m < 0 THEN "merged" ELSE "merger_normed"
      Gemm(p, in, out) == <<gemm(in, M(m, Part(p, ".weight")), <<M(m, Part(p, ".bias"))>>, out)>>
      Norm(in) == layer_norm_bf16(in, M(m, ".norm.weight"), M(m, ".norm.bias"), "merger_normed")
  IN (IF m < 0 THEN <<Norm("x"), vision_merge_four_bf16("merger_normed", "merged")>>
      ELSE <<vision_merge_four_bf16("x", "merged"), Norm("merged")>>)
     \o Gemm(".fc1", source, "merger_hidden") \o <<vision_gelu_tanh_bf16("merger_hidden")>>
     \o Gemm(".fc2", "merger_hidden", output)

CudaTower(exact, trace) ==
  <<gemm("pixels", "patch.weight", <<"patch.bias">>, "x"), vision_add_positions_bf16("x", "positions", "index")>>
  \o FlattenSeq([k \in 1..(LastBlock + 1) |->
       CudaVisionBlock(k - 1, exact) \o If(trace, <<copy("x", V(k - 1, ".trace"))>>)
       \o If(DeepAfter(k - 1) >= 0, CudaMerger(DeepAfter(k - 1), TowerOutput(DeepAfter(k - 1))))])
  \o CudaMerger(-1, "out")

VisionWeights ==
  {"patch.weight", "patch.bias", "positions"}
  \cup {V(b, Part(n, s)) : b \in 0..LastBlock, n \in {".norm1", ".norm2", ".qkv", ".projection", ".fc1", ".fc2"}, s \in {".weight", ".bias"}}
  \cup {M(m, Part(n, s)) : m \in -1..2, n \in {".norm", ".fc1", ".fc2"}, s \in {".weight", ".bias"}}

VisionGraph(rows, trace) ==
  [name |-> <<"vision tower", rows, trace>>, inputs |-> {"pixels", "index", "cos", "sin"}, weights |-> VisionWeights,
   programs |-> <<[ops |-> RecordTower(rows, trace), first |-> {}], [ops |-> CudaTower(TRUE, trace), first |-> {}]>>,
   results |-> All({"out", "deep0", "deep1", "deep2"} \cup (IF trace THEN {V(b, ".trace") : b \in 0..LastBlock} ELSE {}))]
VisionGraphs == {VisionGraph(r, t) : r \in {96, 128, 256}, t \in BOOLEAN}
=============================================================================
