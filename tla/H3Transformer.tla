--------------------------- MODULE H3Transformer ---------------------------
(***************************************************************************)
(* The denoiser: one transformer block of it and of its text refiner,      *)
(* src/src/vulkan/dit_block.cpp against run_block of                       *)
(* src/src/dit/transformer_execution.cpp; and around the blocks the text's *)
(* preparation and one forward pass, src/src/vulkan/dit_transformer.cpp    *)
(* and dit_graph.cpp against Transformer::prepare_text and                 *)
(* Transformer::forward of src/src/dit.                                    *)
(***************************************************************************)
EXTENDS TensorOps, TLC

\* A block's configuration: the sequence's rows, its weights' kinds and LoRA factors, its attention,
\* which replay taps are asked for, whether it is a refiner's, and the chunks CUDA cuts it into.
Config(rows, kind, factors, attention, taps, refiner, chunks) ==
  [rows |-> rows, kind |-> kind, factors |-> factors, attention |-> attention, taps |-> taps,
   refiner |-> refiner, chunks |-> chunks]

Heads == 2                 \* bound
Whole == <<Slots>>
InTwo == <<{1, 2}, {3}>>
InThree == <<{1}, {2}, {3}>>

Taps == {"tap.q", "tap.k", "tap.v", "tap.attention", "tap.attention_residual", "tap.final_residual"}

Names == {"q", "k", "v", "out", "fc1", "fc2", "compress_gate"}
\* "mixed" stands for a checkpoint whose projections are quantised differently.
KindOf(c, p) == IF c.kind # "mixed" THEN c.kind ELSE IF p \in {"k", "fc1"} THEN "packed" ELSE IF p = "out" THEN "rotated" ELSE "streamed"
Of(c, p) == Weight(p, KindOf(c, p), IF p = "compress_gate" THEN 0 ELSE c.factors)
Gated(c) == c.attention = "vsa"

BlockInputs(c) == {"tokens", "selectors", "cos", "sin"}
BlockWeights(c) ==
  UNION {Stored(Of(c, p)) : p \in Names}
  \cup {"norm1", "norm2", "q_norm", "k_norm", "adaln_w", "adaln_b", "code", "modulation.cuda", "ranges", "vsa.geometry", "veda.projection"}

-----------------------------------------------------------------------------
(* Vulkan.                                                                 *)

\* load, load_refiner.
LoadBlock(c) ==
  FlattenSeq([i \in 1..7 |->
    LET p == <<"q", "k", "v", "out", "fc1", "fc2", "compress_gate">>[i]
    IN If(p # "compress_gate" \/ Gated(c), LoadProjection(Of(c, p)))])

\* A refiner is a block whose table leaves the norms unmodulated and opens the gates, 2 and 5, and
\* whose rotation is the identity: an operator on such a table does what CUDA's refiner calls.
Gates == {2, 5}
Identity(o) ==
  IF o.op = "rms_norm_modulate" /\ Range(o.par) \cap Gates = {}
  THEN [o EXCEPT !.op = "rms_norm", !.par = <<>>, !.ins = <<o.ins[1], o.ins[2]>>]
  ELSE IF o.op = "add_gated" /\ o.par[1] \in Gates
  THEN [o EXCEPT !.op = "add_residual", !.par = <<>>, !.ins = <<o.ins[1], o.ins[2]>>]
  ELSE IF o.op = "rope" THEN [o EXCEPT !.op = "copy", !.par = <<>>] ELSE o
AsRefiner(c, ops) == IF c.refiner THEN [i \in DOMAIN ops |-> Identity(ops[i])] ELSE ops

Tap(c, t, tap) == If(tap \in c.taps, <<copy(t, tap)>>)

ReusedForGate == "attention"   \* mistake: the compression gate read from the attention's output
GateInput == "normed"

RecordAttention(c) ==
  CASE c.attention = "vsa" ->
         <<vsa_attention("q", "k", "v", "attention")>>
         \o RecordProjection(Of(c, "compress_gate"), GateInput, "compress_gate", "hidden_a", "hidden_b", c.rows)
         \o <<vsa_add_compression("compress_gate", "attention")>>
    [] c.attention = "veda" -> <<veda_attention(Heads, "veda.projection", "q", "k", "v", "attention")>>
    [] OTHER -> <<h3_attention("q", "k", "v", "attention", If(c.attention = "banded", <<"ranges">>),
                               c.attention = "sage", If(c.rows >= 64, <<"attention.pv">>))>>

\* record.
RecordBlock(c) ==
  LET P(p, in, out, a, b) == RecordProjection(Of(c, p), in, out, a, b, c.rows)
      Modulate(norm, scale, shift) ==
        rms_norm_modulate_bf16_table("tokens", norm, "modulation", scale, shift, "selectors", "normed")
      Add(gate) == dit_add_gated_bf16_table("tokens", "branch", "modulation", gate, "selectors")
  IN AsRefiner(c,
       <<dit_expand_adaln("adaln_w", "adaln_b", "code", "modulation"), Modulate("norm1", 1, 0)>>
       \o P("q", "normed", "q", "hidden_a", "hidden_b") \o P("k", "normed", "k", "hidden_a", "hidden_b")
       \o P("v", "normed", "v", "hidden_a", "hidden_b")
       \o <<rms_norm_heads_bf16("q", "q_norm", "q"), rms_norm_heads_bf16("k", "k_norm", "k"),
            rope_bf16("q", "cos", "sin", FALSE), rope_bf16("k", "cos", "sin", FALSE)>>
       \o Tap(c, "q", "tap.q") \o Tap(c, "k", "tap.k") \o Tap(c, "v", "tap.v")
       \o RecordAttention(c) \o Tap(c, "attention", "tap.attention")
       \o P("out", "attention", "branch", "inner_a", "inner_b") \o <<Add(2)>>
       \o Tap(c, "tokens", "tap.attention_residual")
       \o <<Modulate("norm2", 4, 3)>>
       \o P("fc1", "normed", "fused", "hidden_a", "hidden_b") \o <<dit_swiglu_bf16("fused", "activation")>>
       \o P("fc2", "activation", "branch", "ffn_a", "ffn_b") \o <<Add(5)>>
       \o Tap(c, "tokens", "tap.final_residual"))

\* required_operators.
RequiredOperators(c) ==
  LET N(p) == ProjectionOperators(Of(c, p), c.rows)
  IN 11 + N("q") + N("k") + N("v") + N("out") + N("fc1") + N("fc2")
     + (IF Gated(c) THEN 3 + N("compress_gate") ELSE 0)
     + (IF c.attention \in {"veda", "veda inactive"} THEN Heads - 1 ELSE 0)
     + Cardinality(c.taps)

-----------------------------------------------------------------------------
(* CUDA.                                                                   *)

\* begin_block_capture: captured at the places of the taps, with exact attention only.
Captured(c) == c.taps # {} /\ c.attention \in {"flash2", "banded"}
Capture(c, t, tap) == If(Captured(c) /\ tap \in c.taps, <<copy(t, tap)>>)

Normalize(c, norm, scale, shift) ==
  IF c.refiner THEN rms_norm_bf16("tokens", norm, "normed")
  ELSE rms_norm_modulate_bf16_table("tokens", norm, "modulation", scale, shift, "selectors", "normed")
AddBranch(c, gate) ==
  IF c.refiner THEN text_add_residual_bf16("tokens", "branch")
  ELSE dit_add_gated_bf16_table("tokens", "branch", "modulation", gate, "selectors")

HeadNorm(c, t) ==
  <<rms_norm_heads_bf16(t, Part(t, "_norm"), t)>> \o If(~c.refiner, <<rope_bf16(t, "cos", "sin", FALSE)>>)
Band(c) == If(c.attention = "banded", <<"ranges">>)

KvOfChunk(c) == FALSE   \* mistake: keys and values of a chunk made when its queries are
KvFirst(c) == TRUE

\* The path with queries in chunks: every key and value is made before any row of tokens changes.
ChunkedAttention(c) ==
  LET kv == <<Of(c, "k"), Of(c, "v")>>
      qo == <<Of(c, "q"), Of(c, "out")>>
      MakeKv == Prepared(kv) \o ForChunks(c.chunks, <<Normalize(c, "norm1", 1, 0)>> \o Project(kv, 1, "normed", "k") \o Project(kv, 2, "normed", "v"))
                \o HeadNorm(c, "k")
      Queries == <<Normalize(c, "norm1", 1, 0)>> \o Project(qo, 1, "normed", "q") \o HeadNorm(c, "q")
                 \o <<h3_attention("q", "k", "v", "attention", Band(c), FALSE, <<>>)>>
                 \o Project(qo, 2, "attention", "branch") \o <<AddBranch(c, 2)>>
  IN IF KvFirst(c) THEN MakeKv \o Prepared(qo) \o ForChunks(c.chunks, Queries)
     ELSE FlattenSeq([i \in DOMAIN c.chunks |-> MakeKv \o Prepared(qo) \o OnRows(c.chunks[i], Queries)])

CudaAttention(c) ==
  CASE Gated(c) -> vsa_attention("q", "k", "v", "attention")
    [] c.attention = "veda" -> veda_attention(Heads, "veda.projection", "q", "k", "v", "attention")
    [] OTHER -> h3_attention("q", "k", "v", "attention", Band(c), FALSE, <<>>)

\* The compression gate is made again from the tokens, into the idle buffer of the FFN.
CompressionGate(c) ==
  LET gate == <<Of(c, "compress_gate")>>
  IN If(Gated(c), Prepared(gate) \o ForChunks(c.chunks,
       <<Normalize(c, "norm1", 1, 0)>> \o Project(gate, 1, "normed", "fused") \o <<vsa_add_compression("fused", "attention")>>))

FullAttention(c) ==
  LET qkv == <<Of(c, "q"), Of(c, "k"), Of(c, "v")>>
      out == <<Of(c, "out")>>
  IN Prepared(qkv)
     \o ForChunks(c.chunks, <<Normalize(c, "norm1", 1, 0)>> \o Project(qkv, 1, "normed", "q")
                            \o Project(qkv, 2, "normed", "k") \o Project(qkv, 3, "normed", "v"))
     \o HeadNorm(c, "q") \o HeadNorm(c, "k")
     \o Capture(c, "q", "tap.q") \o Capture(c, "k", "tap.k") \o Capture(c, "v", "tap.v")
     \o <<CudaAttention(c)>> \o Capture(c, "attention", "tap.attention")
     \o CompressionGate(c)
     \o Prepared(out) \o ForChunks(c.chunks, Project(out, 1, "attention", "branch") \o <<AddBranch(c, 2)>>)

FeedForward(c) ==
  LET ws == <<Of(c, "fc1"), Of(c, "fc2")>>
  IN Prepared(ws)
     \o ForChunks(c.chunks, <<Normalize(c, "norm2", 4, 3)>> \o Project(ws, 1, "normed", "fused")
                            \o <<dit_swiglu_bf16("fused", "activation")>> \o Project(ws, 2, "activation", "branch")
                            \o <<AddBranch(c, 5)>>)

\* Carve::chunked_attention, query_chunking_enabled.
QueriesInChunks(c) == Len(c.chunks) > 1 /\ c.attention = "flash2" /\ c.taps = {}

\* run_block; the modulation table is expanded before the blocks run.
BuildModulation(c) == If(~c.refiner, <<dit_expand_adaln("adaln_w", "adaln_b", "code", "modulation")>>)
RunBlock(c) ==
  (IF QueriesInChunks(c) THEN ChunkedAttention(c) ELSE FullAttention(c))
  \o Capture(c, "tokens", "tap.attention_residual")
  \o FeedForward(c) \o Capture(c, "tokens", "tap.final_residual")

FirstRows(c) ==
  ArenaAndLora \cup {"normed", "fused", "activation", "branch"} \cup (IF QueriesInChunks(c) THEN {"q", "attention"} ELSE {})

-----------------------------------------------------------------------------
BlockGraph(c) ==
  [name |-> <<"block", c>>, inputs |-> BlockInputs(c), weights |-> BlockWeights(c),
   programs |-> <<[ops |-> LoadBlock(c) \o <<Declare(RequiredOperators(c))>> \o RecordBlock(c), first |-> {}], [ops |-> BuildModulation(c) \o RunBlock(c), first |-> FirstRows(c)]>>,
   results |-> All({"tokens"} \cup (IF Captured(c) THEN c.taps ELSE {}))]

\* Every kind of weight for every count of rows, every attention, and their chunks.
BlockConfigs ==
  {Config(r, k, f, "flash2", {}, FALSE, ch) : r \in {32, 64, 96}, k \in Kinds \cup {"mixed"}, f \in 0..1, ch \in {Whole, InTwo}}
  \cup {Config(96, k, 0, a, Taps, FALSE, InThree) : k \in {"streamed", "mixed"}, a \in {"flash2", "banded", "sage", "vsa", "veda", "veda inactive"}}
  \cup {Config(96, k, 2, a, {}, FALSE, InTwo) : k \in {"pre+rotated"}, a \in {"flash2", "vsa"}}
  \cup {Config(64, k, 0, "flash2", {}, TRUE, ch) : k \in {"streamed", "resident"}, ch \in {Whole, InThree}}
BlockGraphs == {BlockGraph(c) : c \in BlockConfigs}

-----------------------------------------------------------------------------
(* The denoiser around its blocks.                                         *)

Layers == 2                \* bound: two for the refiner, as in the model, and two for 50 main blocks
Nth(stack, l, t) == Part(stack \o ToString(l), Part(".", t))

\* The tensors a layer does not share with the others.
LayerWeights(c) == UNION {Stored(Of(c, p)) : p \in Names} \cup {"norm1", "norm2", "q_norm", "k_norm", "adaln_w", "adaln_b"}
OwnOf(c) == LayerWeights(c) \cup {Dense(Of(c, p)) : p \in Names} \cup c.taps

AsLayer(stack, l, own, tokens, ops) ==
  LET Name(t) == IF t \in own THEN Nth(stack, l, t) ELSE IF t = "tokens" THEN tokens ELSE t
      Renamed(o) == [o EXCEPT !.ins = [i \in DOMAIN @ |-> Name(@[i])], !.all = [i \in DOMAIN @ |-> Name(@[i])],
                              !.outs = [i \in DOMAIN @ |-> Name(@[i])],
                              !.uses = [i \in DOMAIN @ |-> [@[i] EXCEPT !.t = Name(@)]]]
  IN [i \in DOMAIN ops |-> Renamed(ops[i])]
EachLayer(stack, own, tokens, ops) == FlattenSeq([l \in 1..Layers |-> AsLayer(stack, l, own, tokens, ops)])

-----------------------------------------------------------------------------
(* The text: src/src/dit/transformer_prepare.cpp.                          *)

TextTaps == {"tap.attention_residual", "tap.final_residual"}
Condition(dst) == gemm("text_input", "condition.weight", <<"condition.bias">>, dst)
WholeTap(c, t, tap) == If(c.taps # {}, <<copy(t, tap)>>)

\* prepare_text.
RecordText(c) ==
  <<convert("prompt", "text_input")>> \o RowParts(c.rows, Condition("text_cache"))
  \o WholeTap(c, "text_cache", "tap.condition")
  \o EachLayer("refiner", OwnOf(c), "text_cache", RecordBlock(c))
  \o <<rms_norm_bf16("text_cache", "refiner_norm", "text_cache")>> \o WholeTap(c, "text_cache", "tap.final_norm")

\* required_prepare_text_operators: the refiner's taps are counted with the other two.
TextOperators(c) ==
  2 + PartCount(c.rows) + Layers * RequiredOperators([c EXCEPT !.taps = {}]) + (IF c.taps # {} THEN 6 ELSE 0)

\* The final norm goes through normed, chunk by chunk.
PrepareText(c) ==
  <<convert("prompt", "text_input"), Condition("text_cache")>> \o WholeTap(c, "text_cache", "tap.condition")
  \o EachLayer("refiner", OwnOf(c), "text_cache", RunBlock(c))
  \o ForChunks(c.chunks, <<rms_norm_bf16("text_cache", "refiner_norm", "normed"), copy("normed", "text_cache")>>)
  \o WholeTap(c, "text_cache", "tap.final_norm")

TextGraph(c) ==
  [name |-> <<"text", c>>, inputs |-> {"prompt", "selectors", "cos", "sin"},
   weights |-> {Nth("refiner", l, t) : l \in 1..Layers, t \in LayerWeights(c)}
               \cup {"code", "condition.weight", "condition.bias", "refiner_norm"},
   programs |-> <<[ops |-> EachLayer("refiner", OwnOf(c), "text_cache", LoadBlock(c))
                           \o <<Declare(TextOperators(c))>> \o RecordText(c), first |-> {}],
                  [ops |-> PrepareText(c), first |-> FirstRows(c)]>>,
   results |-> All({"text_cache"} \cup (IF c.taps = {} THEN {}
                      ELSE {"tap.condition", "tap.final_norm"} \cup {Nth("refiner", l, t) : l \in 1..Layers, t \in TextTaps}))]

-----------------------------------------------------------------------------
(* One forward pass.                                                       *)

\* The rows of the sequence: text, then audio, then video, of which the first may be a condition;
\* whether rows are placed by an index; and whether each step has its own heads.
Sequence(audio, conditioned, indexed, pdd) ==
  [text |-> {1}, audio |-> IF audio THEN {2} ELSE {}, video |-> IF audio THEN {3} ELSE {2, 3},
   output |-> IF conditioned THEN {3} ELSE IF audio THEN {3} ELSE {2, 3}, indexed |-> indexed, pdd |-> pdd]

\* vision_scatter_bf16 and launch_scatter_rows place rows where an index says.
Scatter(src, index) == [vision_scatter_bf16(src, "hidden", index) EXCEPT !.op = "copy", !.ins = <<src>>]
Place(y, m, src, index) == IF y.indexed THEN Scatter(src, index) ELSE copy(src, "hidden")

In(m, dst) == gemm(Part(m, ".latents"), Part(m, "_in.weight"), <<Part(m, "_in.bias")>>, dst)
HeadWeight(y, m, x) == Part(m, Part(IF y.pdd THEN "_pdd" ELSE "_out", x))
OutputHead(y, m, src) == gemm(src, HeadWeight(y, m, ".weight"), <<HeadWeight(y, m, ".bias")>>, Part(m, ".velocity"))
FinalNorm(m, src, dst) == rms_norm_modulate(src, "final_norm", "final_scale", "final_shift", Part(m, ".timestep"), dst)

ExpandFinal == <<dit_expand_adaln("final_shift.weight", "final_shift.bias", "code", "final_shift"),
                 dit_expand_adaln("final_scale.weight", "final_scale.bias", "code", "final_scale")>>

PackInput(y, m, rows) ==
  OnRows(rows, <<In(m, Part(m, "_projected")), convert(Part(m, "_projected"), Part(m, "_projected_bf16")),
                 Place(y, m, Part(m, "_projected_bf16"), Part(m, ".index"))>>)
RecordHead(y, m, rows) ==
  OnRows(rows, <<copy("hidden", Part(m, "_gather_bf16")), convert(Part(m, "_gather_bf16"), Part(m, "_gather")),
                 FinalNorm(m, Part(m, "_gather"), Part(m, "_normed")), OutputHead(y, m, Part(m, "_normed"))>>)

PackText(y) == OnRows(y.text, <<copy("text_cache", "hidden")>>)
HasAudio(y) == y.audio # {}

\* record_forward.
RecordForward(c, y) ==
  PackInput(y, "video", y.video) \o If(HasAudio(y), PackInput(y, "audio", y.audio)) \o PackText(y)
  \o WholeTap(c, "hidden", "tap.packed_input")
  \o EachLayer("main", OwnOf(c), "hidden", RecordBlock(c)) \o WholeTap(c, "hidden", "tap.main_final")
  \o ExpandFinal \o RecordHead(y, "video", y.output) \o If(HasAudio(y), RecordHead(y, "audio", y.audio))

\* required_forward_operators, ExactH3MainGraph::required_operators.
NoAudioOperators(y) == 10   \* mistake
InputAndHeadOperators(y) == IF HasAudio(y) THEN 17 ELSE 10
ForwardOperators(c, y) == InputAndHeadOperators(y) + Layers * RequiredOperators(c) + (IF c.taps # {} THEN 2 ELSE 0)

\* Transformer::forward: the projections and the heads go through normed, fa and fb, chunk by chunk.
ChunksOf(c, rows) == SelectSeq([i \in DOMAIN c.chunks |-> c.chunks[i] \cap rows], LAMBDA chunk : chunk # {})
ProjectIn(c, m, rows) ==
  ForChunks(ChunksOf(c, rows), <<In(m, "fa"), convert("fa", "normed"), Scatter("normed", Part(m, ".index"))>>)
RunHead(c, y, m, rows) ==
  ForChunks(ChunksOf(c, rows),
    <<copy("hidden", "normed"), convert("normed", "fa"), FinalNorm(m, "fa", "fb"), OutputHead(y, m, "fb")>>)

Forward(c, y) ==
  LET own == OwnOf(c) \cup {"modulation"}
  IN EachLayer("main", own, "hidden", BuildModulation(c)) \o ExpandFinal
     \o ProjectIn(c, "video", y.video) \o ProjectIn(c, "audio", y.audio) \o PackText(y)
     \o WholeTap(c, "hidden", "tap.packed_input")
     \o EachLayer("main", own, "hidden", RunBlock(c)) \o WholeTap(c, "hidden", "tap.main_final")
     \o RunHead(c, y, "video", y.video) \o RunHead(c, y, "audio", y.audio)

EndWeights(y) ==
  {Part(m, Part(p, x)) : m \in {"video", "audio"}, p \in {"_in", "_out", "_pdd"}, x \in {".weight", ".bias"}}
  \cup {Part(p, x) : p \in {"final_shift", "final_scale"}, x \in {".weight", ".bias"}}
  \cup {"final_norm", "video.index", "audio.index", "code", "ranges", "vsa.geometry", "veda.projection"}
Packed(c) == IF c.taps = {} THEN {} ELSE {"tap.packed_input", "tap.main_final"}

ForwardGraph(c, y) ==
  [name |-> <<"forward", c, y>>,
   inputs |-> {"video.latents", "audio.latents", "text_cache", "selectors", "cos", "sin", "video.timestep", "audio.timestep"},
   weights |-> {Nth("main", l, t) : l \in 1..Layers, t \in LayerWeights(c)} \cup EndWeights(y),
   programs |-> <<[ops |-> EachLayer("main", OwnOf(c), "hidden", LoadBlock(c))
                           \o <<Declare(ForwardOperators(c, y))>> \o RecordForward(c, y), first |-> {}],
                  [ops |-> Forward(c, y), first |-> FirstRows(c) \cup {"fa", "fb"}]>>,
   results |-> [t \in {"video.velocity"} \cup (IF HasAudio(y) THEN {"audio.velocity"} ELSE {}) \cup Packed(c) |->
                  CASE t = "video.velocity" -> y.output [] t = "audio.velocity" -> y.audio [] OTHER -> Slots]]

TransformerGraphs ==
  {TextGraph(Config(r, k, 0, "flash2", t, TRUE, ch)) :
     r \in {32, 64, 96}, k \in {"streamed", "mixed"}, t \in {{}, TextTaps}, ch \in {Whole, InTwo}}
  \cup {ForwardGraph(Config(96, "mixed", 1, a, t, FALSE, ch), Sequence(au, co, ix, pdd)) :
          a \in {"flash2"}, t \in {{}, {"tap.final_residual"}}, ch \in {Whole, InTwo, InThree}, au \in BOOLEAN, co \in BOOLEAN, ix \in BOOLEAN, pdd \in {TRUE}}
  \cup {ForwardGraph(Config(64, "streamed", 0, a, {}, FALSE, InThree), Sequence(au, TRUE, TRUE, FALSE)) : a \in {"vsa", "veda"}, au \in BOOLEAN}
=============================================================================
