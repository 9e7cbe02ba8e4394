------------------------- MODULE CheckpointWeights -------------------------
(***************************************************************************)
(* A linear weight of an H3 checkpoint, in each of the formats it may be   *)
(* stored in, and how both backends check it, cut q, k and v out of the    *)
(* fused matrix and decode it (src/src/dit/transformer_load.cpp and        *)
(* transformer_support.h, src/src/cuda/linear_weights.cu and w4a8.cu,      *)
(* src/src/vulkan/dit_block.cpp, tensor_weights.cpp and tensor_weight.comp *)
(* and tensor_w4a8.comp, src/src/core/w4a8.cpp and nf4.cpp).               *)
(*                                                                         *)
(* Values are followed by where they come from: a decoded element is the   *)
(* set of the places of its code and the set of the places of its scales.  *)
(***************************************************************************)
EXTENDS Integers, Sequences, FiniteSets, TLC

CONSTANTS
  Archives,     \* the weights to look at
  HeadDim,      \* rows of a head
  PackOf,       \* elements a CUDA thread decodes at once (8)
  NvBlock,      \* columns an NVFP4 block scale is for (16)
  TileRows, LaneRows, TileCols,   \* the tiles those scales are stored in (128, 32, 4)
  NfBlock, NfNested,   \* elements of an NF4 absmax (64), those of a nested one (256)
  RotationGroup \* columns of a ConvRot rotation of a packed weight (256)

ASSUME WeightsAssumption ==
  /\ {HeadDim, PackOf, NvBlock, TileRows, LaneRows, TileCols, NfBlock, NfNested, RotationGroup}
       \subseteq Nat \ {0}
  /\ TileRows % LaneRows = 0 /\ NvBlock % PackOf = 0 /\ NfBlock % PackOf = 0

VARIABLES
  weight,  \* the weight in its file: its matrix is three slices of inner rows, or one, of width
           \* columns; the tensors that make it up; and its quantisation tag
  weightPhase \* "file" or "loaded"

weightVars == <<weight, weightPhase>>

-----------------------------------------------------------------------------
(* What the formats say.                                                   *)

Dense == {"F32", "F16", "BF16"}
Formats == Dense \cup {"F8", "I8", "NVFP4", "NF4", "W4", "W6"}
IsPacked(format) == format \in {"W4", "W6"}
BitsOf(format) == IF format = "W6" THEN 6 ELSE 4

\* A tensor, and whether its values are usable as scales.
Tensor(dtype, shape) == [dtype |-> dtype, shape |-> shape, good |-> TRUE]
CeilDiv(n, d) == (n + d - 1) \div d

Canonical(format, rows, width, group) ==
  LET blocks == CeilDiv(rows * width, NfBlock)
  IN CASE format \in Dense -> "weight" :> Tensor(format, <<rows, width>>)
       [] format = "F8" ->
            ("weight" :> Tensor("F8", <<rows, width>>)) @@ ("weight_scale" :> Tensor("F32", <<>>))
       [] format = "I8" ->
            ("weight" :> Tensor("I8", <<rows, width>>))
            @@ ("weight_scale" :> Tensor("F32", <<rows, 1>>))
       [] format = "NVFP4" ->
            ("weight" :> Tensor("U8", <<rows, width \div 2>>))
            @@ ("weight_scale" :> Tensor("F8", <<rows, width \div NvBlock>>))
            @@ ("weight_scale_2" :> Tensor("F32", <<>>))
       [] format = "NF4" ->
            ("weight" :> Tensor("U8", <<(rows * width) \div 2, 1>>))
            @@ ("absmax" :> Tensor("U8", <<blocks>>)) @@ ("quant_map" :> Tensor("F32", <<16>>))
            @@ ("nested_absmax" :> Tensor("F32", <<CeilDiv(blocks, NfNested)>>))
            @@ ("nested_quant_map" :> Tensor("F32", <<256>>))
            @@ ("weight.quant_state" :> Tensor("U8", <<9>>))
       [] IsPacked(format) ->
            ("weight" :> Tensor("I8", <<rows, (width * BitsOf(format)) \div 8>>))
            @@ ("weight_s_rel" :> Tensor("F8", <<rows, width \div group>>))
            @@ ("weight_s_channel" :> Tensor("F32", <<rows>>))
            @@ (IF format = "W4" THEN "weight_codebook" :> Tensor("F32", <<16>>) ELSE <<>>)

\* Row f of an interleaved file belongs to one head; its q rows come first, then k, then v.
HeldRow(f, inner) ==
  ((f \div HeadDim) % 3) * inner + (f \div (3 * HeadDim)) * HeadDim + (f % HeadDim)
FileRow(w, row) ==
  IF w.interleaved THEN CHOOSE f \in 0 .. 3 * w.inner - 1 : HeldRow(f, w.inner) = row ELSE row

\* The block scales are stored tile by tile, in a tile by row modulo the lanes, and so on.
Before(x, y) ==
  \E i \in DOMAIN x : x[i] < y[i] /\ \A j \in 1 .. i - 1 : x[j] = y[j]
TileKey(o, k) ==
  <<o \div TileRows, k \div TileCols, o % LaneRows, (o % TileRows) \div LaneRows, k % TileCols>>
Tiled(rows, blocks, o, k) ==
  Cardinality({x \in (0 .. rows - 1) \X (0 .. blocks - 1) : Before(TileKey(x[1], x[2]), TileKey(o, k))})

\* The codes and scales of an element, as its format stores them.
Nibble(element, evenHigh) == IF (element % 2 = 0) = evenHigh THEN "high" ELSE "low"

StoredAs(w, format, row, c) ==
  LET f == FileRow(w, row)
      e == f * w.width + c
      bytes == (w.width * 3) \div 4     \* of a W6 row: the low halves, then the high ones
  IN CASE format \in Dense -> [codes |-> {<<e, "all">>}, scales |-> {}]
       [] format = "F8" -> [codes |-> {<<e, "all">>}, scales |-> {<<"weight_scale", 0>>}]
       [] format = "I8" -> [codes |-> {<<e, "all">>}, scales |-> {<<"weight_scale", f>>}]
       [] format = "NVFP4" ->
            [codes |-> {<<e \div 2, Nibble(e, TRUE)>>},
             scales |-> {<<"weight_scale", Tiled(w.rows, w.width \div NvBlock, f, c \div NvBlock)>>,
                         <<"weight_scale_2", 0>>}]
       [] format = "NF4" ->
            [codes |-> {<<e \div 2, Nibble(e, TRUE)>>},
             scales |-> {<<"absmax", e \div NfBlock>>,
                         <<"nested_absmax", e \div (NfBlock * NfNested)>>}]
       [] format = "W4" ->
            [codes |-> {<<e \div 2, Nibble(e, FALSE)>>},
             scales |-> {<<"weight_s_rel", e \div w.group>>, <<"weight_s_channel", f>>}]
       [] format = "W6" ->
            [codes |-> {<<f * bytes + c \div 2, Nibble(c, FALSE)>>,
                        <<f * bytes + w.width \div 2 + c \div 4, c % 4>>},
             scales |-> {<<"weight_s_rel", e \div w.group>>, <<"weight_s_channel", f>>}]

-----------------------------------------------------------------------------
(* The checks on an archive.                                               *)

Has(w, n) == n \in DOMAIN w.tensors
Is(w, n, dtype, shape) ==
  Has(w, n) /\ w.tensors[n].dtype = dtype /\ w.tensors[n].shape = shape
Shaped(w, n, shape) == Has(w, n) /\ w.tensors[n].shape = shape
IsDtype(w, n, dtypes) == Has(w, n) /\ w.tensors[n].dtype \in dtypes
Good(w, n) == Has(w, n) /\ w.tensors[n].good

Numel(shape) == IF shape = <<>> THEN 1 ELSE IF Len(shape) = 1 THEN shape[1] ELSE shape[1] * shape[2]
Counts(w, n, count) == Has(w, n) /\ Numel(w.tensors[n].shape) = count

IsPackedTag(w) == w.tag.format \in {"asym_w4a8_int8", "w6a8_int8"}
TagBits(w) == IF w.tag.format = "w6a8_int8" THEN 6 ELSE 4

\* read_packed_int8_state and validate_packed_int8_weight.
ValidPacked(w) ==
  /\ w.tag.convrot /\ w.tag.group = RotationGroup /\ ~w.tag.full
  /\ (TagBits(w) = 4 => w.group = NvBlock)
  /\ w.width % RotationGroup = 0 /\ w.width % w.group = 0
  /\ Is(w, "weight", "I8", <<w.rows, (w.width * TagBits(w)) \div 8>>)
  /\ Is(w, "weight_s_rel", "F8", <<w.rows, w.width \div w.group>>) /\ Good(w, "weight_s_rel")
  /\ Is(w, "weight_s_channel", "F32", <<w.rows>>) /\ Good(w, "weight_s_channel")
  /\ IF TagBits(w) = 4 THEN Is(w, "weight_codebook", "F32", <<16>>) /\ Good(w, "weight_codebook")
     ELSE ~Has(w, "weight_codebook")
  /\ ~Has(w, "pre_quant_scale")

\* read_nf4_state: the state's own fields, and the shape it declares.
ValidNfState(w, n) ==
  /\ Has(w, n) /\ w.tensors[n].dtype = "U8" /\ Len(w.tensors[n].shape) = 1 /\ w.tensors[n].good

\* validate_interleaved_qkv.
Interleavable(w, n) ==
  /\ Has(w, n) /\ Len(w.tensors[n].shape) = 2 /\ w.tensors[n].shape[1] % (3 * HeadDim) = 0
  /\ IsDtype(w, n, {"I8", "F32", "F16", "BF16", "F8"})

Powers == {1, 4, 16, 64, 256}

-----------------------------------------------------------------------------
(* CUDA.                                                                   *)

\* is_nvfp4.
IsNv(w) ==
  /\ IsDtype(w, "weight", {"U8"}) /\ IsDtype(w, "weight_scale", {"F8"})
  /\ Len(w.tensors["weight_scale"].shape) = 2
  /\ w.tensors["weight_scale"].shape[2] = w.width \div NvBlock

Scalar(w, n) == ~Has(w, n) \/ (Numel(w.tensors[n].shape) = 1 /\ Len(w.tensors[n].shape) <= 1)

CudaFormat(w) ==
  IF IsPackedTag(w) THEN IF TagBits(w) = 6 THEN "W6" ELSE "W4"
  ELSE IF Has(w, "weight.quant_state") THEN "NF4"
  ELSE IF IsNv(w) THEN "NVFP4"
  ELSE IF Has(w, "weight") THEN w.tensors["weight"].dtype ELSE "none"

\* What Plan was asked for, by name; finish refuses an archive that holds more.
Claimed(format) ==
  {"weight", "input_scale"}
  \cup CASE IsPacked(format) ->
              {"weight_s_rel", "weight_s_channel"}
              \cup (IF format = "W4" THEN {"weight_codebook"} ELSE {})
         [] format = "NF4" -> {"absmax", "quant_map", "nested_absmax", "nested_quant_map",
                               "weight.quant_state"}
         [] format = "NVFP4" -> {"weight_scale", "weight_scale_2"}
         [] OTHER -> {"weight_scale"}

PlansNf4(w) ==
  LET blocks == CeilDiv(w.rows * w.width, NfBlock)
  IN /\ ValidNfState(w, "weight.quant_state")
     /\ Shaped(w, "weight", <<(w.rows * w.width) \div 2, 1>>)
     /\ Shaped(w, "absmax", <<blocks>>) /\ Shaped(w, "quant_map", <<16>>)
     /\ Shaped(w, "nested_absmax", <<CeilDiv(blocks, NfNested)>>)
     /\ Shaped(w, "nested_quant_map", <<256>>)

\* plan_linear, and Plan::finish.
CudaPlans(w) ==
  LET format == CudaFormat(w)
  IN /\ CASE IsPacked(format) -> ValidPacked(w) /\ ~w.interleaved
          [] format = "NF4" -> PlansNf4(w)
          [] format = "NVFP4" ->
               /\ Shaped(w, "weight", <<w.rows, w.width \div 2>>)
               /\ Shaped(w, "weight_scale", <<w.rows, w.width \div NvBlock>>)
               /\ Scalar(w, "weight_scale_2")
          [] format = "I8" ->
               Shaped(w, "weight", <<w.rows, w.width>>) /\ Shaped(w, "weight_scale", <<w.rows, 1>>)
          [] OTHER -> Shaped(w, "weight", <<w.rows, w.width>>) /\ Scalar(w, "weight_scale")
     /\ w.interleaved => Interleavable(w, "weight")
     /\ DOMAIN w.tensors \subseteq Claimed(format)

\* read_comfy_quant.
TagIsKnown(w) ==
  w.tag.format \in {"none", "nvfp4", "float8_e4m3fn", "int8_tensorwise", "asym_w4a8_int8",
                    "w6a8_int8"}

\* quant, and the cut into thirds, after the upload.
CudaBinds(w) ==
  LET format == CudaFormat(w)
  IN /\ CASE format = "NVFP4" -> Has(w, "weight_scale_2")
          [] format \in {"F8", "I8"} -> Has(w, "weight_scale")
          [] OTHER -> format \in Formats
     /\ TagIsKnown(w)
     /\ w.tag.convrot =>
          /\ \/ w.tag.format = "int8_tensorwise" /\ format = "I8"
             \/ IsPacked(format)
          /\ w.tag.group \in Powers
     /\ w.sliced =>
          CASE format = "NF4" -> (w.inner * w.width) % (NfBlock * NfNested) = 0
            [] format = "NVFP4" -> w.inner % TileRows = 0
            [] OTHER -> TRUE

\* launch_dequant_nvfp4 and launch_dequant_w6a8_weight refuse what cannot be decoded.
CudaDecodes(w) ==
  /\ CudaFormat(w) = "NVFP4" =>
       w.inner % TileRows = 0 /\ w.width % (TileCols * NvBlock) = 0
  /\ CudaFormat(w) = "W6" => w.width % w.group = 0

CudaAccepts(w) == CudaPlans(w) /\ CudaBinds(w) /\ CudaDecodes(w)

\* deinterleave_qkv_rows: the file's row of each row.
OrderedByPart(w, row) ==   \* mistake: the file holds a head's q, k and v apart
  row
Deinterleaved(w, row) ==
  LET channel == row % w.inner
  IN ((channel \div HeadDim) * 3 + row \div w.inner) * HeadDim + (channel % HeadDim)

\* An interleaved weight and its row scales are reordered on their way to the device.
Uploaded(w, n, i) ==
  IF w.interleaved /\ n \in {"weight", "weight_scale"} /\ Len(w.tensors[n].shape) = 2
  THEN LET width == w.tensors[n].shape[2] IN Deinterleaved(w, i \div width) * width + (i % width)
  ELSE i

\* The start of third t in the codes, the block or group scales, the nested ones and the row scales.
SharedBlocks(w, t) ==   \* mistake: k and v use the block scales of q
  LET third == w.inner * w.width
      format == CudaFormat(w)
  IN [data |-> t * (CASE IsPacked(format) -> (third * BitsOf(format)) \div 8
                      [] format \in {"NF4", "NVFP4"} -> third \div 2
                      [] OTHER -> third),
      block |-> 0, nested |-> 0,
      row |-> IF IsPacked(format) \/ format = "I8" THEN t * w.inner ELSE 0]
Thirds(w, t) ==
  LET third == w.inner * w.width
      format == CudaFormat(w)
  IN [data |-> t * (CASE IsPacked(format) -> (third * BitsOf(format)) \div 8
                      [] format \in {"NF4", "NVFP4"} -> third \div 2
                      [] OTHER -> third),
      block |-> t * (CASE IsPacked(format) -> third \div w.group
                       [] format = "NF4" -> third \div NfBlock
                       [] format = "NVFP4" -> third \div NvBlock
                       [] OTHER -> 0),
      nested |-> IF format = "NF4" THEN t * (third \div (NfBlock * NfNested)) ELSE 0,
      row |-> IF IsPacked(format) \/ format = "I8" THEN t * w.inner ELSE 0]

\* nvfp4_scale_offset, in both backends.
NvOffset(o, k, blocks) ==
  LET tile == (o \div TileRows) * (blocks \div TileCols) + k \div TileCols
  IN tile * (TileRows * TileCols) + (o % LaneRows) * (TileRows \div LaneRows) * TileCols
     + ((o % TileRows) \div LaneRows) * TileCols + (k % TileCols)

\* What a kernel writes: the element, the places of its code and of its scales in the buffers.
Decoded(at, codes, scales) == [at |-> at, codes |-> codes, scales |-> scales]
High(byte) == {<<byte, "high">>}
Low(byte) == {<<byte, "low">>}

\* dequant_f8_kernel, dequant_i8_kernel and their scalar forms, the dense conversions.
CudaWhole(w, format, v) ==
  LET n == w.inner * w.width
      scales(i) == IF format = "F8" THEN {<<"weight_scale", 0>>}
                   ELSE IF format = "I8" THEN {<<"weight_scale", v.row + i>>} ELSE {}
      vector == IF format = "I8" THEN w.width % PackOf = 0 ELSE n % PackOf = 0
  IN IF vector /\ format \in {"F8", "I8"}
     THEN {Decoded(p * PackOf + i, {<<v.data + p * PackOf + i, "all">>},
                 scales(p \div (w.width \div PackOf))) :
             p \in 0 .. n \div PackOf - 1, i \in 0 .. PackOf - 1}
     ELSE {Decoded(i, {<<v.data + i, "all">>}, scales(i \div w.width)) : i \in 0 .. n - 1}

\* dequant_nvfp4_kernel.
CudaNv(w, v) ==
  LET packs == w.width \div PackOf
      half == PackOf \div 2
      scales(o, pack) ==
        {<<"weight_scale", v.block + NvOffset(o, pack \div (NvBlock \div PackOf), w.width \div NvBlock)>>,
         <<"weight_scale_2", 0>>}
      byte(o, pack, b) == v.data + o * packs * half + pack * half + b
      at(o, pack, b) == o * packs * PackOf + pack * PackOf + 2 * b
  IN UNION {{Decoded(at(o, pack, b), High(byte(o, pack, b)), scales(o, pack)),
             Decoded(at(o, pack, b) + 1, Low(byte(o, pack, b)), scales(o, pack))} :
              o \in 0 .. w.inner - 1, pack \in 0 .. packs - 1, b \in 0 .. half - 1}

\* dequant_nf4_vec_kernel when the elements make whole packs, dequant_nf4_kernel otherwise.
CudaNf(w, v) ==
  LET n == w.inner * w.width
      step == IF n % PackOf = 0 THEN PackOf ELSE 2
      scales(even) == {<<"absmax", v.block + even \div NfBlock>>,
                       <<"nested_absmax", v.nested + (even \div NfBlock) \div NfNested>>}
      byte(p, b) == v.data + (p * step) \div 2 + b
      at(p, b) == p * step + 2 * b
  IN {x \in UNION {{Decoded(at(p, b), High(byte(p, b)), scales(p * step)),
                    Decoded(at(p, b) + 1, Low(byte(p, b)), scales(p * step))} :
                     p \in 0 .. CeilDiv(n, step) - 1, b \in 0 .. step \div 2 - 1} : x.at < n}

\* dequant_weight_kernel and dequant_w6_kernel; the row scales are applied to the products.
CudaPacked(w, format, v) ==
  LET n == w.inner * w.width
      perRow == w.width \div 2
      scales(row, group) == {<<"weight_s_rel", v.block + group>>, <<"weight_s_channel", v.row + row>>}
      w6(i) == LET row == i \div w.width
                   c == i % w.width
                   base == v.data + row * ((w.width * 3) \div 4)
               IN Decoded(i, {<<base + c \div 2, IF c % 2 = 1 THEN "high" ELSE "low">>,
                            <<base + w.width \div 2 + c \div 4, c % 4>>},
                        scales(row, i \div w.group))
      w4(i) == LET row == i \div perRow
                   c == (i % perRow) * 2
                   group == row * (w.width \div w.group) + c \div w.group
               IN {Decoded(row * w.width + c, Low(v.data + i), scales(row, group)),
                   Decoded(row * w.width + c + 1, High(v.data + i), scales(row, group))}
  IN IF format = "W6" THEN {w6(i) : i \in 0 .. n - 1}
     ELSE UNION {w4(i) : i \in 0 .. n \div 2 - 1}

CudaWrites(w, t) ==
  LET format == CudaFormat(w)
      v == Thirds(w, t)
      written == CASE format = "NVFP4" -> CudaNv(w, v)
                   [] format = "NF4" -> CudaNf(w, v)
                   [] IsPacked(format) -> CudaPacked(w, format, v)
                   [] OTHER -> CudaWhole(w, format, v)
  IN {Decoded(x.at, {<<Uploaded(w, "weight", c[1]), c[2]>> : c \in x.codes},
            {<<s[1], Uploaded(w, s[1], s[2])>> : s \in x.scales}) : x \in written}

-----------------------------------------------------------------------------
(* Vulkan.                                                                 *)

\* load_projection looks for an NF4 state under the projection's name, without ".weight".
VulkanFormat(w) ==
  LET dtype == w.tensors["weight"].dtype
  IN IF dtype = "I8" /\ IsPackedTag(w) THEN IF TagBits(w) = 6 THEN "W6" ELSE "W4"
     ELSE IF Has(w, "quant_state") THEN "NF4"
     ELSE IF dtype = "U8" /\ IsDtype(w, "weight_scale", {"F8"})
                 /\ w.width % (TileCols * NvBlock) = 0
     THEN "NVFP4"
     ELSE dtype

\* validate_projection_archive for third t.
ValidProjection(w, t) ==
  LET format == VulkanFormat(w)
      nested == NfBlock * NfNested
      blocks == CeilDiv(w.rows * w.width, NfBlock)
  IN /\ CASE IsPacked(format) -> ValidPacked(w)
          [] format = "NF4" ->
               /\ ValidNfState(w, "quant_state")
               /\ (t * w.inner * w.width) % nested = 0 /\ (w.inner * w.width) % nested = 0
               /\ IsDtype(w, "weight", {"U8"}) /\ Counts(w, "weight", CeilDiv(w.rows * w.width, 2))
               /\ IsDtype(w, "absmax", {"U8"}) /\ Counts(w, "absmax", blocks)
               /\ Counts(w, "quant_map", 16) /\ Counts(w, "nested_quant_map", 256)
               /\ Counts(w, "nested_absmax", CeilDiv(blocks, NfNested))
          [] format = "NVFP4" ->
               /\ Shaped(w, "weight", <<w.rows, w.width \div 2>>)
               /\ Shaped(w, "weight_scale", <<w.rows, w.width \div NvBlock>>)
               /\ (t * w.inner) % TileRows = 0 /\ w.inner % TileRows = 0
               /\ Counts(w, "weight_scale_2", 1) /\ Good(w, "weight_scale_2")
          [] OTHER ->
               /\ Shaped(w, "weight", <<w.rows, w.width>>) /\ format \in Dense \cup {"F8", "I8"}
               /\ format = "F8" =>
                    /\ Counts(w, "weight_scale", 1) /\ Good(w, "weight_scale")
                    /\ Has(w, "input_scale") => Counts(w, "input_scale", 1) /\ Good(w, "input_scale")
               /\ format = "I8" => Counts(w, "weight_scale", w.rows)
     /\ Has(w, "pre_quant_scale") => Shaped(w, "pre_quant_scale", <<w.width>>)
     /\ w.tag.convrot /\ w.width % w.tag.group = 0 => w.tag.group \in Powers \ {1}

VulkanThirds(w) == IF w.sliced THEN 0 .. 2 ELSE {0}

\* validate_block_archive.
VulkanValidates(w) ==
  /\ Has(w, "weight")
  /\ w.interleaved =>
       /\ ~IsPackedTag(w) /\ Interleavable(w, "weight")
       /\ IsDtype(w, "weight", {"I8"}) => Interleavable(w, "weight_scale")
  /\ \A t \in VulkanThirds(w) : ValidProjection(w, t)

\* load_projection: what it hands to LinearWeight::upload.
UploadOf(w, t) ==
  LET format == VulkanFormat(w)
      elements == w.inner * w.width
      offset == t * elements
  IN [format |-> format,
      data |-> CASE IsPacked(format) -> (offset * BitsOf(format)) \div 8
                 [] format \in {"NF4", "NVFP4"} -> offset \div 2
                 [] OTHER -> offset,
      block |-> CASE IsPacked(format) -> offset \div w.group
                  [] format = "NF4" -> offset \div NfBlock
                  [] format = "NVFP4" -> offset \div NvBlock
                  [] OTHER -> 0,
      nested |-> IF format = "NF4" THEN offset \div (NfBlock * NfNested) ELSE 0,
      row |-> t * w.inner,
      rowScales |-> IF format = "F8" THEN 1
                    ELSE IF IsPacked(format) \/ format = "I8" THEN w.inner ELSE 0,
      blockScales |-> CASE IsPacked(format) -> elements \div w.group
                        [] format = "NF4" -> elements \div NfBlock
                        [] format = "NVFP4" -> elements \div NvBlock
                        [] OTHER -> 0,
      codebook |-> IF format = "W4" THEN 16 ELSE 0,
      convrot |-> IsPacked(format) \/ (w.tag.convrot /\ w.width % w.tag.group = 0),
      group |-> IF IsPacked(format) THEN RotationGroup ELSE w.tag.group]

\* LinearWeight::upload's own checks, made when its block has allocated already.
UploadAccepts(w, t) ==
  LET u == UploadOf(w, t)
      elements == w.inner * w.width
  IN /\ u.convrot => u.group \in Powers \ {1} /\ w.width % u.group = 0
     /\ u.format = "F8" => u.rowScales = 1
     /\ u.format = "I8" => u.rowScales = w.inner
     /\ u.format = "NVFP4" =>
          /\ w.width % (TileCols * NvBlock) = 0 /\ w.inner % TileRows = 0
          /\ u.blockScales = elements \div NvBlock /\ Good(w, "weight_scale_2")
     /\ u.format = "NF4" => u.blockScales = CeilDiv(elements, NfBlock)
     /\ IsPacked(u.format) =>
          /\ u.convrot /\ u.group = RotationGroup /\ w.width % RotationGroup = 0
          /\ w.inner % 2 = 0 /\ w.width % w.group = 0
          /\ u.blockScales = elements \div w.group /\ u.rowScales = w.inner
          /\ u.codebook = IF u.format = "W4" THEN 16 ELSE 0
          /\ Good(w, "weight_s_rel") /\ Good(w, "weight_s_channel")
          /\ ~Has(w, "pre_quant_scale") /\ ~w.tag.full
     /\ Has(w, "pre_quant_scale") => Counts(w, "pre_quant_scale", w.width)
     /\ Has(w, "weight") /\ (w.interleaved /\ w.sliced => Interleavable(w, "weight"))

\* materialized_value and materialize_or_scale of tensor_weight.comp, an invocation a pair;
\* w4a8_gemm of tensor_w4a8.comp for the packed ones.
VulkanPair(w, u, word) ==
  LET first == 2 * word
      row(i) == i \div w.width
      nv == {<<"weight_scale",
               u.block + NvOffset(row(first), (first - row(first) * w.width) \div NvBlock,
                                  w.width \div NvBlock)>>,
             <<"weight_scale_2", 0>>}
      nf == {<<"absmax", u.block + first \div NfBlock>>,
             <<"nested_absmax", u.nested + (first \div NfBlock) \div NfNested>>}
      whole(i) == Decoded(i, {<<u.data + i, "all">>},
                        IF u.format = "F8" THEN {<<"weight_scale", 0>>}
                        ELSE IF u.format = "I8" THEN {<<"weight_scale", u.row + row(i)>>} ELSE {})
      pair == CASE u.format = "NVFP4" -> {Decoded(first, High(u.data + word), nv),
                                          Decoded(first + 1, Low(u.data + word), nv)}
                [] u.format = "NF4" -> {Decoded(first, High(u.data + word), nf),
                                        Decoded(first + 1, Low(u.data + word), nf)}
                [] OTHER -> {whole(first), whole(first + 1)}
  IN {x \in pair : x.at < w.inner * w.width}

VulkanPacked(w, u, i) ==
  LET row == i \div w.width
      k == i % w.width
      offset == u.data + row * ((w.width * BitsOf(u.format)) \div 8)
  IN Decoded(i, {<<offset + k \div 2, IF k % 2 = 1 THEN "high" ELSE "low">>}
              \cup (IF u.format = "W6" THEN {<<offset + w.width \div 2 + k \div 4, k % 4>>} ELSE {}),
           {<<"weight_s_rel", u.block + i \div w.group>>, <<"weight_s_channel", u.row + row>>})

\* The rows of an interleaved weight are cut out of the file one by one.
VulkanWrites(w, t) ==
  LET u == UploadOf(w, t)
      n == w.inner * w.width
      written == IF IsPacked(u.format) THEN {VulkanPacked(w, u, i) : i \in 0 .. n - 1}
                 ELSE UNION {VulkanPair(w, u, word) : word \in 0 .. CeilDiv(n, 2) - 1}
  IN {Decoded(x.at, {<<Uploaded(w, "weight", c[1]), c[2]>> : c \in x.codes},
            {<<s[1], Uploaded(w, s[1], s[2])>> : s \in x.scales}) : x \in written}

-----------------------------------------------------------------------------
(* The steps.                                                              *)

WeightsInit == weight \in Archives /\ weightPhase = "file"
WeightsIdle == weight = <<>> /\ weightPhase = "file"

LoadWeight ==
  /\ weightPhase = "file" /\ weightPhase' = "loaded"
  /\ UNCHANGED weight

WeightsTypeOK ==
  /\ weight.format \in Formats /\ weightPhase \in {"file", "loaded"}
  /\ weight.rows \in {weight.inner, 3 * weight.inner}

-----------------------------------------------------------------------------
(* Properties.                                                             *)

\* Every element of every slice is written once, from its own code and with its own scales.
ReadsRight(w, format, writes(_)) ==
  \A t \in VulkanThirds(w) :
    LET written == writes(t)
    IN /\ {x.at : x \in written} = 0 .. w.inner * w.width - 1
       /\ Cardinality(written) = w.inner * w.width
       /\ \A x \in written :
            LET s == StoredAs(w, format, t * w.inner + x.at \div w.width, x.at % w.width)
            IN x.codes = s.codes /\ x.scales = s.scales

\* A rotated weight needs its activation rotated alike.
CudaRotates(w) == (w.tag.convrot \/ IsPackedTag(w)) /\ w.width % w.tag.group = 0
VulkanRotates(w) == UploadOf(w, 0).convrot

\* What a backend accepts it decodes element by element from the right places, whichever the slice
\* and the order of the rows; where both accept, they take it for the same and rotate its
\* activation alike.
DecodesRight ==
  /\ CudaAccepts(weight) =>
       ReadsRight(weight, CudaFormat(weight), LAMBDA t : CudaWrites(weight, t))
  /\ VulkanValidates(weight) =>
       ReadsRight(weight, VulkanFormat(weight), LAMBDA t : VulkanWrites(weight, t))
  /\ CudaAccepts(weight) /\ VulkanValidates(weight) =>
       CudaFormat(weight) = VulkanFormat(weight) /\ CudaRotates(weight) = VulkanRotates(weight)

\* Vulkan's checks come before its first allocation and leave nothing for the upload to refuse.
NothingRefusedLate ==
  VulkanValidates(weight) => \A t \in VulkanThirds(weight) : UploadAccepts(weight, t)

\* A weight as its format writes it is accepted by both, as far as it can be tiled and cut; Vulkan
\* takes no NF4 weight.
Cuttable(w) ==
  CASE w.format = "NVFP4" -> w.inner % TileRows = 0 /\ w.width % (TileCols * NvBlock) = 0
    [] w.format = "NF4" -> ~w.sliced \/ (w.inner * w.width) % (NfBlock * NfNested) = 0
    [] IsPacked(w.format) -> w.width % RotationGroup = 0
    [] OTHER -> TRUE
PlainAccepted ==
  /\ weight.plain /\ Cuttable(weight)
  /\ weight.interleaved => weight.format \in Dense \cup {"F8", "I8"}
  => CudaAccepts(weight) /\ (VulkanValidates(weight) \/ weight.format = "NF4")

\* The weights a model is loaded with are the checkpoint's: read from the right places, refused
\* before anything is allocated, and never refused without a reason.
WeightsReadRight ==
  weightPhase = "loaded" => DecodesRight /\ NothingRefusedLate /\ PlainAccepted
=============================================================================
