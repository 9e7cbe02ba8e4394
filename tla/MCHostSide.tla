----------------------------- MODULE MCHostSide -----------------------------
(* Instances of HostSide for TLC. *)
EXTENDS HostSide, TLC

CONSTANTS b1, b2, b3, s1, s2, r1

\* A device-local type, a coherent host type and a cached non-coherent one, as discrete GPUs have.
MCMemoryTypes == << {"device_local"}, {"host_visible", "host_coherent"}, {"host_visible", "host_cached"} >>

Request(size, alignment, usage, types, dedicated, addressable) ==
  [size |-> size, alignment |-> alignment, usage |-> usage, types |-> types,
   dedicated |-> dedicated, addressable |-> addressable]

\* Buffers of several sizes and alignments that share blocks, host-visible, dedicated and
\* addressable ones, and one that no memory type suits.
MixedRequests ==
  {Request(3, 1, "upload", {2, 3}, FALSE, FALSE), Request(1, 4, "readback", {3}, FALSE, FALSE),
   Request(2, 1, "device", {1}, TRUE, FALSE), Request(2, 1, "device", {1, 2}, FALSE, TRUE),
   Request(3, 4, "device", {1, 2}, FALSE, FALSE), Request(1, 1, "device", {2}, FALSE, FALSE)}

Symmetry == Permutations(Buffers)

\* Two processes that save one archive, one of which reads it.
MCProcessOf == (s1 :> 1) @@ (s2 :> 2) @@ (r1 :> 1)

\* Documents of every kind: from nothing, a repeated key, a value too deep, a \u escape half done.
MCBeginnings ==
  {<<>>, <<"{", "q", "q", ":", "1", ",", "q", "q", ":">>, <<"[", "{">>, <<"q", "uH">>,
   <<"{", "q", "uH">>, <<"[", "[", "1", " ">>}

\* Space, tab and newline do not print; "G", "H" and "C" stand for their bytes.
MCShifted == (" " :> "G") @@ ("t" :> "H") @@ ("n" :> "C")
MCContractions == {<<"s">>, <<"r", "e">>}

\* A vocabulary of every byte and of some merges, one of which is unreadable and one repeated.
PlainBytes == <<"s", "r", "e", "1", "!", "'", "G", "H", "C">>
MergedWords ==
  << <<<<"s", "r">>, 9>>, <<<<"s", "s">>, 10>>, <<<<"s", "r", "e">>, 11>>,
     <<<<"G", "s", "r">>, 12>>, <<<<"r", "r">>, 13>>, <<<<"C", "C">>, 14>> >>
MCMerges ==
  << <<<<"s">>, <<"r">>>>, <<<<"n">>>>, <<<<"s">>, <<"s">>>>, <<<<"s", "r">>, <<"e">>>>,
     <<<<"s">>, <<"r">>>>, <<<<"G">>, <<"s", "r">>>>, <<<<"r">>, <<"r">>>>, <<<<"C">>, <<"C">>>> >>
File(extra, added, ignoreMerges) ==
  [vocab |-> [i \in DOMAIN PlainBytes |-> <<<<PlainBytes[i]>>, i - 1>>] \o MergedWords \o extra,
   merges |-> MCMerges, added |-> added, ignoreMerges |-> ignoreMerges]

\* A plain file; added tokens one of which begins another, and one without an id; an added token
\* that is in the vocabulary too; an id of H3's; an id too large.
PlainFile == File(<<>>, <<>>, FALSE)
AddedFile ==
  File(<<>>, << <<<<"!", "s">>, 17>>, <<<<"r", "e">>>>, <<<<"!", "s", " ">>, 18>> >>, FALSE)
IgnoringFile == File(<< <<<<"r", "s">>, 15>> >>, << <<<<"s", "r">>, 16>> >>, TRUE)
TakenFile == File(<< <<<<"r", "s">>, 20>> >>, <<>>, FALSE)
LargeFile == File(<< <<<<"r", "s">>, 1000>> >>, <<>>, FALSE)
MCH3Tokens == << <<"!", "r">>, <<"!", "e", "!">> >>

Texts(characters, n) == UNION {[1 .. k -> characters] : k \in 0 .. n}
Every == Letters \cup Numbers \cup Newlines \cup Blanks \cup Marks
Sampled(files, texts, h3, special) ==
  [file : files, h3 : h3, special : special, text : texts]

MCSamples ==
  Sampled({PlainFile, AddedFile, IgnoringFile}, Texts(Every, 3), {TRUE}, {TRUE})
  \cup Sampled({AddedFile, IgnoringFile}, Texts(Every, 3), {FALSE}, {FALSE})
  \cup Sampled({PlainFile}, [1 .. 5 -> {"s", "r", " ", "n"}], {FALSE}, {TRUE})
  \cup Sampled({TakenFile, LargeFile}, Texts({"s", "r", "!"}, 2), BOOLEAN, {TRUE})

\* Weights as their formats write them, cut or not, and what else a file may hold.
MCGroup == 8
NoTag == [format |-> "none", full |-> FALSE, convrot |-> FALSE, group |-> 1]
PackedTag(format) == [format |-> format, full |-> FALSE, convrot |-> TRUE, group |-> RotationGroup]
TagOf(format) ==
  CASE format = "W4" -> PackedTag("asym_w4a8_int8")
    [] format = "W6" -> PackedTag("w6a8_int8")
    [] OTHER -> NoTag

Plain(format, inner, width, sliced, interleaved) ==
  LET rows == IF sliced THEN 3 * inner ELSE inner
  IN [format |-> format, rows |-> rows, inner |-> inner, width |-> width, sliced |-> sliced,
      interleaved |-> interleaved, group |-> MCGroup, plain |-> TRUE,
      tensors |-> Canonical(format, rows, width, MCGroup), tag |-> TagOf(format)]

Plains ==
  {Plain(format, inner, width, sliced, sliced /\ interleaved) :
     format \in Formats, inner \in {2, 4}, width \in {4, 5, 6, 16}, sliced \in BOOLEAN,
     interleaved \in BOOLEAN}

\* A tensor that is missing, or of another type, shape or value; one too many; another tag; groups
\* of another size.  CUDA checks no type of an NF4 tensor, so NF4 keeps its own.
Others(w) ==
  LET held == DOMAIN w.tensors
      without(n) == [w EXCEPT !.tensors = [m \in held \ {n} |-> w.tensors[m]], !.plain = FALSE]
      with(n, t) == [w EXCEPT !.tensors = (n :> t) @@ w.tensors, !.plain = FALSE]
      tagged(t) == [w EXCEPT !.tag = t, !.plain = FALSE]
  IN {without(n) : n \in held}
     \cup {with(n, [w.tensors[n] EXCEPT !.dtype = dtype]) :
             n \in IF w.format = "NF4" THEN {} ELSE held, dtype \in {"U8", "F32", "F8"}}
     \cup {with(n, [w.tensors[n] EXCEPT !.shape = <<2>>]) : n \in held}
     \cup {with(n, [w.tensors[n] EXCEPT !.good = FALSE]) : n \in held}
     \cup {with("pre_quant_scale", Tensor("F32", <<w.width>>)), with("input_scale", Tensor("F32", <<>>)),
           with("quant_state", Tensor("U8", <<9>>)), with("weight.quant_state", Tensor("U8", <<9>>)),
           with("weight_scale", Tensor("F32", <<w.rows, 1>>)),
           with("weight_codebook", Tensor("F32", <<16>>))}
     \cup {tagged([format |-> format, full |-> full, convrot |-> convrot, group |-> group]) :
             format \in {"none", "int8_tensorwise", "asym_w4a8_int8", "w6a8_int8", "mxfp8"},
             full \in BOOLEAN, convrot \in BOOLEAN, group \in {1, 4, 16, 8}}
     \cup {[w EXCEPT !.group = 2, !.plain = FALSE]}
MCArchives == Plains \cup UNION {Others(w) : w \in {x \in Plains : x.inner = 4 /\ x.width = 16}}

\* Transformers of one format or of two, rotated or not, however attention runs.
StackOf(condition, attention, mlp, rotated, mode, vsa, fullAdaLN, native) ==
  [condition |-> condition, attention |-> attention, mlp |-> mlp, rotated |-> rotated, mode |-> mode,
   vsa |-> vsa, fullAdaLN |-> fullAdaLN, native |-> native, fullQueries |-> mode = "full"]
EveryFormat == {"BF16", "F8", "I8", "NVFP4", "W4"}
MixedFormats == {"F8", "NVFP4", "W4"}
MCStacks ==
  {StackOf("BF16", a, m, r, mode, FALSE, FALSE, FALSE) :
     a \in MixedFormats, m \in MixedFormats, r \in BOOLEAN, mode \in {"compact", "full", "exact"}}
  \cup {StackOf("BF16", f, f, r, mode, vsa, FALSE, native) :
          f \in EveryFormat, r \in BOOLEAN, mode \in {"compact", "full"}, vsa \in BOOLEAN, native \in BOOLEAN}
  \cup {StackOf("F32", "F8", "F8", FALSE, mode, FALSE, TRUE, FALSE) : mode \in {"compact", "full"}}
  \cup {StackOf("BF16", "F8", "F8", FALSE, "exact", FALSE, TRUE, FALSE)}
=============================================================================
