----------------------------- MODULE TextEncoder -----------------------------
(***************************************************************************)
(* The CUDA text encoder (src/src/cuda/encoder_runtime.cu): loading, layer *)
(* uploads and the layer loop of encode().  Resident, every layer has an   *)
(* arena of its own; streaming, two arenas alternate, layer i + 1 uploads  *)
(* while layer i computes.  A layer travels straight from the page-locked  *)
(* checkpoint mapping or, when that could not be locked, through one of    *)
(* two pinned staging buffers.                                             *)
(***************************************************************************)
EXTENDS CudaStreams, Integers

CONSTANTS NumLayers,   \* decoder layers
          MaxLoads,    \* bound: load calls
          MaxEncodes   \* bound: encode calls

ASSUME EncoderAssumption == NumLayers \in Nat \ {0} /\ MaxLoads \in Nat /\ MaxEncodes \in Nat

VARIABLES
  enPc,     \* the host: "unloaded", "upload", "loaded", "first", "layer", "ahead", "sync"
  resident, \* s.mode
  direct,   \* mapping_registered
  layer,    \* i
  loads, encodes

enVars == <<enPc, resident, direct, layer, loads, encodes>>

Mapping == <<"mapping">>
Staging(s) == <<"staging", s>>
Ping(s) == <<"ping", s>>
Resident(l) == <<"resident", l>>
LayerWeights(l) == <<"layer", l>>
File == <<"file">>

EncoderTypeOK ==
  /\ enPc \in {"unloaded", "upload", "loaded", "first", "layer", "ahead", "sync"}
  /\ resident \in BOOLEAN /\ direct \in BOOLEAN
  /\ layer \in 0 .. NumLayers /\ loads \in 0 .. MaxLoads /\ encodes \in 0 .. MaxEncodes

EncoderInit ==
  /\ enPc = "unloaded" /\ resident = FALSE /\ direct = FALSE
  /\ layer = 0 /\ loads = 0 /\ encodes = 0

-----------------------------------------------------------------------------
(* Loading.                                                                *)

Arenas(isResident) ==
  IF isResident THEN {Resident(l) : l \in 0 .. NumLayers - 1} ELSE {Ping(0), Ping(1)}

\* Registering the mapping may fail, and then the staging buffers stand in.
Load ==
  /\ enPc = "unloaded" /\ loads < MaxLoads
  /\ loads' = loads + 1 /\ layer' = 0
  /\ resident' \in BOOLEAN /\ direct' \in BOOLEAN
  /\ memory' = Over([p \in Arenas(resident') |-> Torn],
                    IF direct' THEN At(Mapping, File) ELSE [p \in {Staging(0), Staging(1)} |-> Torn])
  /\ enPc' = IF resident' THEN "upload" ELSE "loaded"
  /\ UNCHANGED <<queue, running, recorded, reached, encodes>>

\* stage_upload: wait for the last upload out of this slot, pack the layer into the pinned buffer
\* of the slot unless it goes straight from the mapping, and issue the transfer after "before".
Uploaded(slot) == Passed(<<"filled", slot>>)

StageUpload(l, slot, dst, before) ==
  LET from == IF direct THEN At(Mapping, File) ELSE At(Staging(slot), LayerWeights(l))
  IN /\ Uploaded(slot)
     /\ memory' = IF direct THEN memory ELSE Over(from, memory)
     /\ Issue(<<>>, before \o <<Work(from, At(dst, LayerWeights(l))), RecordOf(<<"filled", slot>>)>>,
              {<<"filled", slot>>})

UploadResident ==
  /\ enPc = "upload" /\ layer < NumLayers
  /\ StageUpload(layer, layer % 2, Resident(layer), <<>>)
  /\ layer' = layer + 1
  /\ UNCHANGED <<enPc, resident, direct, loads, encodes>>

\* The staging buffers go once the transfer stream is idle.
FinishLoad ==
  /\ enPc = "upload" /\ layer = NumLayers
  /\ Idle("copy")
  /\ enPc' = "loaded"
  /\ memory' = Restrict(memory, DOMAIN memory \ {Staging(0), Staging(1)})
  /\ UNCHANGED <<queue, running, recorded, reached, resident, direct, layer, loads, encodes>>

\* reset_runtime_state, from unload() and from a load that failed: both streams first.
DrainsCompute == Idle("compute")
StreamsDrained == Idle("copy") /\ Idle("compute")

Reset ==
  /\ enPc \in {"upload", "loaded"} /\ StreamsDrained
  /\ enPc' = "unloaded" /\ memory' = None
  /\ UNCHANGED <<queue, running, recorded, reached, resident, direct, layer, loads, encodes>>

-----------------------------------------------------------------------------
(* encode().                                                               *)

BeginEncode ==
  /\ enPc = "loaded" /\ encodes < MaxEncodes
  /\ encodes' = encodes + 1 /\ layer' = 0
  /\ enPc' = IF resident THEN "layer" ELSE "first"
  /\ UNCHANGED <<cudaVars, resident, direct, loads>>

UploadFirst ==
  /\ enPc = "first"
  /\ StageUpload(0, 0, Ping(0), <<>>)
  /\ enPc' = "layer"
  /\ UNCHANGED <<resident, direct, layer, loads, encodes>>

Arena(l) == IF resident THEN Resident(l) ELSE Ping(l % 2)

\* The compute stream waits for the upload of its layer, computes, and records that it has.
LayerWaits == IF resident THEN <<>> ELSE <<WaitFor(<<"filled", layer % 2>>)>>
LayerKernels == <<Work(At(Arena(layer), LayerWeights(layer)), None)>>
LayerDone == IF resident THEN <<>> ELSE <<RecordOf(<<"emptied", layer % 2>>)>>
LayerEvents == IF resident THEN {} ELSE {<<"emptied", layer % 2>>}

EncodeLayer ==
  /\ enPc = "layer"
  /\ Issue(LayerWaits \o LayerKernels \o LayerDone, <<>>, LayerEvents)
  /\ IF layer + 1 = NumLayers THEN enPc' = "sync" /\ UNCHANGED layer
     ELSE IF resident THEN UNCHANGED enPc /\ layer' = layer + 1
     ELSE enPc' = "ahead" /\ UNCHANGED layer
  /\ UNCHANGED <<memory, resident, direct, loads, encodes>>

\* Layer i + 1 goes where layer i - 1 was computed from, which must have finished.
UploadsAnyway(slot) == <<>>
ComputedBefore(slot) == IF layer >= 1 THEN <<WaitFor(<<"emptied", slot>>)>> ELSE <<>>

UploadAhead ==
  /\ enPc = "ahead"
  /\ LET next == (layer + 1) % 2
     IN StageUpload(layer + 1, next, Ping(next), ComputedBefore(next))
  /\ layer' = layer + 1 /\ enPc' = "layer"
  /\ UNCHANGED <<resident, direct, loads, encodes>>

EncodeReturns ==
  /\ enPc = "sync" /\ Idle("compute")
  /\ enPc' = "loaded"
  /\ UNCHANGED <<cudaVars, resident, direct, layer, loads, encodes>>

\* A layer throws, its workspace or one of its kernels refused: what was issued goes on, and nobody
\* will look at the result.  The next call starts over without waiting for it.
Abandoned(items) ==
  [i \in DOMAIN items |-> IF items[i].kind = "work" THEN [items[i] EXCEPT !.wants = None] ELSE items[i]]

LayerThrows ==
  /\ enPc = "layer"
  /\ \E started \in BOOLEAN :
       queue' = [queue EXCEPT !["compute"] =
                   Abandoned(@ \o LayerWaits \o (IF started THEN LayerKernels ELSE <<>>))]
  /\ enPc' = "loaded"
  /\ UNCHANGED <<running, recorded, reached, memory, resident, direct, layer, loads, encodes>>

EncoderStep ==
  \/ UploadResident \/ FinishLoad \/ UploadFirst \/ EncodeLayer \/ UploadAhead \/ EncodeReturns
  \/ LayerThrows

EncoderNext == Load \/ Reset \/ BeginEncode \/ EncoderStep
=============================================================================
