--------------------------- MODULE WeightUploader ---------------------------
(***************************************************************************)
(* The upload of the transformer's weights: Uploader                       *)
(* (src/src/dit/weight_uploader.h) and the record loop that drives it      *)
(* (src/src/dit/transformer_load.cpp).  A tensor of a page-locked          *)
(* checkpoint is transferred from where it is; anything else is copied     *)
(* through two pinned staging slots, filled piece by piece and shared by   *)
(* small tensors, because the caller overwrites its conversion buffer as   *)
(* soon as copy() returns.  Half-precision tensors land in a device        *)
(* scratch buffer, from which a kernel widens them.                        *)
(***************************************************************************)
EXTENDS CudaStreams, Integers, FiniteSetsExt

CONSTANTS StageUnits,   \* capacity of a staging slot
          TensorSizes,  \* sizes of tensors
          MaxTensors    \* bound: tensors of a checkpoint

ASSUME UploaderAssumption ==
  /\ StageUnits \in Nat \ {0} /\ MaxTensors \in Nat
  /\ TensorSizes \subseteq Nat \ {0}
  /\ \E largest \in TensorSizes : \A size \in TensorSizes : size <= largest

VARIABLES
  upPc,     \* the host: "next", "copy", "drain", "copied", "closing", "closed"
  sizes,    \* of the tensors so far, the present one last
  kind,     \* of the present tensor: "verbatim", "converted" or "half"
  at,       \* units of it copied
  current, used,  \* current_ and used_
  locked,   \* the mapping is page-locked
  failed    \* the loop threw

upVars == <<upPc, sizes, kind, at, current, used, locked, failed>>

Stage(s, u) == <<"stage", s, u>>
Scratch(u) == <<"scratch", u>>      \* wide, narrow, reordered
Landing(u) == <<"landing", u>>      \* widen_src
ArenaAt(t, u) == <<"arena", t, u>>
CheckpointMap == <<"map">>
TensorData(t, u) == <<"tensor", t, u>>

Units == 0 .. Max(TensorSizes) - 1
WeightArena == {ArenaAt(t, u) : t \in 1 .. MaxTensors, u \in Units}

UploaderPlaces(isLocked) ==
  [p \in WeightArena \cup {Scratch(u) : u \in Units} \cup {Landing(u) : u \in Units}
         \cup (IF isLocked THEN {CheckpointMap} ELSE {}) |->
     IF p = CheckpointMap THEN <<"bytes">> ELSE Torn]

UploaderTypeOK ==
  /\ upPc \in {"next", "copy", "drain", "copied", "closing", "closed"}
  /\ sizes \in Seq(TensorSizes) /\ Len(sizes) <= MaxTensors
  /\ kind \in {"verbatim", "converted", "half"}
  /\ at \in 0 .. Max(TensorSizes) /\ current \in {0, 1} /\ used \in 0 .. StageUnits
  /\ locked \in BOOLEAN /\ failed \in BOOLEAN

UploaderInit ==
  /\ upPc = "next" /\ sizes = <<>> /\ kind = "verbatim" /\ at = 0
  /\ current = 0 /\ used = 0 /\ locked \in BOOLEAN /\ failed = FALSE

-----------------------------------------------------------------------------
tensor == Len(sizes)

\* The loop converts the next record into its scratch buffer, or leaves it in the mapping.
NextTensor ==
  /\ upPc = "next" /\ tensor < MaxTensors
  /\ \E size \in TensorSizes, k \in {"verbatim", "converted", "half"} :
       /\ sizes' = Append(sizes, size) /\ kind' = k
       /\ memory' = IF k = "converted"
                    THEN Over([u \in {Scratch(v) : v \in 0 .. size - 1} |-> TensorData(tensor + 1, u[2])], memory)
                    ELSE memory
  /\ upPc' = "copy" /\ at' = 0
  /\ UNCHANGED <<queue, running, recorded, reached, current, used, locked, failed>>

Target(u) == IF kind = "half" THEN Landing(u) ELSE ArenaAt(tensor, u)
Written(us) == [p \in {Target(u) : u \in us} |-> TensorData(tensor, p[Len(p)])]

\* Only a source inside the locked mapping is read by the transfer itself.
Direct == kind # "converted" /\ locked

CopyDirect ==
  /\ upPc = "copy" /\ Direct
  /\ Issue(<<Work(At(CheckpointMap, <<"bytes">>), Written(0 .. sizes[tensor] - 1))>>, <<>>, {})
  /\ upPc' = "copied"
  /\ UNCHANGED <<memory, sizes, kind, at, current, used, locked, failed>>

\* A full slot: record that its readers are issued, turn to the other one ...
TurnSlot ==
  /\ upPc = "copy" /\ ~Direct /\ at < sizes[tensor] /\ used = StageUnits
  /\ Issue(<<RecordOf(<<"emptied", current>>)>>, <<>>, {<<"emptied", current>>})
  /\ current' = 1 - current /\ used' = 0
  /\ upPc' = "drain"
  /\ UNCHANGED <<memory, sizes, kind, at, locked, failed>>

\* ... and wait for the readers it had.
AnyReaders == TRUE
ReadersDone == Passed(<<"emptied", current>>)

SlotDrained ==
  /\ upPc = "drain" /\ ReadersDone
  /\ upPc' = "copy"
  /\ UNCHANGED <<cudaVars, sizes, kind, at, current, used, locked, failed>>

\* As much of the tensor as the slot still holds.
CopyPiece ==
  /\ upPc = "copy" /\ ~Direct /\ at < sizes[tensor] /\ used < StageUnits
  /\ LET n == Min({sizes[tensor] - at, StageUnits - used})
         staged == [p \in {Stage(current, used + i) : i \in 0 .. n - 1} |->
                      TensorData(tensor, at + p[3] - used)]
     IN /\ memory' = Over(staged, memory)
        /\ Issue(<<Work(staged, Written(at .. at + n - 1))>>, <<>>, {})
        /\ at' = at + n /\ used' = used + n
  /\ UNCHANGED <<upPc, sizes, kind, current, locked, failed>>

CopyReturns ==
  /\ upPc = "copy" /\ ~Direct /\ at = sizes[tensor]
  /\ upPc' = "copied"
  /\ UNCHANGED <<cudaVars, sizes, kind, at, current, used, locked, failed>>

\* launch_widen_f16 on the same stream.
Widen ==
  /\ upPc = "copied"
  /\ LET us == 0 .. sizes[tensor] - 1
     IN IF kind = "half"
        THEN Issue(<<Work([p \in {Landing(u) : u \in us} |-> TensorData(tensor, p[2])],
                          [p \in {ArenaAt(tensor, u) : u \in us} |-> TensorData(tensor, p[3])])>>,
                   <<>>, {})
        ELSE UNCHANGED <<queue, running, recorded, reached>>
  /\ upPc' = "next"
  /\ UNCHANGED <<memory, sizes, kind, at, current, used, locked, failed>>

\* The records are through, or one of them is refused, or an allocation fails.
LeaveLoop ==
  /\ upPc \in {"next", "copy", "drain", "copied"}
  /\ failed' = ~(upPc = "next" /\ tensor = MaxTensors)
  /\ upPc' = "closing"
  /\ UNCHANGED <<cudaVars, sizes, kind, at, current, used, locked>>

\* ~Uploader, declared last and destroyed first, drains the stream; then the staging slots, the
\* scratch buffers and the registration go.
DrainsNothing == TRUE
StreamDrained == Idle("compute")

CloseUploader ==
  /\ upPc = "closing" /\ StreamDrained
  /\ memory' = Restrict(memory, WeightArena)
  /\ upPc' = "closed"
  /\ UNCHANGED <<queue, running, recorded, reached, sizes, kind, at, current, used, locked, failed>>

UploaderStep ==
  \/ NextTensor \/ CopyDirect \/ TurnSlot \/ SlotDrained \/ CopyPiece \/ CopyReturns \/ Widen
  \/ LeaveLoop \/ CloseUploader

UploaderNext == UploaderStep

\* A load that succeeded has every unit of every tensor where it belongs.
LoadedIsComplete ==
  upPc = "closed" /\ ~failed =>
    \A t \in DOMAIN sizes : \A u \in 0 .. sizes[t] - 1 :
      memory[ArenaAt(t, u)] = TensorData(t, u)
=============================================================================
