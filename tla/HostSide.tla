------------------------------ MODULE HostSide ------------------------------
(***************************************************************************)
(* Parts of the program that run on the host alone: the buffer pool's      *)
(* bookkeeping, archives on disk, the fingerprints of VAE files, the JSON  *)
(* readers, the tokenizer, the weights of a checkpoint and the CUDA        *)
(* transformer's scratch arena.  They share nothing, so a behaviour is of  *)
(* one of them.                                                            *)
(***************************************************************************)
EXTENDS BufferPool, ArchiveFiles, FingerprintCache, Tokenizer,
        CheckpointWeights, TransformerMemory

CONSTANT Subjects   \* which of "pool", "archives", "fingerprints", "json", "tokenizer", "weights" and
                    \* "memory" to look at

VARIABLE subject

vars == <<subject, poolVars, archiveVars, fingerprintVars, jsonVars, sample, weightVars, memoryVars>>

TypeOK ==
  /\ subject \in Subjects /\ PoolTypeOK /\ ArchiveTypeOK /\ FingerprintTypeOK
  /\ subject = "weights" => WeightsTypeOK
  /\ subject = "memory" => MemoryTypeOK

Init ==
  /\ subject \in Subjects
  /\ PoolInit /\ ArchiveInit /\ FingerprintInit
  /\ IF subject = "json" THEN JsonInit ELSE JsonIdle
  /\ IF subject = "tokenizer" THEN TokenizerInit ELSE TokenizerIdle
  /\ IF subject = "weights" THEN WeightsInit ELSE WeightsIdle
  /\ IF subject = "memory" THEN MemoryInit ELSE MemoryIdle

Next ==
  \/ /\ subject = "pool" /\ PoolNext
     /\ UNCHANGED <<subject, archiveVars, fingerprintVars, jsonVars, sample, weightVars, memoryVars>>
  \/ /\ subject = "archives" /\ ArchiveNext
     /\ UNCHANGED <<subject, poolVars, fingerprintVars, jsonVars, sample, weightVars, memoryVars>>
  \/ /\ subject = "fingerprints" /\ FingerprintNext
     /\ UNCHANGED <<subject, poolVars, archiveVars, jsonVars, sample, weightVars, memoryVars>>
  \/ /\ subject = "json" /\ GrowDocument
     /\ UNCHANGED <<subject, poolVars, archiveVars, fingerprintVars, sample, weightVars, memoryVars>>
  \/ /\ subject = "tokenizer" /\ EncodeSample
     /\ UNCHANGED <<subject, poolVars, archiveVars, fingerprintVars, jsonVars, weightVars, memoryVars>>
  \/ /\ subject = "weights" /\ LoadWeight
     /\ UNCHANGED <<subject, poolVars, archiveVars, fingerprintVars, jsonVars, sample, memoryVars>>
  \/ /\ subject = "memory" /\ MemoryNext
     /\ UNCHANGED <<subject, poolVars, archiveVars, fingerprintVars, jsonVars, sample, weightVars>>

Spec == Init /\ [][Next]_vars

-----------------------------------------------------------------------------
(* Properties.                                                             *)

\* The text a model is given is read right, whichever reader reads it: the two JSON readers agree,
\* and the tokenizer splits and merges as its vocabulary's reference does.
TextIsReadRight ==
  /\ subject = "json" => ReadersAgree
  /\ subject = "tokenizer" => EncodesAsTheReference

\* A checkpoint is loaded as it was written.
CheckpointReadRight == subject = "weights" => WeightsReadRight
=============================================================================
