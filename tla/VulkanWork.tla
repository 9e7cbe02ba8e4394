---------------------------- MODULE VulkanWork ----------------------------
(***************************************************************************)
(* Three subjects of the Vulkan backend: the batches that record operators *)
(* on tensors, the graphs of the models that are recorded, and the loop    *)
(* that runs them.  Each keeps its own state, so a behaviour is of one of  *)
(* them.                                                                   *)
(***************************************************************************)
EXTENDS TensorBatch, TensorGraphs, DenoiseLoop

CONSTANT Subjects   \* which of "batches", "graphs" and "loops" to look at

VARIABLE subject

vars == <<subject, batchVars, graphVars, loopVars>>

TypeOK == subject \in Subjects /\ BatchTypeOK /\ LoopTypeOK

Init ==
  /\ subject \in Subjects /\ BatchInit
  /\ GraphInit(IF subject = "graphs" THEN Graphs ELSE {NoGraph})
  /\ LoopInit(IF subject = "loops" THEN Requests ELSE {NoRequest})

Next ==
  \/ subject = "batches" /\ BatchNext /\ UNCHANGED <<subject, graphVars, loopVars>>
  \/ subject = "graphs" /\ GraphNext /\ UNCHANGED <<subject, batchVars, loopVars>>
  \/ subject = "loops" /\ LoopNext /\ UNCHANGED <<subject, batchVars, graphVars>>

Spec == Init /\ [][Next]_vars
=============================================================================
