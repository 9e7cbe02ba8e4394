----------------------------- MODULE ThreadWaits -----------------------------
(***************************************************************************)
(* The places where threads of the program wait for one another: the       *)
(* queues of the CLI media pipeline, the command slots of the Vulkan queue *)
(* and the barriers of the attention kernels.  They share nothing, so a    *)
(* behaviour is of one of them.                                            *)
(***************************************************************************)
EXTENDS MediaUpscale, ComputeContext, AttentionKernels

CONSTANT Resources   \* which of "queues", "slots" and "barriers" to look at

VARIABLE resource

vars == <<resource, mediaVars, slotsVars, kernelVars>>

TypeOK == resource \in Resources /\ MediaTypeOK /\ SlotsTypeOK /\ KernelTypeOK

Init ==
  /\ resource \in Resources
  /\ MediaInit /\ (resource # "queues" => total = 0)
  /\ SlotsInit
  /\ IF resource = "barriers" THEN KernelInit ELSE NoKernel

IsMedia(step) == resource = "queues" /\ step /\ UNCHANGED <<resource, slotsVars, kernelVars>>
IsSlots(step) == resource = "slots" /\ step /\ UNCHANGED <<resource, mediaVars, kernelVars>>
IsKernel(step) == resource = "barriers" /\ step /\ UNCHANGED <<resource, mediaVars, slotsVars>>

Next == IsMedia(MediaNext) \/ IsSlots(SlotsNext) \/ IsKernel(KernelStep)

Spec == Init /\ [][Next]_vars

\* The threads of the command are scheduled, its children may hang for good.
MediaFairness ==
  /\ WF_vars(IsMedia(MainStep))
  /\ WF_vars(IsMedia(ProducerStep \/ BufferedFrame)) /\ WF_vars(IsMedia(ConsumerStep))

\* The device makes progress and a call under way is scheduled.
SlotsFairness ==
  WF_vars(IsSlots(QueueFinishes)) /\ \A t \in Threads : WF_vars(IsSlots(GoesOn(t)))

FairSpec == Spec /\ MediaFairness /\ SlotsFairness

----
(* Properties.                                                             *)

ChildrenProgress ==
  /\ WF_vars(IsMedia(SourceFrame)) /\ WF_vars(IsMedia(SinkFrame))
  /\ \A c \in Children : WF_vars(IsMedia(ChildExits(c)))

\* If the children make progress and the decoder's end is noticed, the command ends: the bounded
\* queues, their one condition variable and the drains never leave everyone waiting.  And Ctrl-C ends
\* it even if FFmpeg hangs: every blocking wait is broken by stop().
CommandEnds ==
  /\ ChildrenProgress => (resource = "queues" ~> Ended)
  /\ interrupted ~> Ended

\* begin() blocks only on work the device was really given: its wait ends.
WaitsEnd == \A t \in Threads : []<>(phase[t] # "wait")
=============================================================================
