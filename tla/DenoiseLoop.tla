---------------------------- MODULE DenoiseLoop ----------------------------
(***************************************************************************)
(* The loop that takes noise to latents: dit::denoise for CUDA, and        *)
(* ExactH3Denoiser::run, which does the same in another order for Vulkan.  *)
(* A request is run by both, one after the other, with the host's          *)
(* callbacks answering alike; a latent is the expression that computes it. *)
(* A step of a loop takes its variables r, at the place a, to s at b.      *)
(***************************************************************************)
EXTENDS Naturals, Sequences, FiniteSets

CONSTANT Requests   \* what to sample

Modalities == {"video", "audio"}
Samplers == {"euler", "renoise", "er_sde"}

\* What both loops accept.  Vulkan's has no StepCache, so such a request is CUDA's alone.
Samplable(q) ==
  /\ q.steps \in [Modalities -> Nat \ {0}] /\ q.sampler \in Samplers
  /\ q.audio \in {"none", "pinned", "generated"} /\ q.cache \in {"off", "motion", "steps"}
  /\ q.loops \in 1..2 /\ q.inner \in Nat /\ q.stop \in Nat
  /\ q.steps.video # q.steps.audio => q.audio = "generated" /\ q.cache = "off"
  /\ q.continuation # "none" => ~q.inpaint /\ q.audio # "pinned" /\ q.cache = "off"
  /\ q.cache # "off" => q.sampler \notin {"renoise", "er_sde"}
  /\ q.inner > 0 => q.inpaint /\ q.audio = "none" /\ q.cache = "off" /\ q.sampler # "er_sde"
  /\ q.cache = "steps" => q.loops = 1

ASSUME RequestsAssumption == \A q \in Requests : Samplable(q)

VARIABLES
  request,    \* the request
  loop,       \* whose loop runs: 0 before, 1 CUDA's, 2 Vulkan's
  at,         \* where in a step it is
  run,        \* its variables
  outcomes    \* how the loops that ended left theirs

loopVars == <<request, loop, at, run, outcomes>>

CudaLoops == 1
VulkanLoops == 2
Warmup == 2   \* MotionCache and StepCache compute at least two steps first
NoRequest == [sampler |-> "none"]

HasAudio == request.audio # "none"
Pinned == request.audio = "pinned"
Generated == IF request.audio = "generated" THEN {"video", "audio"} ELSE {"video"}
Stochastic == request.sampler \in {"renoise", "er_sde"}
Renoise == request.sampler = "renoise"
Motion == request.cache = "motion"
Continued == request.continuation # "none"

-----------------------------------------------------------------------------
(* The schedules.                                                          *)

\* joint_schedule: the next boundary of either modality, or of both.
Moves(p, steps) == {m \in Modalities : \A n \in Modalities : (p[m] + 1) * steps[n] <= (p[n] + 1) * steps[m]}
Moved(p, steps) == [m \in Modalities |-> IF m \in Moves(p, steps) THEN p[m] + 1 ELSE p[m]]
JointSchedule(steps) ==
  LET from[p \in [Modalities -> Nat]] ==
        IF \E m \in Modalities : p[m] >= steps[m] THEN <<>>
        ELSE <<[video |-> p.video, audio |-> p.audio, advance |-> Moves(p, steps)]>> \o from[Moved(p, steps)]
  IN from[[m \in Modalities |-> 0]]

Schedule == JointSchedule(request.steps)
Steps == Len(Schedule)
Now(r) == Schedule[r.step + 1]
Advancing(r) == Now(r).advance \cap Generated   \* pinned or missing audio has no updates
IsLast(r, m) == Now(r)[m] + 1 = request.steps[m]
Tack(r) == request.continuation = "capstone" /\ Now(r).video >= request.capstoneStart

\* FlowScheduler::step; previous is what ER-SDE keeps of the last update.
SchedulerStep(r, m, sample, velocity, noise, previous) ==
  CASE request.sampler = "euler" -> <<"euler", Now(r)[m], sample, velocity>>
    [] Renoise /\ IsLast(r, m) -> <<"denoised", Now(r)[m], sample, velocity>>
    [] Renoise /\ ~IsLast(r, m) -> <<"renoise", Now(r)[m], sample, velocity, noise>>
    [] OTHER -> <<"er_sde", Now(r)[m], sample, velocity, previous, IF IsLast(r, m) THEN <<"none">> ELSE noise>>
Remembered(r, m, sample, velocity) ==
  IF request.sampler = "er_sde" THEN <<"denoised", Now(r)[m], sample, velocity>> ELSE <<"none">>

StepNoise(r, m, old) == IF Stochastic /\ ~IsLast(r, m) THEN <<"noise", m, Now(r)[m]>> ELSE old

\* InpaintConstraint::initial and apply, and the two parts of ContinuationConstraint.
InpaintApply(r, sample, noise) ==
  IF request.inpaint
  THEN <<"kept", Now(r).video, sample, IF IsLast(r, "video") THEN <<"original">> ELSE noise>>
  ELSE sample
Overlap(r, m, sample) == IF Continued THEN <<"overlap", m, Now(r)[m] + 1, sample>> ELSE sample
First(m) ==
  IF m = "video" /\ request.inpaint THEN <<"known">>
  ELSE IF Continued THEN <<"overlap", m, 0, <<"drawn", m>>>> ELSE <<"drawn", m>>

-----------------------------------------------------------------------------
(* What the loops keep.                                                    *)

Fresh == [step |-> 0, rows |-> [m \in Modalities |-> First(m)], input |-> [m \in Modalities |-> First(m)], velocity |-> [m \in Modalities |-> <<"zero">>],
          used |-> [m \in Modalities |-> <<"zero">>], noise |-> [m \in Modalities |-> <<"none">>],
          previous |-> [m \in Modalities |-> <<"none">>], compute |-> TRUE, decisions |-> <<>>,
          computed |-> 0, skipped |-> 0, inner |-> 0, refined |-> 0, chain |-> <<"none">>,
          residual |-> [m \in Modalities |-> <<"none">>], updates |-> 0, consecutive |-> 0, seen |-> <<>>,
          asked |-> 0, log |-> <<>>, cancelled |-> FALSE, sequence |-> "plain", recorded |-> 0, failed |-> FALSE]

LoopInit(requests) == request \in requests /\ loop = 0 /\ at = "idle" /\ run = <<>> /\ outcomes = <<>>

StartLoop ==
  /\ request # NoRequest /\ at = "idle" /\ loop < request.loops
  /\ loop' = loop + 1 /\ at' = "decide" /\ run' = Fresh
  /\ UNCHANGED <<request, outcomes>>

\* A callback that may stop the run; the host answers both loops' calls alike.
Goes(r) == r.asked + 1 # request.stop
Call(r, event) == [r EXCEPT !.log = Append(@, event)]
Ask(r, event) == [Call(r, event) EXCEPT !.asked = @ + 1, !.cancelled = ~Goes(r)]

-----------------------------------------------------------------------------
(* MotionCache and StepCache.                                              *)

ReusesTheLast(r) ==   \* mistake: counts steps from one
  \/ request.cache = "off" \/ r.step < Warmup \/ r.step > Steps - 1 \/ r.step \notin request.quiet
  \/ Motion /\ (r.updates < 2 \/ r.consecutive >= request.maxSkips)

\* should_compute; the scores are data, and request.quiet the steps where they allow a reuse.
ShouldCompute(r) ==
  \/ request.cache = "off" \/ r.step < Warmup \/ r.step >= Steps - 1 \/ r.step \notin request.quiet
  \/ Motion /\ (r.updates < 2 \/ r.consecutive >= request.maxSkips)
Decided(r, compute, latents) ==
  [r EXCEPT !.compute = compute, !.consecutive = IF compute THEN 0 ELSE @ + 1,
            !.seen = IF Motion THEN Append(@, latents) ELSE @]
Residual(m, latents, velocity) == <<"residual", latents[m], velocity[m]>>
MotionUpdate(r, latents, velocity) ==
  IF ~Motion THEN r
  ELSE [r EXCEPT !.updates = @ + 1, !.residual = [m \in Modalities |-> Residual(m, latents, velocity)],
                 !.seen = Append(Append(@, latents), velocity)]
Reused(r, latents) == [m \in Modalities |-> <<"reused", r.residual[m], latents[m]>>]

-----------------------------------------------------------------------------
(* Both loops.                                                             *)

\* The transformer's answer, for the sequence it was prepared for.
AudioTime(r) == IF Pinned THEN request.steps.audio ELSE Now(r).audio
Forward(r, input) ==
  [m \in Modalities |->
     IF m = "audio" /\ ~HasAudio THEN <<"zero">>
     ELSE <<"velocity", m, r.sequence, Tack(r), Now(r).video, AudioTime(r), input.video, input.audio>>]

\* InpaintConstraint::refine, a step at a time: what the last force made of the chain.
Langevin(r, velocity) == <<"langevin", r.step, r.inner, r.chain, velocity.video>>

\* apply_sampling_effect.
Effect(sample, velocity) == <<"effect", sample, velocity>>
EffectCall(r, m, sample, velocity) == <<"effect", m, Now(r)[m], r.step, sample, velocity>>
PreviewCall(r, sample, velocity) == <<"preview", r.step, <<"clean", Now(r).video, sample, velocity>>>>

\* A run that was cancelled ends where it is.
Unless(s, next) == IF s.cancelled THEN "end" ELSE next

Report(r, a, s, b) ==
  /\ a = "report"
  /\ s = [Ask(Call(r, <<"boundary", r.step, r.rows>>), <<"progress", r.step>>) EXCEPT !.step = @ + 1]
  /\ b = Unless(s, "decide")

WithFront(r) == IF Continued /\ ~r.failed THEN [r EXCEPT !.rows.video = <<"front", @>>] ELSE r

-----------------------------------------------------------------------------
(* dit::denoise.                                                           *)

CudaDecide(r, a, s, b) ==
  /\ a = "decide"
  /\ IF r.step = Steps THEN b = "end" /\ s = r
     ELSE /\ s = [Decided(r, ShouldCompute(r), r.input) EXCEPT
                    !.decisions = Append(@, ShouldCompute(r)), !.inner = 0, !.chain = r.input.video]
          /\ b = IF ShouldCompute(r) /\ request.inner > 0 THEN "refine" ELSE "evaluate"

\* evaluate: with rear context the transformer is prepared for the longer sequence, once.
Evaluated(r) ==
  LET ready == IF Tack(r) THEN [r EXCEPT !.sequence = "context"] ELSE r
  IN [ready EXCEPT !.velocity = Forward(ready, ready.input), !.computed = @ + 1]

\* refine works on the latents the transformer reads, which it publishes; a step of it evaluates them.
Published(r) == [r EXCEPT !.input.video = r.chain]
Asked(r) == Ask(Evaluated(Published(r)), <<"progress", r.step>>)
Refined(r) ==
  LET last == r.inner + 1 = request.inner
  IN [r EXCEPT !.inner = @ + 1, !.refined = @ + 1, !.chain = Langevin(r, r.velocity),
               !.input.video = IF last THEN Langevin(r, r.velocity) ELSE @]
NextOf(r, next) == IF r.inner + 1 = request.inner THEN next ELSE "refine"

KeepsDecision(r, a, s, b) ==   \* mistake: a stop in refine leaves the evaluation it planned among the decisions
  /\ a = "refine"
  /\ IF Goes(r) THEN s = Refined(Asked(r)) /\ b = NextOf(r, "evaluate")
     ELSE /\ s = [Asked(r) EXCEPT !.refined = @ + 1, !.rows.video = r.chain]
          /\ b = "end"

\* A stop takes the planned evaluation back.
CudaRefine(r, a, s, b) ==
  /\ a = "refine"
  /\ IF Goes(r) THEN s = Refined(Asked(r)) /\ b = NextOf(r, "evaluate")
     ELSE /\ s = [Asked(r) EXCEPT !.refined = @ + 1, !.rows.video = r.chain,
                                  !.decisions = SubSeq(@, 1, Len(@) - 1)]
          /\ b = "end"

CudaEvaluate(r, a, s, b) ==
  /\ a = "evaluate"
  /\ LET skipped == [r EXCEPT !.velocity = IF Motion THEN Reused(r, r.input) ELSE @, !.skipped = @ + 1]
         evaluated == Evaluated(r)
         ready == IF r.compute THEN MotionUpdate(evaluated, r.input, evaluated.velocity) ELSE skipped
     IN s = [ready EXCEPT !.used = ready.velocity]
  /\ b = IF request.effect THEN "effect_video" ELSE "preview"

CudaEffect(m, place, next, r, a, s, b) ==
  /\ a = place
  /\ IF m \in Advancing(r)
     THEN s = [Ask(r, EffectCall(r, m, r.input[m], r.velocity[m])) EXCEPT
                 !.used[m] = IF Goes(r) THEN Effect(r.input[m], r.velocity[m]) ELSE @]
     ELSE s = r
  /\ b = Unless(s, next)

CudaPreview(r, a, s, b) ==
  /\ a = "preview" /\ b = "update"
  /\ s = IF request.preview /\ "video" \in Advancing(r)
         THEN Call(r, PreviewCall(r, r.input.video, r.used.video)) ELSE r

\* Each modality has its noise; what it keeps is put back before it is shown to anyone.
CudaUpdated(r, m) ==
  LET noise == StepNoise(r, m, r.noise[m])
      next == SchedulerStep(r, m, r.input[m], r.used[m], noise, r.previous[m])
  IN Overlap(r, m, IF m = "video" THEN InpaintApply(r, next, IF Renoise THEN noise ELSE <<"known">>) ELSE next)
CudaUpdate(r, a, s, b) ==
  /\ a = "update" /\ b = "report"
  /\ LET rows == [m \in Modalities |-> IF m \in Advancing(r) THEN CudaUpdated(r, m) ELSE r.rows[m]]
     IN s = [r EXCEPT !.rows = rows, !.input = rows,
               !.noise = [m \in Modalities |-> IF m \in Advancing(r) THEN StepNoise(r, m, @[m]) ELSE @[m]],
               !.previous = [m \in Modalities |-> IF m \in Advancing(r)
                               THEN Remembered(r, m, r.input[m], r.used[m]) ELSE @[m]]]

CudaStep(r, a, s, b) ==
  \/ CudaDecide(r, a, s, b) \/ CudaRefine(r, a, s, b) \/ CudaEvaluate(r, a, s, b)
  \/ CudaEffect("video", "effect_video", "effect_audio", r, a, s, b)
  \/ CudaEffect("audio", "effect_audio", "preview", r, a, s, b)
  \/ CudaPreview(r, a, s, b) \/ CudaUpdate(r, a, s, b) \/ Report(r, a, s, b)

CudaEnd == outcomes' = Append(outcomes, [WithFront(run) EXCEPT !.sequence = "plain"])

-----------------------------------------------------------------------------
(* ExactH3Denoiser::run.                                                   *)

\* Where a step submits what it has recorded so far.  TensorBatch::submit refuses a batch that
\* nothing was recorded into; the exception ends the run.
Submits(r, a) ==
  \/ a = "effect"
  \/ a = "preview" /\ request.preview /\ "video" \in Advancing(r)
  \/ a = "update" /\ Stochastic
Refused(r, a) == Submits(r, a) /\ r.recorded = 0
VulkanRefused(r, a, s, b) == Refused(r, a) /\ s = [r EXCEPT !.failed = TRUE] /\ b = "end"

VulkanDecide(r, a, s, b) ==
  /\ a = "decide"
  /\ IF r.step = Steps THEN b = "end" /\ s = r
     ELSE /\ LET compute == Motion => ShouldCompute(r)
             IN s = [Decided(r, compute, r.rows) EXCEPT
                       !.sequence = IF Tack(r) THEN "context" ELSE @, !.inner = 0, !.chain = r.rows.video,
                       !.velocity = IF compute THEN @ ELSE Reused(r, r.rows)]
          /\ b = IF request.inner > 0 THEN "refine" ELSE "record"

\* Every candidate is uploaded, and evaluated by a batch of its own.
Uploaded(r) == [r EXCEPT !.rows.video = r.chain, !.input.video = r.chain]
Evaluates(r) == [r EXCEPT !.velocity = Forward(r, r.input), !.computed = @ + 1]
Candidate(r) == Ask(Evaluates(Uploaded(r)), <<"progress", r.step>>)
VulkanRefine(r, a, s, b) ==
  /\ a = "refine"
  /\ IF Goes(r)
     THEN /\ LET next == Langevin(r, Candidate(r).velocity)
             IN s = [Candidate(r) EXCEPT !.inner = @ + 1, !.refined = @ + 1, !.chain = next,
                                         !.rows.video = IF r.inner + 1 = request.inner THEN next ELSE @]
          /\ b = NextOf(r, "record")
     ELSE s = [Candidate(r) EXCEPT !.refined = @ + 1] /\ b = "end"

\* With conditions the latents are copied between them; the prediction is read back for MotionCache,
\* after which the rest of the step has a batch of its own.
Copies == IF ~request.conditioned THEN 0 ELSE IF HasAudio THEN 2 ELSE 1
VulkanRecord(r, a, s, b) ==
  /\ a = "record"
  /\ LET copied == [r EXCEPT !.input = r.rows]
         evaluated == Evaluates(copied)
     IN s = IF r.compute
            THEN [MotionUpdate(evaluated, r.rows, evaluated.velocity) EXCEPT
                    !.recorded = IF Motion THEN 0 ELSE Copies + 1]
            ELSE [copied EXCEPT !.recorded = Copies, !.skipped = @ + 1]
  /\ b = IF request.effect THEN "effect" ELSE "preview"

VulkanSync(r, a, s, b) ==
  a = "effect" /\ ~Refused(r, a) /\ s = [r EXCEPT !.recorded = 0] /\ b = "effect_video"

\* The modified prediction replaces the transformer's.
VulkanEffect(m, place, next, r, a, s, b) ==
  /\ a = place
  /\ IF m \in Advancing(r)
     THEN s = [Ask(r, EffectCall(r, m, r.rows[m], r.velocity[m])) EXCEPT
                 !.velocity[m] = IF Goes(r) THEN Effect(r.rows[m], @) ELSE @]
     ELSE s = r
  /\ b = Unless(s, next)

VulkanPreview(r, a, s, b) ==
  /\ a = "preview" /\ ~Refused(r, a) /\ b = "update"
  /\ s = IF Submits(r, a) THEN [Call(r, PreviewCall(r, r.rows.video, r.velocity.video)) EXCEPT !.recorded = 0]
         ELSE r

EditsWithOwnNoise(r, m, noise) ==   \* mistake: the image's noise instead of the step's
  LET next == SchedulerStep(r, m, r.rows[m], r.velocity[m], noise, r.previous[m])
  IN Overlap(r, m, IF m = "video" THEN InpaintApply(r, next, <<"known">>) ELSE next)

VulkanUpdated(r, m, noise) ==
  LET next == SchedulerStep(r, m, r.rows[m], r.velocity[m], noise, r.previous[m])
  IN Overlap(r, m, IF m = "video" THEN InpaintApply(r, next, IF Renoise THEN noise ELSE <<"known">>) ELSE next)

\* Stochastic samplers run on the host, with one noise buffer, video first.
VideoNoise(r) == IF "video" \in Advancing(r) THEN StepNoise(r, "video", r.noise["video"]) ELSE r.noise["video"]
NoiseOf(r, m) == IF m = "video" THEN VideoNoise(r) ELSE StepNoise(r, "audio", VideoNoise(r))
VulkanUpdate(r, a, s, b) ==
  /\ a = "update" /\ ~Refused(r, a) /\ b = "report"
  /\ LET last == IF "audio" \in Advancing(r) THEN NoiseOf(r, "audio") ELSE VideoNoise(r)
     IN s = [r EXCEPT !.recorded = 0, !.noise = [m \in Modalities |-> last],
           !.rows = [m \in Modalities |-> IF m \in Advancing(r) THEN VulkanUpdated(r, m, NoiseOf(r, m)) ELSE @[m]],
           !.previous = [m \in Modalities |-> IF m \in Advancing(r)
                           THEN Remembered(r, m, r.rows[m], r.velocity[m]) ELSE @[m]]]

VulkanStep(r, a, s, b) ==
  \/ VulkanDecide(r, a, s, b) \/ VulkanRefine(r, a, s, b) \/ VulkanRecord(r, a, s, b)
  \/ VulkanRefused(r, a, s, b) \/ VulkanSync(r, a, s, b)
  \/ VulkanEffect("video", "effect_video", "effect_audio", r, a, s, b)
  \/ VulkanEffect("audio", "effect_audio", "preview", r, a, s, b)
  \/ VulkanPreview(r, a, s, b) \/ VulkanUpdate(r, a, s, b) \/ Report(r, a, s, b)

VulkanEnd == outcomes' = Append(outcomes, WithFront(run))

-----------------------------------------------------------------------------
CudaLoop == loop = CudaLoops /\ CudaStep(run, at, run', at') /\ UNCHANGED <<request, loop, outcomes>>
VulkanLoop == loop = VulkanLoops /\ VulkanStep(run, at, run', at') /\ UNCHANGED <<request, loop, outcomes>>

EndLoop ==
  /\ at = "end" /\ at' = "idle"
  /\ \/ loop = CudaLoops /\ CudaEnd
     \/ loop = VulkanLoops /\ VulkanEnd
  /\ UNCHANGED <<request, loop, run>>

LoopNext == StartLoop \/ CudaLoop \/ VulkanLoop \/ EndLoop

-----------------------------------------------------------------------------
(* Properties.                                                             *)

LoopTypeOK ==
  /\ loop \in 0..2 /\ Len(outcomes) \in {loop, loop - 1}
  /\ at \in {"idle", "decide", "refine", "evaluate", "record", "effect", "effect_video", "effect_audio",
             "preview", "update", "report", "end"}
  /\ loop > 0 => /\ run.step \in 0..Steps /\ run.sequence \in {"plain", "context"}
                 /\ run.computed + run.skipped \in Nat /\ run.recorded \in 0..3

\* Where a sampling effect stops a step that refine has begun, CUDA returns the latents of before the
\* refinement, and Vulkan the refined ones; a session drops them.
Returned(r) == IF r.cancelled /\ request.effect /\ request.inner > 0 THEN <<"dropped">> ELSE r.rows

\* What the latents, the caches and the host were given, and what the run reports.
Told(r) == <<Returned(r), r.log, r.seen, r.computed, r.skipped, r.cancelled>>

\* Both backends take the same latents along the same trajectory, ask the host the same, and stop the
\* same, unless Vulkan's throws: whatever is conditioned, cached, refined, previewed or modified.
SameTrajectory == Len(outcomes) = 2 => outcomes[VulkanLoops].failed \/ Told(outcomes[VulkanLoops]) = Told(outcomes[CudaLoops])

\* The decisions the loop reports are what it did: every evaluation of the transformer was decided
\* on or is one of refine's, and the velocity of a finished run's last step is never an old one.
DecisionsTell ==
  outcomes # <<>> =>
    LET r == outcomes[CudaLoops]
        Decisions(compute) == Cardinality({k \in DOMAIN r.decisions : r.decisions[k] = compute})
    IN /\ r.computed = r.refined + Decisions(TRUE) /\ r.skipped = Decisions(FALSE)
       /\ r.cancelled \/ r.decisions[Len(r.decisions)]

LoopsAgree == SameTrajectory /\ DecisionsTell

\* "Preview errors disable previews without failing the generation" (capi.h).
PreviewNeverFailsTheRun == request.preview => \A k \in DOMAIN outcomes : ~outcomes[k].failed
=============================================================================
