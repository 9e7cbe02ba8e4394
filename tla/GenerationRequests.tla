------------------------- MODULE GenerationRequests -------------------------
(***************************************************************************)
(* What a generation may be asked for, and when it is refused.  The host   *)
(* puts a request together by the setters of the C API                     *)
(* (capi/requests.cpp, capi/references.cpp); a start resolves it           *)
(* (pipeline.cpp, conditioning_plan.cpp, sampling_plan.cpp,                *)
(* generation_validation.cpp) and only then hands it to a worker, whose    *)
(* stages have requirements of their own.                                  *)
(*                                                                         *)
(* The family is H3.  Canvas sizes, frame counts and the geometry of saved *)
(* clips are abstracted: the files exist and fit each other.  A checkpoint *)
(* carries no sampling or conditioning metadata; an adapter carries none   *)
(* but Hyperflow's.                                                        *)
(***************************************************************************)
EXTENDS Integers, Sequences, FiniteSets, SequencesExt

CONSTANTS Hosts,        \* the checkpoint, the backend and what only the command line sets
          Starts,       \* requests to begin with, each made by setters
          ImageLimit,   \* bound: reference images (the code's limit is 9)
          MediaLimit,   \* bound: reference media
          MaxSettings,  \* bound: settings changed after the start
          NoRequest     \* there is no request handle

\* The builds have one of two backends.
ASSUME BackendAssumption == \A h \in Hosts : h.backend \in {"cuda", "vulkan"}

VARIABLES
  host,          \* [model, backend, caches, band, initLatents, sampler]
  asked,         \* slopfab_request, or NoRequest
  settingsMade

requestVars == <<host, asked, settingsMade>>

RequestTypeOK ==
  /\ asked # NoRequest =>
       host \in Hosts /\ asked.images \in 0 .. ImageLimit /\ Len(asked.media) <= MediaLimit
  /\ settingsMade \in 0 .. MaxSettings

----
(* Settings given in parts.  A field is "unset" where a source does not    *)
(* speak; later sources win.                                               *)

Overlaid(under, over) == [f \in DOMAIN under |-> IF over[f] = "unset" THEN under[f] ELSE over[f]]

NoSampling == [grid |-> "unset", shifts |-> "unset", sampler |-> "unset", audioSteps |-> "unset",
               scheduler |-> "unset"]
NoRecipe == [embedding |-> "unset", fixedTokens |-> "unset", canvasFromVideo |-> "unset",
             referenceAudio |-> "unset", videoFirst |-> "unset", pin |-> "unset", euler |-> "unset",
             caches |-> "unset"]

\* A new GenerateRequest and its RunOptions, as far as they are told apart here.
NewRequest ==
  [still |-> FALSE, edit |-> "none", langevin |-> TRUE, animate |-> FALSE, pinDriving |-> FALSE,
   images |-> 0, media |-> <<>>, refmods |-> {}, continuation |-> FALSE, lock |-> FALSE,
   regenerate |-> FALSE, sourceNoise |-> FALSE, keystone |-> "none", bridge |-> FALSE,
   endLatents |-> FALSE, endImage |-> FALSE, transition |-> 0, lora |-> "none",
   schedule |-> "default", sampling |-> NoSampling, recipe |-> NoRecipe, motion |-> FALSE,
   attention |-> "flash2", predictor |-> FALSE, synthetic |-> FALSE, lcs |-> "none",
   lcsMask |-> FALSE, upscaler |-> "none", latentUpscaler |-> FALSE, embedding |-> FALSE]

\* The starts are made from a new request.
ASSUME StartsAssumption ==
  /\ ImageLimit \in Nat /\ MediaLimit \in Nat /\ MaxSettings \in Nat
  /\ \A r \in Starts : /\ DOMAIN r = DOMAIN NewRequest
                       /\ r.images \in 0 .. ImageLimit
                       /\ r.media \in Seq({"video", "soundVideo", "audio"}) /\ Len(r.media) <= MediaLimit

HasReferences(r) == r.images > 0 \/ r.media # <<>> \/ r.refmods # {}
IsVideo(m) == m \in {"video", "soundVideo"}
Editing(r) == r.edit # "none"
Denoises(r) == ~r.synthetic

----
(* resolve_conditioning_settings and validate_conditioning_request.        *)

DefaultRecipe == [embedding |-> "no", fixedTokens |-> "no", canvasFromVideo |-> "no",
                  referenceAudio |-> "yes", videoFirst |-> "no", pin |-> "no", euler |-> "no",
                  caches |-> "yes"]
AnimateRecipe == [embedding |-> "yes", fixedTokens |-> "yes", canvasFromVideo |-> "yes",
                  referenceAudio |-> "no", videoFirst |-> "yes", pin |-> "no", euler |-> "yes",
                  caches |-> "no"]

\* The request's own recipe has the last word, over the driving audio too.
Recipe(r) ==
  LET base == IF r.animate THEN AnimateRecipe ELSE DefaultRecipe
  IN Overlaid(IF r.pinDriving THEN [base EXCEPT !.pin = "yes"] ELSE base, r.recipe)

TransitionOk(r, s) ==
  r.transition > 0 =>
    /\ ~r.still /\ ~r.continuation /\ ~r.animate /\ s.videoFirst = "no" /\ s.pin = "no"
    /\ r.refmods = {} /\ r.images = 0 /\ Len(r.media) = r.transition
    /\ \A k \in DOMAIN r.media : IsVideo(r.media[k])

ConditioningOk(r) ==
  LET s == Recipe(r)
  IN /\ r.endImage => s.videoFirst = "no" /\ s.pin = "no"
     /\ r.bridge \/ r.endLatents => s.videoFirst = "no" /\ s.pin = "no" /\ s.canvasFromVideo = "no"
     /\ TransitionOk(r, s)
     /\ s.videoFirst = "yes" \/ s.pin = "yes" => s.referenceAudio = "no"
     /\ s.fixedTokens = "yes" => s.embedding = "yes"
     /\ s.videoFirst = "yes" =>
          /\ ~r.still /\ ~r.continuation /\ r.refmods = {} /\ r.images = 1
          /\ Len(r.media) = 1 /\ IsVideo(r.media[1]) /\ s.embedding = "yes"
     /\ s.canvasFromVideo = "yes" => r.media # <<>> /\ IsVideo(r.media[1])
     /\ s.pin = "yes" => ~r.still /\ ~r.continuation /\ r.media = <<"soundVideo">>

----
(* resolve_sampling_plan and validate_sampling_sampler.                    *)

DefaultSampling == [NoSampling EXCEPT !.shifts = "default"]
FastSampling == [NoSampling EXCEPT !.grid = "fast", !.shifts = "fast"]
HyperflowSampling == [NoSampling EXCEPT !.grid = "hyperflow", !.shifts = "hyperflow"]

ScheduleDefaults(schedule) ==
  CASE schedule = "default" -> NoSampling
    [] schedule = "beta"    -> [NoSampling EXCEPT !.scheduler = "beta"]
    [] schedule = "dmad"    -> [NoSampling EXCEPT !.grid = "dmad", !.shifts = "dmad", !.sampler = "renoise"]
    [] schedule = "taomate" -> [NoSampling EXCEPT !.grid = "taomate"]

ModelSampling(r, h) ==
  LET base == IF r.animate \/ h.model.architecture = "ViggleAnimate"
              THEN [DefaultSampling EXCEPT !.shifts = "viggle"] ELSE DefaultSampling
  IN IF h.model.architecture = "FastH3V2" THEN Overlaid(base, FastSampling) ELSE base
Overrides(r) == Overlaid(ScheduleDefaults(r.schedule), r.sampling)
Adapters(r) == IF r.lora = "hyperflow" THEN HyperflowSampling ELSE NoSampling

Sampling(r, h) == Overlaid(Overlaid(ModelSampling(r, h), Adapters(r)), Overrides(r))

SamplerOf(s) == IF s.sampler = "unset" THEN "euler" ELSE s.sampler
\* The command line's sampler replaces the plan's.
Sampler(r, h) == IF h.sampler = "unset" THEN SamplerOf(Sampling(r, h)) ELSE h.sampler

FixedGrid(r, h) == h.model.pdd \/ Sampling(r, h).grid # "unset"
Approximates(r, h) == h.caches # "none" \/ r.motion
Stochastic(r, h) == Sampler(r, h) \in {"renoise", "er_sde"}

HyperflowOk(r, h) ==
  LET s == Sampling(r, h)
  IN r.lora = "hyperflow" =>
       /\ s.grid = "hyperflow" /\ s.shifts = "hyperflow" /\ s.audioSteps = "unset"
       /\ SamplerOf(s) = "euler" /\ s.scheduler # "beta"
       /\ ~r.animate /\ ~r.continuation /\ ~Editing(r)
       /\ h.model.architecture # "FastH3V2" /\ ~h.model.pdd

FastOk(r, h) ==
  LET s == Sampling(r, h)
  IN h.model.architecture = "FastH3V2" =>
       /\ ~HasReferences(r) /\ ~r.continuation /\ ~r.animate /\ r.schedule = "default"
       /\ s.audioSteps = "unset" /\ s.grid = "fast" /\ s.shifts = "fast"

PddOk(r, h) ==
  LET s == Sampling(r, h)
  IN h.model.pdd =>
       /\ r.schedule = "default" /\ ~r.animate /\ s.audioSteps = "unset" /\ s.grid = "unset"
       /\ s.scheduler # "beta" /\ s.shifts = "default" /\ SamplerOf(s) = "euler" /\ ~Approximates(r, h)

SamplingOk(r, h) ==
  LET s == Sampling(r, h)
  IN /\ ~(s.grid # "unset" /\ s.scheduler = "beta")
     /\ ~(Overrides(r).grid # "unset" /\ Overrides(r).scheduler = "beta")
     /\ r.schedule = "taomate" => r.lora # "none"
     /\ r.sourceNoise => ~FixedGrid(r, h)
     /\ HyperflowOk(r, h) /\ FastOk(r, h) /\ PddOk(r, h)
     /\ s.audioSteps # "unset" => ~r.still /\ Recipe(r).pin = "no" /\ ~Approximates(r, h)
     /\ s.grid # "unset" => ~Approximates(r, h)

SamplerOkUnchecked(r, h) == FixedGrid(r, h) => Sampler(r, h) # "ab2"  \* mistake: distilled models take any sampler
SamplerOk(r, h) ==
  /\ h.model.pdd \/ r.lora = "hyperflow" \/ h.model.architecture = "FastH3V2" => Sampler(r, h) = "euler"
  /\ FixedGrid(r, h) => Sampler(r, h) # "ab2"

----
(* resolve_plan: what the parts of a request demand of each other and of   *)
(* the checkpoint.                                                         *)

\* What the front of a new clip or its end is anchored to.
Anchored(r) == r.continuation \/ r.bridge \/ r.endLatents \/ r.endImage

AnchorsOk(r, h) ==
  /\ r.keystone # "none" =>
       ~(r.still \/ r.bridge \/ r.endLatents \/ r.endImage \/ r.transition > 0 \/ r.animate
         \/ Editing(r) \/ r.sourceNoise \/ Approximates(r, h))
  /\ r.sourceNoise =>
       /\ r.continuation
       /\ ~(r.still \/ r.bridge \/ r.transition > 0 \/ r.animate \/ Editing(r) \/ Approximates(r, h))
  /\ r.endLatents =>
       ~(r.still \/ r.bridge \/ r.transition > 0 \/ r.animate \/ Editing(r) \/ r.endImage
         \/ Approximates(r, h))
  /\ r.endImage => ~(r.still \/ r.bridge \/ r.transition > 0 \/ r.animate \/ Editing(r))
  /\ r.bridge =>
       ~(r.continuation \/ r.lock \/ r.transition > 0 \/ r.still \/ r.animate \/ Editing(r)
         \/ Approximates(r, h))

EditOk(r) == Editing(r) => r.still /\ ~r.continuation /\ r.transition = 0 /\ ~r.animate

MotionOk(r, h) ==
  r.motion => h.caches = "none" /\ r.schedule = "default"

ContinuationOk(r, h) ==
  /\ r.lock => r.continuation /\ ~Approximates(r, h)
  /\ r.regenerate =>
       /\ r.continuation /\ r.lock
       /\ ~(r.endLatents \/ r.sourceNoise \/ r.transition > 0 \/ r.bridge)
  /\ r.continuation => ~r.still

\* An FL2VA checkpoint takes no references, but its own latents as context.
Fl2va(m) == m.architecture = "Pruned" /\ ~m.vsa

ModelOk(r, m) ==
  /\ HasReferences(r) => m.references
  /\ Anchored(r) => m.references \/ Fl2va(m)
  /\ m.vsa /\ ~m.pdd => ~HasReferences(r) /\ ~Anchored(r) /\ r.edit # "outpaint"

MotionConditioningOk(r, h) ==
  LET s == Recipe(r)
  IN r.motion => s.caches = "yes" /\ s.videoFirst = "no" /\ s.pin = "no" /\ ~h.model.vsa

\* reference_condition_plan: a video needs more frames than a still has.
MediaOk(r) == r.still => \A k \in DOMAIN r.media : ~IsVideo(r.media[k])

\* Audio alone says nothing about the picture.
AudioAccompanied(r) ==
  r.media # <<>> /\ r.images = 0 =>
    Anchored(r) \/ (\E k \in DOMAIN r.media : IsVideo(r.media[k])) \/ "visual" \in r.refmods

ResolveOk(r, h) ==
  /\ AnchorsOk(r, h) /\ EditOk(r) /\ MotionOk(r, h) /\ ContinuationOk(r, h) /\ ModelOk(r, h.model)
  /\ ConditioningOk(r) /\ MotionConditioningOk(r, h) /\ AudioAccompanied(r) /\ MediaOk(r)
  /\ SamplingOk(r, h)

----
(* validate_generation_options.                                            *)

StepCaching(h) == h.caches = "steps"

LcsOk(r) ==
  /\ r.lcs # "none" => Denoises(r)
  /\ r.lcs = "stable" => ~r.bridge /\ ~r.endLatents
  /\ r.lcs = "tone" => r.endLatents
  /\ r.lcsMask => r.lcs # "none"

UpscalersOk(r, h) ==
  /\ r.latentUpscaler \/ r.upscaler # "none" => ~Editing(r)
  /\ r.upscaler = "seedvr2" => h.backend = "cuda"

FreshNoise(r, h) == Denoises(r) /\ ~h.initLatents

AnchorOptionsOk(r, h) ==
  /\ r.keystone # "none" \/ r.bridge \/ r.endLatents => ~Approximates(r, h) /\ FreshNoise(r, h)
  /\ r.continuation /\ r.keystone = "capstone" => r.attention # "veda"
  /\ r.lock => r.continuation /\ ~Approximates(r, h)
  /\ r.continuation \/ r.transition > 0 => FreshNoise(r, h)
  /\ r.endImage => Denoises(r)

EditAnyNoise(r, h) ==  \* mistake: imported latents are not refused
  Editing(r) => r.still /\ Denoises(r) /\ Sampler(r, h) \in {"euler", "renoise"} /\ ~Approximates(r, h)
EditOptionsOk(r, h) ==
  Editing(r) => r.still /\ FreshNoise(r, h) /\ Sampler(r, h) \in {"euler", "renoise"} /\ ~Approximates(r, h)

AttentionOk(r, h) ==
  /\ r.attention = "veda" <=> r.predictor
  /\ r.attention = "veda" => ~h.model.vsa
  /\ h.band => r.attention \in {"flash2", "exact"} \/ (h.backend = "vulkan" /\ r.attention = "sage2")
  /\ h.model.vsa => Sampler(r, h) = "euler" /\ ~h.band /\ ~Approximates(r, h)

CachesOk(r, h) ==
  LET s == Recipe(r)
  IN /\ Approximates(r, h) => ~Stochastic(r, h) /\ ~FixedGrid(r, h) /\ s.caches = "yes"
     /\ StepCaching(h) => Sampler(r, h) = "euler"
     /\ r.motion => /\ Sampler(r, h) = "euler" /\ h.caches = "none" /\ ~h.model.vsa /\ s.pin = "no"
                    /\ s.videoFirst = "no" /\ r.schedule = "default" /\ Denoises(r)
     /\ h.backend = "vulkan" /\ Denoises(r) =>
          Sampler(r, h) \in {"euler", "renoise", "er_sde"} /\ h.caches = "none"

RecipeOptionsOk(r, h) ==
  LET s == Recipe(r)
  IN /\ s.euler = "yes" => Sampler(r, h) = "euler"
     /\ s.embedding = "yes" => r.embedding
     /\ s.pin = "yes" => ~h.initLatents
     /\ ~Denoises(r) => /\ ~HasReferences(r) /\ ~r.continuation /\ ~r.bridge /\ r.lora = "none"
                        /\ s.embedding = "no" /\ s.pin = "no"

OptionsOk(r, h) ==
  /\ SamplerOk(r, h) /\ LcsOk(r) /\ UpscalersOk(r, h) /\ AnchorOptionsOk(r, h) /\ EditOptionsOk(r, h)
  /\ AttentionOk(r, h) /\ CachesOk(r, h) /\ RecipeOptionsOk(r, h)

\* slopfab_generation_start returns a handle.
Accepted(r, h) ==
  /\ r.continuation => Denoises(r)
  /\ ResolveOk(r, h) /\ OptionsOk(r, h)

----
(* What the stages of the run demand of their own.                         *)

\* Rows of other audio beside the one that is generated.
ConditionAudio(r) ==
  \/ Recipe(r).referenceAudio = "yes" /\ \E k \in DOMAIN r.media : r.media[k] \in {"soundVideo", "audio"}
  \/ "audio" \in r.refmods \/ r.continuation \/ r.bridge \/ r.endLatents
TargetAudio(r) == ~r.still
Refines(r) == r.edit = "outpaint" /\ r.langevin

\* A constraint that holds latents in place, and one with a key frame in each call.
Held(r) == r.bridge \/ r.endLatents \/ (r.keystone # "none" /\ r.continuation) \/ r.lock \/ r.sourceNoise
Capstone(r) == r.continuation /\ r.keystone = "capstone" /\ ~r.bridge /\ ~r.endLatents

\* LoraAdapters::load.
AdapterRefused(r, h) ==
  r.lora = "hyperflow" /\ h.model.architecture \notin {"Pruned", "Ref2VAPruned"}

\* generate.cpp and order_animate_references.
ReferencesRefused(r, h) ==
  \/ HasReferences(r) /\ ~h.model.references
  \/ Recipe(r).videoFirst = "yes" /\ ~(r.images = 1 /\ Len(r.media) = 1 /\ IsVideo(r.media[1]) /\ ~ConditionAudio(r))
  \/ r.lcs = "tone" /\ ~r.endLatents

\* dit::denoise and ExactH3Denoiser: what both demand.
LoopRefused(r, h) ==
  \/ Held(r) /\ (Editing(r) \/ Recipe(r).pin = "yes" \/ Approximates(r, h))
  \/ Sampling(r, h).audioSteps # "unset" /\ ~h.model.pdd /\
       (Recipe(r).pin = "yes" \/ ~TargetAudio(r) \/ Approximates(r, h))
  \/ Recipe(r).pin = "yes" /\ ~TargetAudio(r)
  \/ Editing(r) /\ h.initLatents
  \/ Stochastic(r, h) /\ Approximates(r, h)
  \/ Refines(r) /\ (Sampler(r, h) \notin {"euler", "renoise"} \/ Approximates(r, h))
  \/ r.motion /\ (h.caches # "none" \/ Sampler(r, h) # "euler")
  \/ h.model.vsa /\ (h.band \/ r.motion)
  \/ h.model.pdd /\ (Sampler(r, h) # "euler" \/ Approximates(r, h))

CudaRefused(r, h) == Refines(r) /\ TargetAudio(r)

\* The Vulkan loop takes any audio row for one that is generated.  Nothing refuses such a request: prepare
\* reads past the host's rows, and should that go unnoticed copy_rows throws.  The run does not succeed.
AudioMistaken(r) == ConditionAudio(r) /\ ~TargetAudio(r)

VulkanRefused(r, h) ==
  \/ AudioMistaken(r)
  \/ Refines(r) /\ TargetAudio(r)
  \/ h.caches # "none" \/ Sampler(r, h) \notin {"euler", "renoise", "er_sde"}
  \/ Capstone(r) /\ r.attention = "veda"
  \/ r.attention = "veda" /\ h.band

LateRefusal(r, h) ==
  /\ Denoises(r)
  /\ \/ AdapterRefused(r, h) \/ ReferencesRefused(r, h) \/ LoopRefused(r, h)
     \/ IF h.backend = "cuda" THEN CudaRefused(r, h) ELSE VulkanRefused(r, h)

----
(* The setters.  One that is refused leaves the request alone.             *)

RequestInit(hosts, requests) ==
  /\ host \in hosts /\ asked \in requests
  /\ settingsMade = 0

Set(r) ==
  /\ settingsMade < MaxSettings
  /\ asked' = r /\ r # asked
  /\ settingsMade' = settingsMade + 1
  /\ UNCHANGED host

\* A new image starts from a rectangle without a mask; without one the edit is gone but the still stays.
SetImageEdit == Set([asked EXCEPT !.edit = "box", !.langevin = TRUE, !.still = TRUE])
ClearImageEdit == Set([asked EXCEPT !.edit = "none", !.langevin = TRUE])
SetEditMask == asked.edit \in {"box", "masked"} /\ Set([asked EXCEPT !.edit = "masked"])
ClearEditMask == asked.edit = "masked" /\ Set([asked EXCEPT !.edit = "box"])
\* Outpainting excludes a mask.
SetInvertMask ==
  /\ asked.edit \in {"box", "outpaint"}
  /\ \E e \in {"box", "outpaint"} : Set([asked EXCEPT !.edit = e])
SetLangevin ==
  /\ asked.edit = "outpaint"
  /\ \E on \in BOOLEAN : Set([asked EXCEPT !.langevin = on])

SetStill == \E on \in BOOLEAN : Set([asked EXCEPT !.still = on])
SetAnimate ==
  \E on, pinned \in BOOLEAN : Set([asked EXCEPT !.animate = on, !.pinDriving = on /\ pinned])

AddImage ==
  /\ asked.images < ImageLimit
  /\ Set([asked EXCEPT !.images = @ + 1])
AddMedia ==
  /\ Len(asked.media) < MediaLimit
  /\ \E m \in {"video", "soundVideo", "audio"} : Set([asked EXCEPT !.media = Append(@, m)])
AddRefmod == \E m \in {"visual", "audio"} : Set([asked EXCEPT !.refmods = @ \cup {m}])
ClearRefmods == Set([asked EXCEPT !.refmods = {}])

SetContinuation == Set([asked EXCEPT !.continuation = TRUE])
ClearContinuation ==
  Set([asked EXCEPT !.continuation = FALSE, !.lock = FALSE, !.regenerate = FALSE, !.sourceNoise = FALSE])
SetLock == \E on \in BOOLEAN : Set([asked EXCEPT !.lock = on])
SetRegenerate == \E on \in BOOLEAN : Set([asked EXCEPT !.regenerate = on])
SetSourceNoise == \E on \in BOOLEAN : Set([asked EXCEPT !.sourceNoise = on])
SetKeystone == \E k \in {"none", "keystone", "capstone"} : Set([asked EXCEPT !.keystone = k])
SetBridge == \E on \in BOOLEAN : Set([asked EXCEPT !.bridge = on])
SetEndLatents == \E on \in BOOLEAN : Set([asked EXCEPT !.endLatents = on])
SetEndImage == \E on \in BOOLEAN : Set([asked EXCEPT !.endImage = on])
SetTransition == \E n \in 0 .. 2 : Set([asked EXCEPT !.transition = n])

AddLora == asked.lora = "none" /\ \E l \in {"plain", "hyperflow"} : Set([asked EXCEPT !.lora = l])
ClearLoras == Set([asked EXCEPT !.lora = "none"])
SetSchedule == \E s \in {"default", "taomate", "dmad", "beta"} : Set([asked EXCEPT !.schedule = s])
\* The whole record is replaced.
SetSampling ==
  \/ Set([asked EXCEPT !.sampling = NoSampling])
  \/ \E s \in {"euler", "renoise", "er_sde", "ab2"} :
       Set([asked EXCEPT !.sampling = [NoSampling EXCEPT !.sampler = s]])
  \/ \E g \in {"own", "hyperflow"} : Set([asked EXCEPT !.sampling = [NoSampling EXCEPT !.grid = g]])
  \/ Set([asked EXCEPT !.sampling = [NoSampling EXCEPT !.scheduler = "beta"]])
  \/ Set([asked EXCEPT !.sampling = [NoSampling EXCEPT !.shifts = "own"]])
SetAudioSteps == \E n \in {"unset", "more"} : Set([asked EXCEPT !.sampling.audioSteps = n])
SetRecipe ==
  \/ Set([asked EXCEPT !.recipe = NoRecipe])
  \/ \E f \in {"referenceAudio", "videoFirst", "pin", "caches", "euler"}, v \in {"yes", "no"} :
       Set([asked EXCEPT !.recipe = [NoRecipe EXCEPT ![f] = v]])
  \/ Set([asked EXCEPT !.recipe = [NoRecipe EXCEPT !.pin = "yes", !.referenceAudio = "no"]])

SetMotion == \E on \in BOOLEAN : Set([asked EXCEPT !.motion = on])
SetAttention == \E a \in {"flash2", "exact", "sage2", "veda"} : Set([asked EXCEPT !.attention = a])
SetVeda == \E on \in BOOLEAN : Set([asked EXCEPT !.predictor = on])
SetSynthetic == \E on \in BOOLEAN : Set([asked EXCEPT !.synthetic = on])
\* Without a calibration its settings and its mask go as well.
SetLcs ==
  \/ \E l \in {"plain", "stable", "tone"} : Set([asked EXCEPT !.lcs = l])
  \/ Set([asked EXCEPT !.lcs = "none", !.lcsMask = FALSE])
SetLcsMask == \E on \in BOOLEAN : Set([asked EXCEPT !.lcsMask = on])
SetUpscaler == \E u \in {"none", "model", "seedvr2"} : Set([asked EXCEPT !.upscaler = u])
SetLatentUpscaler == \E on \in BOOLEAN : Set([asked EXCEPT !.latentUpscaler = on])
SetEmbedding == \E on \in BOOLEAN : Set([asked EXCEPT !.embedding = on])

RequestNext ==
  \/ SetImageEdit \/ ClearImageEdit \/ SetEditMask \/ ClearEditMask \/ SetInvertMask \/ SetLangevin
  \/ SetStill \/ SetAnimate \/ AddImage \/ AddMedia \/ AddRefmod \/ ClearRefmods
  \/ SetContinuation \/ ClearContinuation \/ SetLock \/ SetRegenerate \/ SetSourceNoise
  \/ SetKeystone \/ SetBridge \/ SetEndLatents \/ SetEndImage \/ SetTransition
  \/ AddLora \/ ClearLoras \/ SetSchedule \/ SetSampling \/ SetAudioSteps \/ SetRecipe
  \/ SetMotion \/ SetAttention \/ SetVeda \/ SetSynthetic \/ SetLcs \/ SetLcsMask
  \/ SetUpscaler \/ SetLatentUpscaler \/ SetEmbedding

----
(* Properties.                                                             *)

\* capi.h promises that an unsatisfiable request is refused by the start itself, "rather than as a
\* handle that fails a millisecond later": no later stage refuses what the start accepted.
AcceptedRequestsRun ==
  asked # NoRequest => (Accepted(asked, host) => ~LateRefusal(asked, host))

\* The same but for the two cases the code lets through: a still with a reference that sounds, on
\* Vulkan, where the loop fails, and a Hyperflow adapter on a base it was not made for.
OnlyKnownLateRefusals ==
  asked # NoRequest /\ Accepted(asked, host) /\ LateRefusal(asked, host) =>
    \/ host.backend = "vulkan" /\ AudioMistaken(asked)
    \/ AdapterRefused(asked, host)

\* A distilled model or adapter runs on the sigmas it was trained for, with Euler steps and no
\* velocity reused, whatever schedule, settings, adapter and command line override are combined.
DistilledKeepsItsRecipe ==
  asked # NoRequest /\ (host.model.pdd \/ host.model.architecture = "FastH3V2" \/ asked.lora = "hyperflow") =>
    LET s == Sampling(asked, host)
        trained == CASE host.model.architecture = "FastH3V2" -> FastSampling
                     [] asked.lora = "hyperflow" -> HyperflowSampling
                     [] OTHER -> DefaultSampling
    IN Accepted(asked, host) =>
         /\ s.grid = trained.grid /\ s.shifts = trained.shifts /\ s.audioSteps = "unset"
         /\ s.scheduler # "beta" /\ Sampler(asked, host) = "euler" /\ ~Approximates(asked, host)
=============================================================================
