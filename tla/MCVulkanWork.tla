---------------------------- MODULE MCVulkanWork ----------------------------
(* An instance of VulkanWork for TLC. *)
EXTENDS VulkanWork

MCOperators == {<<TR("x"), TW("y")>>, <<R("y"), RW("x")>>}
MCCacheTensor == [c \in {"slot"} |-> "dense"]

H3 == INSTANCE H3Transformer
Qwen == INSTANCE QwenEncoder
Vae == INSTANCE VaeGraphs
MCGraphs == H3!BlockGraphs \cup H3!TransformerGraphs \cup Qwen!TextGraphs \cup Qwen!VisionGraphs
  \cup Vae!DecoderGraphs \cup Vae!AudioGraphs \cup Vae!ReferenceGraphsOf({1, 4, 5})

Times(v, a) == [video |-> v, audio |-> a]
Plain == [sampler |-> "euler", steps |-> Times(2, 2), audio |-> "generated", conditioned |-> FALSE,
          cache |-> "off", quiet |-> {}, maxSkips |-> 1, effect |-> FALSE, preview |-> FALSE, inner |-> 0,
          inpaint |-> FALSE, continuation |-> "none", capstoneStart |-> 0, loops |-> 2, stop |-> 0]

Stops == 0..5
\* Every sampler with schedules of any ratio.
Schedules ==
  {[Plain EXCEPT !.sampler = s, !.steps = t, !.effect = e, !.preview = p, !.conditioned = c, !.stop = n] :
     s \in Samplers, t \in {Times(1, 1), Times(2, 2), Times(3, 2), Times(2, 4)}, e \in BOOLEAN, p \in BOOLEAN,
     c \in BOOLEAN, n \in Stops}
\* Equal schedules: pinned or no audio, and images that are edited and refined.
Edits ==
  {[Plain EXCEPT !.sampler = s, !.audio = a, !.conditioned = c, !.inpaint = i, !.inner = k, !.effect = e,
                 !.preview = p, !.stop = n] :
     s \in Samplers, a \in {"none", "pinned", "generated"}, c \in BOOLEAN, i \in BOOLEAN, k \in {0, 2},
     e \in BOOLEAN, p \in BOOLEAN, n \in Stops}
AllowedEdits ==
  {r \in Edits : IF r.inner > 0 THEN r.inpaint /\ r.audio = "none" /\ r.sampler # "er_sde" ELSE ~r.effect}
Continuations ==
  {[Plain EXCEPT !.sampler = s, !.steps = t, !.conditioned = TRUE, !.continuation = k, !.capstoneStart = f,
                 !.preview = p, !.effect = e, !.stop = n] :
     s \in Samplers, t \in {Times(2, 2), Times(3, 2)}, k \in {"plain", "capstone"}, f \in {0, 1},
     p \in BOOLEAN, e \in BOOLEAN, n \in Stops}
\* The caches need five steps to reuse two velocities in a row.
Caches5 ==
  {[Plain EXCEPT !.steps = Times(5, 5), !.cache = k, !.quiet = q, !.maxSkips = m, !.audio = a, !.conditioned = c,
                 !.effect = e, !.preview = p, !.stop = n, !.loops = IF k = "steps" THEN 1 ELSE 2] :
     k \in {"motion", "steps"}, q \in {{0, 2, 4}, {2, 3, 4}}, m \in {1, 2}, a \in {"none", "pinned"},
     c \in BOOLEAN, e \in BOOLEAN, p \in BOOLEAN, n \in {0, 3}}
MCRequests == Schedules \cup AllowedEdits \cup Continuations \cup Caches5
=============================================================================
