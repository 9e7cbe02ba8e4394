--------------------------- MODULE MCSessionWork ---------------------------
(* Instances of SessionWork for TLC. *)
EXTENDS SessionWork, TLC

PlainRequest ==
  [family |-> "h3", prompt |-> "p", images |-> <<>>, media |-> None, scene |-> None,
   arithmetic |-> "cuda", denoise |-> TRUE, embedded |-> FALSE, reuse |-> TRUE, release |-> FALSE]

\* Requests that share text, an image or media with another and differ in one thing that matters.
MCRequests ==
  {[PlainRequest EXCEPT !.images = <<"a">>], [PlainRequest EXCEPT !.images = <<"a", "a">>],
   [PlainRequest EXCEPT !.images = <<"a">>, !.arithmetic = "cuda exact"],
   [PlainRequest EXCEPT !.images = <<"a">>, !.media = "m", !.arithmetic = "vulkan"],
   [PlainRequest EXCEPT !.media = "m", !.embedded = TRUE],
   [PlainRequest EXCEPT !.scene = "s"],
   [PlainRequest EXCEPT !.images = <<"a">>, !.denoise = FALSE],
   [PlainRequest EXCEPT !.images = <<"a">>, !.reuse = FALSE],
   [PlainRequest EXCEPT !.images = <<"a">>, !.release = TRUE],
   [PlainRequest EXCEPT !.family = "krea2"]}

\* Only the requests whose conditioning a fault can spoil.
MCFewRequests == {PlainRequest, [PlainRequest EXCEPT !.images = <<"a">>], [PlainRequest EXCEPT !.prompt = "q"]}
Model(architecture, references, vsa, pdd) ==
  [architecture |-> architecture, references |-> references, vsa |-> vsa, pdd |-> pdd]

\* The transformers a host may have, and one with the gate of video sparse attention.
MCModels ==
  {Model("Pruned", FALSE, FALSE, FALSE), Model("Ref2VAPruned", TRUE, FALSE, FALSE),
   Model("ViggleAnimate", TRUE, FALSE, FALSE), Model("FastH3V2", FALSE, TRUE, FALSE),
   Model("OmniRef", TRUE, TRUE, TRUE), Model("Pruned", FALSE, TRUE, FALSE)}

PlainHosts(models) ==
  {[model |-> m, backend |-> b, caches |-> "none", band |-> FALSE, initLatents |-> FALSE,
    sampler |-> "unset"] : m \in models, b \in {"cuda", "vulkan"}}

\* Hosts that set nothing, and for the models that differ most one option each of those the command
\* line or the C API's options set.
MCHosts ==
  PlainHosts(MCModels) \cup
  UNION {{[h EXCEPT !.band = TRUE], [h EXCEPT !.caches = "steps"], [h EXCEPT !.initLatents = TRUE],
          [h EXCEPT !.sampler = "renoise"], [h EXCEPT !.sampler = "ab2"]} :
           h \in PlainHosts({m \in MCModels : m.architecture # "ViggleAnimate" /\ m.vsa = m.pdd}
                            \cup {m \in MCModels : m.architecture = "FastH3V2"})}

\* Requests of every kind to vary: plain, animated, continued, outpainted, referenced.
MCStarts ==
  {NewRequest,
   [NewRequest EXCEPT !.animate = TRUE, !.images = 1, !.media = <<"soundVideo">>, !.embedding = TRUE],
   [NewRequest EXCEPT !.continuation = TRUE, !.lock = TRUE],
   [NewRequest EXCEPT !.edit = "outpaint", !.still = TRUE],
   [NewRequest EXCEPT !.images = 1, !.media = <<"video">>]}
-----------------------------------------------------------------------------
(* Sequences, chunks and canvases.                                         *)

Target(text, tags, frames, height, width, audio) ==
  [text |-> text, tags |-> tags, frames |-> frames, height |-> height, width |-> width, audio |-> audio]
Image(height, width) ==
  [kind |-> "image", frames |-> 1, height |-> height, width |-> width, audio |-> 0, aligned |-> FALSE,
   offset |-> 0, audioOffset |-> <<>>, x |-> 0, y |-> 0]
Keyframe(x, y, height, width, offset) ==
  [Image(height, width) EXCEPT !.aligned = TRUE, !.x = x, !.y = y, !.offset = offset]
Video(frames, height, width, audio) ==
  [Image(height, width) EXCEPT !.kind = "video", !.frames = frames, !.audio = audio]
Guide(frames, height, width, audio, offset, audioOffset) ==
  [Video(frames, height, width, audio) EXCEPT !.aligned = TRUE, !.offset = offset,
                                              !.audioOffset = audioOffset]
Sound(audio) == [Image(0, 0) EXCEPT !.kind = "audio", !.frames = 0, !.audio = audio]

\* A prompt with a vision token; grids wider than high and higher than wide; more than five latents,
\* so that the clock's long step is met twice; and no text, or no sound.
Seen == Target(2, <<1, 0>>, 2, 2, 4, 3)
Targets == {Seen, Target(1, <<1>>, 6, 4, 2, 0), Target(3, <<1, 1, 1>>, 3, 4, 4, 4), Target(0, <<>>, 1, 2, 2, 1)}
References ==
  {Image(2, 2), Image(4, 2), Keyframe(0, 0, 2, 2, 5), Keyframe(2, 0, 2, 2, -5), Keyframe(0, 2, 2, 2, 40),
   Video(2, 2, 2, 5), Video(3, 2, 4, 0), Guide(1, 2, 4, 2, 20, <<6>>), Guide(2, 4, 4, 1, -25, <<>>),
   Guide(2, 4, 2, 0, 85, <<>>), Sound(2)}
SequenceJobs ==
  {[kind |-> "sequence", plain |-> TRUE, target |-> t, references |-> <<>>] : t \in Targets \ {Seen}}
  \cup {[kind |-> "sequence", plain |-> FALSE, target |-> t, references |-> r] :
          t \in Targets, r \in UNION {[1 .. n -> References] : n \in 0 .. 1}}
  \cup {[kind |-> "sequence", plain |-> FALSE, target |-> Seen, references |-> r] :
          r \in [1 .. 2 -> References]}

\* Requests of f latents cut into n chunks of c; most such cuts do not tile.
Cut(latents) == [frames |-> latents, audio |-> AudioLatentsForFrames((17 * latents - 9) \div 5)]
ChunkJobs ==
  {[kind |-> "chunks", full |-> Cut(f), chunk |-> Cut(c), chunks |-> n] :
     f \in {7, 12, 17, 22, 27, 32}, c \in {2, 7, 12, 17}, n \in 2 .. 4}

\* Every ratio of sides up to 24, and references whose sides lie around multiples of 32.
Sides == {16, 32, 40, 79, 80, 81, 100, 127, 128, 129, 320, 321}
CanvasJobs ==
  {[kind |-> "canvas", width |-> w, height |-> h, follows |-> FALSE] : w \in 1 .. 24, h \in 1 .. 24}
  \cup {[kind |-> "canvas", width |-> w, height |-> h, follows |-> TRUE] : w \in Sides, h \in Sides}
FrameJobs == {[kind |-> "frames", frames |-> n] : n \in 1 .. 120}
MCJobs == SequenceJobs \cup ChunkJobs \cup CanvasJobs \cup FrameJobs

\* Tiles and blocks that divide one another and that do not, and no band.
MCBands ==
  {[frames |-> 1, tile |-> 2, block |-> 2], [frames |-> 1, tile |-> 3, block |-> 4],
   [frames |-> 0, tile |-> 4, block |-> 2]}
=============================================================================
