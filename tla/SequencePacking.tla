--------------------------- MODULE SequencePacking ---------------------------
(***************************************************************************)
(* One request as one packed sequence: its rows, their coordinates and     *)
(* times, the keys its queries may see, its cut into chunks and its canvas *)
(* (src/src/dit/packing.cpp, ref2va.cpp, chunking.cpp, hyperflow.cpp and   *)
(* the steps of src/src/dit/denoise.cpp that use them).  Times are in      *)
(* thirds of a position, a spatial coordinate is the axis it is computed   *)
(* from and its index on it, and a flow time is one of a few levels.       *)
(***************************************************************************)
EXTENDS Integers, Sequences, FiniteSets, SequencesExt, FiniteSetsExt

CONSTANTS
  Jobs,          \* sequences to pack, requests to chunk, and canvases to resolve
  TimeLevels,    \* flow times of a step, in order; the last but one is a reference's, the last is clean
  Bands,         \* frames of a band; how many queries and keys a tile and a block have
  VideoChannels  \* of a latent (24)

ASSUME PackingAssumption ==
  /\ TimeLevels = 0 .. Max(TimeLevels) /\ Max(TimeLevels) \in Nat \ 0 .. 1
  /\ VideoChannels \in Nat \ {0}
  /\ \A b \in Bands : b.frames \in Nat /\ {b.tile, b.block} \subseteq Nat \ {0}

\* How long a request is: its frames, aligned, and the latents of its two clocks.
AlignNumFrames(n) == IF n <= 5 THEN 5 ELSE 17 * ((n - 5 + 16) \div 17) + 5
VideoLatentNumFrames(aligned) == ((aligned - 5) \div 17) * 5 + 2
\* Five thirds of a latent a frame, rounded; there is no tie.
AudioLatentsForFrames(aligned) == (10 * aligned + 3) \div 6
Resolved(n) ==
  [frames |-> VideoLatentNumFrames(AlignNumFrames(n)), audio |-> AudioLatentsForFrames(AlignNumFrames(n))]

\* Jobs of each kind; the two requests of a chunked run are resolved ones.
IsTarget(t) ==
  /\ DOMAIN t = {"text", "tags", "frames", "height", "width", "audio"}
  /\ {t.frames, t.height, t.width} \subseteq Nat \ {0} /\ t.height % 2 = 0 /\ t.width % 2 = 0
  /\ {t.text, t.audio} \subseteq Nat
  /\ t.tags \in Seq({0, 1}) /\ Len(t.tags) = t.text
IsReference(r) ==
  /\ r.kind \in {"image", "video", "audio"} /\ r.aligned \in BOOLEAN
  /\ r.kind = "image" => r.frames = 1 /\ r.audio = 0
  /\ {r.frames, r.height, r.width, r.audio, r.x, r.y} \subseteq Nat
  /\ r.offset \in Int /\ r.audioOffset \in Seq(Int)
IsJob(j) ==
  CASE j.kind = "sequence" -> /\ DOMAIN j = {"kind", "plain", "target", "references"}
                              /\ IsTarget(j.target) /\ j.plain \in BOOLEAN
                              /\ DOMAIN j.references = 1 .. Len(j.references)
                              /\ \A i \in DOMAIN j.references : IsReference(j.references[i])
                              /\ j.plain => j.references = <<>>
    [] j.kind = "chunks" -> /\ \A c \in {j.full, j.chunk} : \E n \in 1 .. 4 * c.frames : c = Resolved(n)
                            /\ j.chunks \in Nat
    [] j.kind = "canvas" -> {j.width, j.height} \subseteq Nat \ {0} /\ j.follows \in BOOLEAN
    [] j.kind = "frames" -> j.frames \in Nat \ {0}
    [] OTHER -> FALSE

ASSUME JobsAssumption == \A j \in Jobs : IsJob(j)

VARIABLES
  job,        \* what is being packed
  sequence,   \* the request's sequence, Refused, or <<>> before it is packed
  call,       \* the sequence the model is called with, or <<>>
  step        \* the times of the rows at a step and what they were built from, or <<>>

packingVars == <<job, sequence, call, step>>

NoJob == [kind |-> "none"]
Refused == [refused |-> TRUE]

TagVideo == 0
TagText == 1
TagAudio == 2
ReferenceLevel == Max(TimeLevels) - 1
CleanLevel == Max(TimeLevels)
Rows(first, n) == [i \in 1 .. n |-> first + i - 1]

-----------------------------------------------------------------------------
(* Coordinates.                                                            *)

\* A latent stands for one frame or four, each 5/3 of a position.
Span(f) == IF f % 5 = 0 THEN 5 ELSE 20
Elapsed(n) == 85 * (n \div 5) + (IF n % 5 = 0 THEN 0 ELSE 20 * (n % 5) - 15)
Clock == 3   \* an audio latent, or a token

\* spatial_position_grid: where patch k of an axis lies depends on the whole axis and on the other one.
Axis(dim, other) == [k \in 1 .. dim \div 2 |-> <<dim, other, k - 1>>]
Nowhere == <<0, 0, 0>>

RowsPerFrame(l) == (l.height \div 2) * (l.width \div 2)
VideoRows(l) == l.frames * RowsPerFrame(l)
AudioStart(l) == l.text + l.conditionVideo + l.conditionAudio
VideoStart(l) == AudioStart(l) + 2 * l.audio
TotalRows(l) == VideoStart(l) + VideoRows(l)

-----------------------------------------------------------------------------
(* Sequences without references: build_indices and build_position_ids.     *)

PlainLayout(t) ==
  [text |-> t.text, conditionVideo |-> 0, conditionAudio |-> 0, explicit |-> FALSE,
   frames |-> t.frames, height |-> t.height, width |-> t.width, audio |-> t.audio]

PlainAt(t, row) ==
  LET l == PlainLayout(t)
      hs == Axis(t.height, t.width)
      ws == Axis(t.width, t.height)
      a == row - AudioStart(l)
      r == (row - VideoStart(l)) % RowsPerFrame(l)
      f == (row - VideoStart(l)) \div RowsPerFrame(l)
  IN CASE row < t.text -> <<Clock * row, Nowhere, Nowhere>>
       [] row \in t.text .. VideoStart(l) - 1 ->
            <<Clock * (t.text + (a % t.audio)), Nowhere, IF a < t.audio THEN ws[1] ELSE Last(ws)>>
       [] OTHER -> <<Clock * t.text + Elapsed(f), hs[1 + r \div Len(ws)], ws[1 + (r % Len(ws))]>>

Plain(t) ==
  LET l == PlainLayout(t)
      tag(row) == IF row >= VideoStart(l) THEN TagVideo ELSE IF row >= AudioStart(l) THEN TagAudio ELSE TagText
  IN [layout |-> l, segments |-> <<>>,
      sound |-> Rows(AudioStart(l), 2 * l.audio), video |-> Rows(VideoStart(l), VideoRows(l)),
      tags |-> [i \in 1 .. TotalRows(l) |-> tag(i - 1)],
      at |-> [i \in 1 .. TotalRows(l) |-> PlainAt(t, i - 1)]]

-----------------------------------------------------------------------------
(* Sequences with references: build_ref2va_packed_sequence.                *)

RefVideoRows(r) == IF r.kind = "audio" THEN 0 ELSE r.frames * (r.height \div 2) * (r.width \div 2)
RefAudioRows(r) == 2 * r.audio
Counted(references) ==
  FoldLeft(LAMBDA n, r : [video |-> n.video + RefVideoRows(r), audio |-> n.audio + RefAudioRows(r)],
           [video |-> 0, audio |-> 0], references)

\* What a temporal guide, and the target, must be.
GuideFits(r, t) ==
  IF r.kind = "image"
  THEN /\ r.frames = 1 /\ r.audio = 0 /\ r.height > 0 /\ r.width > 0
       /\ \A n \in {r.height, r.width, r.x, r.y} : n % 2 = 0
       /\ r.x >= 0 /\ r.y >= 0 /\ r.x + r.width <= t.width /\ r.y + r.height <= t.height
  ELSE /\ r.kind = "video" /\ r.height = t.height /\ r.width = t.width
       /\ r.frames \in 1 .. t.frames /\ r.audio <= t.audio
Accepts(t, references) ==
  /\ \A i, j \in DOMAIN references : i < j /\ references[i].aligned => references[j].aligned
  /\ \A i \in DOMAIN references : references[i].aligned => GuideFits(references[i], t)
  /\ t.frames > 0 /\ t.height > 0 /\ t.width > 0 /\ t.height % 2 = 0 /\ t.width % 2 = 0

\* video: a positioned image lies on a part of the target's grid.
VideoAt(r, origin, t) ==
  LET positioned == r.aligned /\ r.kind = "image"
      hs == IF positioned THEN SubSeq(Axis(t.height, t.width), 1 + r.y \div 2, (r.y + r.height) \div 2)
            ELSE Axis(r.height, r.width)
      ws == IF positioned THEN SubSeq(Axis(t.width, t.height), 1 + r.x \div 2, (r.x + r.width) \div 2)
            ELSE Axis(r.width, r.height)
      plane == Len(hs) * Len(ws)
  IN [i \in 1 .. r.frames * plane |->
        <<origin + Elapsed((i - 1) \div plane), hs[1 + ((i - 1) % plane) \div Len(ws)],
          ws[1 + ((i - 1) % Len(ws))]>>]
AudioAt(n, origin, ws) ==
  [i \in 1 .. 2 * n |-> <<origin + Clock * ((i - 1) % n), Nowhere, IF i <= n THEN ws[1] ELSE Last(ws)>>]

\* How far the clock moves.
GuidesMove(r) ==   \* mistake: a video guide moves the target's clock on too
  CASE r.kind = "audio" -> Clock * r.audio
    [] r.kind = "image" -> IF r.aligned THEN 0 ELSE Clock
    [] OTHER -> Max({Clock * r.audio, Elapsed(r.frames)})
Moves(r) ==
  IF r.aligned THEN 0
  ELSE CASE r.kind = "audio" -> Clock * r.audio
         [] r.kind = "image" -> Clock
         [] OTHER -> Max({Clock * r.audio, Elapsed(r.frames)})

Written(at, first, places) ==
  [i \in DOMAIN at |-> IF i - 1 \in first .. first + Len(places) - 1 THEN places[i - first] ELSE at[i]]

\* One reference: its audio rows, then its video rows.
Place(p, r, t) ==
  LET first == p.next + RefAudioRows(r)
      origin == p.clock + (IF r.aligned THEN r.offset ELSE 0)
      heard == IF r.aligned /\ r.audioOffset # <<>> THEN p.clock + r.audioOffset[1] ELSE origin
      ws == IF r.kind = "audio" THEN Axis(t.width, t.height) ELSE Axis(r.width, r.height)
      sounded == Written(p.at, p.next, AudioAt(r.audio, heard, ws))
      seen == IF r.kind = "audio" THEN <<>> ELSE VideoAt(r, origin, t)
  IN [next |-> first + RefVideoRows(r), clock |-> p.clock + Moves(r),
      at |-> Written(sounded, first, seen),
      sound |-> p.sound \o Rows(p.next, RefAudioRows(r)), video |-> p.video \o Rows(first, RefVideoRows(r)),
      segments |-> p.segments
                   \o (IF RefAudioRows(r) > 0 THEN <<[first |-> p.next, rows |-> RefAudioRows(r)]>> ELSE <<>>)
                   \o (IF r.kind # "audio" THEN <<[first |-> first, rows |-> RefVideoRows(r)]>> ELSE <<>>)]

ReferencedLayout(t, references) ==
  LET counted == Counted(references)
  IN [text |-> t.text, conditionVideo |-> counted.video, conditionAudio |-> counted.audio, explicit |-> TRUE,
      frames |-> t.frames, height |-> t.height, width |-> t.width, audio |-> t.audio]

\* The text is placed; of the other rows nothing is known.
NothingPlaced(t, total) ==
  [next |-> t.text, clock |-> Clock * t.text, sound |-> <<>>, video |-> <<>>, segments |-> <<>>,
   at |-> [i \in 1 .. total |-> <<IF i <= t.text THEN Clock * (i - 1) ELSE 0, Nowhere, Nowhere>>]]

AllPlaced(t, references, total) ==
  FoldLeft(LAMBDA p, r : Place(p, r, t), NothingPlaced(t, total), references)

\* The target behind what is placed; and the text has the tags its vision tokens have.
Assembled(t, l, p) ==
  LET target == [kind |-> "video", frames |-> t.frames, height |-> t.height, width |-> t.width,
                 audio |-> 0, aligned |-> FALSE]
      sound == p.sound \o Rows(p.next, 2 * t.audio)
      video == p.video \o Rows(p.next + 2 * t.audio, VideoRows(l))
      sounded == Written(p.at, p.next, AudioAt(t.audio, p.clock, Axis(t.width, t.height)))
      tag(row) == CASE row \in ToSet(video) -> TagVideo
                    [] row \in ToSet(sound) \ ToSet(video) -> TagAudio
                    [] OTHER -> IF row < t.text THEN t.tags[row + 1] ELSE TagText
  IN [layout |-> l, segments |-> p.segments, sound |-> sound, video |-> video,
      tags |-> [i \in 1 .. TotalRows(l) |-> tag(i - 1)],
      at |-> Written(sounded, p.next + 2 * t.audio, VideoAt(target, p.clock, t))]

Referenced(t, references) ==
  LET l == ReferencedLayout(t, references)
  IN Assembled(t, l, AllPlaced(t, references, TotalRows(l)))

-----------------------------------------------------------------------------
(* The capstone's call-only frame: append_video_context.                   *)

Extended(s) ==
  LET l == s.layout
      total == TotalRows(l)
      plane == RowsPerFrame(l)
      later(place) == <<place[1] + Span(l.frames - 1), place[2], place[3]>>
  IN [s EXCEPT !.layout.frames = @ + 1, !.video = @ \o Rows(total, plane),
               !.tags = @ \o [i \in 1 .. plane |-> TagVideo],
               !.at = @ \o [i \in 1 .. plane |-> later(s.at[total - plane + i])]]

-----------------------------------------------------------------------------
(* The times of the rows at a step: build_row_timesteps and its kin.       *)

Precedes(p, q) == p[1] < q[1] \/ (p[1] = q[1] /\ p[2] < q[2])
Ascending(S) == CHOOSE u \in [1 .. Cardinality(S) -> S] : \A i, j \in DOMAIN u : i < j => Precedes(u[i], u[j])
LargerTag(tag) == IF tag > 0 THEN tag ELSE 0

\* The sorted distinct times of the rows, which one a row has, and its row of the modulation table.
Indexed(s, times) ==
  LET unique == Ascending(ToSet(times))
      index(row) == (CHOOSE k \in DOMAIN unique : unique[k] = times[row]) - 1
  IN [unique |-> unique, indices |-> [row \in DOMAIN times |-> index(row)],
      adaln |-> [row \in DOMAIN times |-> 3 * index(row) + LargerTag(s.tags[row])]]

\* The first rows of each index list are the references', the rest the target's.
RowTimes(s, video, audio, conditionVideo, conditionAudio) ==
  LET l == s.layout
      referenceVideo == {s.video[i] : i \in 1 .. Min({l.conditionVideo, Len(s.video)})}
      referenceAudio == {s.sound[i] : i \in 1 .. Min({l.conditionAudio, Len(s.sound)})}
      time(row) == CASE row \in ToSet(s.sound) \ referenceAudio -> audio
                     [] row \in referenceAudio -> conditionAudio
                     [] row \in referenceVideo -> conditionVideo
                     [] OTHER -> video
  IN [row \in 1 .. TotalRows(l) |-> time(row - 1)]
GeneralTimes(s, video, audio, conditionVideo, conditionAudio) ==
  Indexed(s, RowTimes(s, <<video, 0>>, <<audio, 0>>, <<conditionVideo, 0>>, <<conditionAudio, 0>>))

\* Without references, one comparison a row: every row has the video's time except the target's audio.
PromptKeepsIndexZero(s, video, audio) ==   \* mistake: the video's time is the first, whichever is smaller
  LET l == s.layout
      kept == Min({IF l.explicit THEN l.conditionAudio ELSE l.conditionVideo, Len(s.sound)})
      overridden == {s.sound[i] : i \in kept + 1 .. Len(s.sound)}
      both == overridden # {} /\ TotalRows(l) > Cardinality(overridden)
      unique == IF ~both THEN (IF overridden = {} THEN <<video>> ELSE <<audio>>)
                ELSE IF audio = video THEN <<video>> ELSE <<video, audio>>
      index(row) == IF Len(unique) = 2 /\ row \in overridden THEN 1 ELSE 0
  IN [unique |-> [k \in DOMAIN unique |-> <<unique[k], 0>>],
      indices |-> [row \in 1 .. TotalRows(l) |-> index(row - 1)],
      adaln |-> [row \in 1 .. TotalRows(l) |-> 3 * index(row - 1) + LargerTag(s.tags[row])]]
TwoTimes(s, video, audio) ==
  LET l == s.layout
      kept == Min({IF l.explicit THEN l.conditionAudio ELSE l.conditionVideo, Len(s.sound)})
      overridden == {s.sound[i] : i \in kept + 1 .. Len(s.sound)}
      both == overridden # {} /\ TotalRows(l) > Cardinality(overridden)
      unique == CASE ~both -> IF overridden = {} THEN <<video>> ELSE <<audio>>
                  [] both /\ audio < video -> <<audio, video>>
                  [] both /\ video < audio -> <<video, audio>>
                  [] OTHER -> <<video>>
      index(row) == IF Len(unique) = 2 /\ ((row \in overridden) = (video < audio)) THEN 1 ELSE 0
  IN [unique |-> [k \in DOMAIN unique |-> <<unique[k], 0>>],
      indices |-> [row \in 1 .. TotalRows(l) |-> index(row - 1)],
      adaln |-> [row \in 1 .. TotalRows(l) |-> 3 * index(row - 1) + LargerTag(s.tags[row])]]

\* Hyperflow tells rows apart by where they are and where they go.
HyperflowTimes(s, video, videoEnd, audio, audioEnd) ==
  Indexed(s, RowTimes(s, <<video, videoEnd>>, <<audio, audioEnd>>, <<ReferenceLevel, ReferenceLevel>>,
                      <<CleanLevel, CleanLevel>>))

\* CUDA asks whether the layout says how many rows are references', Vulkan whether any are.
CudaTimes(s, video, audio) ==
  IF s.layout.explicit THEN GeneralTimes(s, video, audio, Max({video, ReferenceLevel}), CleanLevel)
  ELSE TwoTimes(s, video, audio)
VulkanTimes(s, video, audio) ==
  IF s.layout.conditionVideo # 0 \/ s.layout.conditionAudio # 0
  THEN GeneralTimes(s, video, audio, Max({video, ReferenceLevel}), CleanLevel)
  ELSE TwoTimes(s, video, audio)

\* append_clean_video_timesteps.
WithCleanRows(times, rows) ==
  LET unique == IF Last(times.unique)[1] = CleanLevel THEN times.unique
                ELSE times.unique \o << <<CleanLevel, 0>> >>
      clean == Len(unique) - 1
  IN [unique |-> unique, indices |-> times.indices \o [i \in 1 .. rows |-> clean],
      adaln |-> times.adaln \o [i \in 1 .. rows |-> 3 * clean + TagVideo]]

-----------------------------------------------------------------------------
(* The keys a tile of queries may see: build_banded_key_ranges.            *)

RoundUp(n, block) == ((n + block - 1) \div block) * block
RoundDown(n, block) == (n \div block) * block

\* Two half-open ranges; a tile with a row before the video sees everything.
KeyRanges(l, band, tile, block, t) ==
  LET first == t * tile
      last == Min({first + tile, TotalRows(l)}) - 1
      frame(row) == (row - VideoStart(l)) \div RowsPerFrame(l)
      low == Max({0, frame(first) - band})
      high == Min({l.frames, frame(last) + band + 1})
      end == RoundUp(TotalRows(l), block)
      context == RoundUp(VideoStart(l), block)
      from == RoundDown(VideoStart(l) + low * RowsPerFrame(l), block)
      upto == Min({end, RoundUp(VideoStart(l) + high * RowsPerFrame(l), block)})
  IN IF band <= 0 \/ first < VideoStart(l) THEN << <<0, end>>, <<0, 0>> >>
     ELSE IF from <= context THEN << <<0, Max({context, upto})>>, <<0, 0>> >>
     ELSE << <<0, context>>, <<from, upto>> >>

-----------------------------------------------------------------------------
(* A request cut into chunks that overlap: chunking.cpp.                   *)

\* Where the chunks lie in the full request, when they tile.
ChunkPlan(full, chunk, n) ==
  LET frames == full.frames - chunk.frames
      sounds == full.audio - chunk.audio
      stride == frames \div (n - 1)
      audioStride == sounds \div (n - 1)
  IN IF /\ n >= 2 /\ frames > 0 /\ sounds > 0
        /\ frames % (n - 1) = 0 /\ sounds % (n - 1) = 0
        /\ stride % 5 = 0 /\ chunk.frames > stride /\ chunk.audio > audioStride
     THEN [chunks |-> n, full |-> full, chunk |-> chunk, stride |-> stride, audioStride |-> audioStride,
           overlap |-> chunk.frames - stride, audioOverlap |-> chunk.audio - audioStride]
     ELSE Refused

\* slice_chunk_noise: chunk k's latent j of a channel is this one of the full draw, both channel-major.
SlicedVideo(p, k, c, j) == c * p.full.frames + k * p.stride + j
SlicedAudio(p, k, c, j) == c * p.full.audio + k * p.audioStride + j

\* accumulate: where blend_chunks adds it.  Video rows are frame-major, so no channel moves a frame.
BlendedVideo(p, k, j) == k * p.stride + j
BlendedAudio(p, k, c, j) == c * p.full.audio + k * p.audioStride + j

\* A chunk's weight, in halves of 1/overlap: it ramps up over the overlap with the chunk before it and
\* down over the one with the chunk after it.
OneRamp(p, k, j, extent, overlap) ==   \* mistake: the last chunk fades out too
  Min({2 * overlap} \cup (IF k > 0 /\ j < overlap THEN {2 * j + 1} ELSE {})
      \cup (IF j >= extent - overlap THEN {2 * (extent - j) - 1} ELSE {}))
Weight(p, k, j, extent, overlap) ==
  Min({2 * overlap} \cup (IF k > 0 /\ j < overlap THEN {2 * j + 1} ELSE {})
      \cup (IF k < p.chunks - 1 /\ j >= extent - overlap THEN {2 * (extent - j) - 1} ELSE {}))

-----------------------------------------------------------------------------
(* Canvases.                                                               *)

\* p / q and the square root of p / q, rounded to an integer, a tie to the even one.
RoundEven(p, q) ==
  LET n == p \div q IN
  CASE 2 * (p % q) < q -> n [] 2 * (p % q) > q -> n + 1 [] OTHER -> n + (n % 2)
RoundRoot(p, q) == CHOOSE n \in 0 .. p : (n = 0 \/ (2 * n - 1) * (2 * n - 1) * q <= 4 * p)
                                        /\ 4 * p < (2 * n + 1) * (2 * n + 1) * q

\* validate_canvas_size, of a canvas in multiples of 32.
ValidCanvas(c) == c.height > 0 /\ c.width > 0 /\ c.width <= 4 * c.height /\ c.height <= 4 * c.width

\* resolve_canvas_size: the short edge in pixels, the area at most so many squares of 32 (0 for any).
ResolveCanvas(w, h, edge, area) ==
  LET wide == w >= h
      long == IF wide THEN w ELSE h
      short == IF wide THEN h ELSE w
      limited == area > 0 /\ edge * edge * long > area * 1024 * short
      s == Max({1, IF limited THEN RoundRoot(area * short, long) ELSE RoundEven(edge, 32)})
      l == Max({1, IF limited THEN RoundRoot(area * long, short) ELSE RoundEven(edge * long, 32 * short)})
  IN IF w > 4 * h \/ h > 4 * w THEN Refused
     ELSE IF wide THEN [height |-> s, width |-> l] ELSE [height |-> l, width |-> s]

\* The short edge of a canvas that follows a reference video, and its area is not limited.
FollowedEdge(w, h) == Max({32, (Min({w, h}) \div 32) * 32})

-----------------------------------------------------------------------------
(* Patches and channels.                                                   *)

\* Feature x of a target row: the latent that patchify_video reads, and unpatchify_video writes back.
PatchedLatent(l, row, x) ==
  LET frameStride == l.height * l.width
      c == x \div 4
      f == row \div RowsPerFrame(l)
      hh == (row % RowsPerFrame(l)) \div (l.width \div 2)
      ww == row % (l.width \div 2)
  IN c * frameStride * l.frames + f * frameStride + (2 * hh + (x % 4) \div 2) * l.width + 2 * ww + (x % 2)

-----------------------------------------------------------------------------
(* The steps.                                                              *)

Packed(j) == IF j.plain THEN Plain(j.target)
             ELSE IF Accepts(j.target, j.references) THEN Referenced(j.target, j.references)
             ELSE Refused

PackingInit == job \in Jobs /\ sequence = <<>> /\ call = <<>> /\ step = <<>>
PackingIdle == job = NoJob /\ sequence = <<>> /\ call = <<>> /\ step = <<>>

Pack ==
  /\ job.kind = "sequence" /\ sequence = <<>>
  /\ sequence' = Packed(job) /\ call' = sequence' /\ UNCHANGED <<job, step>>

IsPacked == job.kind = "sequence" /\ sequence # <<>> /\ sequence # Refused
HasContext == call # sequence

\* A capstone's frame joins the sequence of the calls once, before the loop.
AddContext ==
  /\ IsPacked /\ ~HasContext /\ step = <<>>
  /\ call' = Extended(sequence) /\ UNCHANGED <<job, sequence, step>>

\* A step's times are those of the request's sequence, with those of a capstone behind them.
TakeTimes(form, video, audio) ==
  LET times == IF form = "hyperflow" THEN HyperflowTimes(sequence, video, video + 1, audio, audio + 1)
               ELSE CudaTimes(sequence, video, audio)
  IN /\ IsPacked /\ step = <<>>
     /\ form = "hyperflow" => ~HasContext
     /\ step' = [form |-> form, video |-> video, audio |-> audio,
                 times |-> IF HasContext THEN WithCleanRows(times, RowsPerFrame(sequence.layout)) ELSE times]
     /\ UNCHANGED <<job, sequence, call>>

CutIntoChunks ==
  /\ job.kind = "chunks" /\ sequence = <<>>
  /\ sequence' = ChunkPlan(job.full, job.chunk, job.chunks) /\ UNCHANGED <<job, call, step>>

ChooseCanvas ==
  /\ job.kind = "canvas" /\ sequence = <<>>
  /\ sequence' = (IF job.follows THEN ResolveCanvas(job.width, job.height, FollowedEdge(job.width, job.height), 0)
                  ELSE ResolveCanvas(job.width, job.height, 768, 1008))
  /\ UNCHANGED <<job, call, step>>

AlignFrames ==
  /\ job.kind = "frames" /\ sequence = <<>>
  /\ LET aligned == AlignNumFrames(job.frames)
     IN sequence' = [frames |-> aligned, video |-> VideoLatentNumFrames(aligned),
                     audio |-> AudioLatentsForFrames(aligned)]
  /\ UNCHANGED <<job, call, step>>

PackingNext ==
  \/ Pack \/ AddContext \/ CutIntoChunks \/ ChooseCanvas \/ AlignFrames
  \/ \E form \in {"flow", "hyperflow"}, video, audio \in TimeLevels \ {CleanLevel} :
       TakeTimes(form, video, audio)

PackingTypeOK ==
  /\ job.kind \in {"none", "sequence", "chunks", "canvas", "frames"}
  /\ IsPacked => /\ DOMAIN call = DOMAIN sequence
                 /\ sequence.tags \in Seq(0 .. 2) /\ ToSet(sequence.sound) \cup ToSet(sequence.video) \subseteq Nat
                 /\ Len(sequence.at) = Len(sequence.tags)

\* Before the times of a step are taken: they leave the sequence alone.
JustPacked == IsPacked /\ step = <<>>

-----------------------------------------------------------------------------
(* Properties.                                                             *)

\* Every row but a text's is in one index list, once; the lists end with the target's rows, in their
\* order, and begin with those of the segments; and a row's tag is its list's.
RowsAreWhole ==
  JustPacked =>
    LET l == call.layout
        text == IF job.plain THEN [i \in 1 .. l.text |-> TagText] ELSE job.target.tags
        targets == VideoRows(l)
        segments == UNION {ToSet(Rows(g.first, g.rows)) : g \in ToSet(call.segments)}
        expected(row) == CASE row < l.text -> text[row + 1]
                           [] row \in ToSet(call.sound) -> TagAudio
                           [] OTHER -> TagVideo
    IN /\ IsInjective(call.sound \o call.video)
       /\ ToSet(call.sound) \cup ToSet(call.video) = l.text .. TotalRows(l) - 1
       /\ segments = l.text .. AudioStart(l) - 1
       /\ SubSeq(call.sound, l.conditionAudio + 1, Len(call.sound)) = Rows(AudioStart(l), 2 * l.audio)
       /\ SubSeq(call.video, l.conditionVideo + 1, Len(call.video)) = Rows(VideoStart(l), targets)
       /\ \A row \in 0 .. TotalRows(l) - 1 : call.tags[row + 1] = expected(row)

\* A target's row is where it would be without references, later by what the references that are
\* not guides take; those follow one another; and a guide's row lies on a patch of the target.
CoordinatesAgree ==
  JustPacked =>
    LET l == call.layout
        alone == Plain([job.target EXCEPT !.frames = l.frames])
        shift == AudioStart(l) - l.text
        at(row) == call.at[row + 1]
        later == IF l.audio > 0 THEN at(AudioStart(l))[1] - Clock * l.text ELSE at(VideoStart(l))[1] - Clock * l.text
        references == job.references
        first(i) == l.text + Counted(SubSeq(references, 1, i - 1)).video + Counted(SubSeq(references, 1, i - 1)).audio
        rows(i) == first(i) .. first(i) + RefAudioRows(references[i]) + RefVideoRows(references[i]) - 1
        ordinary == {i \in DOMAIN references : ~references[i].aligned}
        patches == {<<at(row)[2], at(row)[3]>> : row \in VideoStart(l) .. TotalRows(l) - 1}
    IN /\ \A row \in l.text .. Len(alone.at) - 1 :
            at(row + shift) = <<alone.at[row + 1][1] + later, alone.at[row + 1][2], alone.at[row + 1][3]>>
       /\ \A i, j \in ordinary : i < j => \A a \in rows(i), b \in rows(j) : at(a)[1] < at(b)[1]
       /\ \A i \in ordinary : \A a \in rows(i) : at(a)[1] < Clock * l.text + later
       /\ \A i \in DOMAIN references \ ordinary :
            LET r == references[i]
                seen == first(i) + RefAudioRows(r)
            IN \A row \in seen .. seen + RefVideoRows(r) - 1 :
                 /\ <<at(row)[2], at(row)[3]>> \in patches
                 /\ r.kind = "image" => /\ at(row)[1] = Clock * l.text + later + r.offset
                                        /\ at(row)[2][3] \in r.y \div 2 .. (r.y + r.height) \div 2 - 1
                                        /\ at(row)[3][3] \in r.x \div 2 .. (r.x + r.width) \div 2 - 1

\* The capstone's frame is the frame the sequence would have if it were one longer.
ContextIsOneFrameMore ==
  JustPacked /\ HasContext =>
    call = Packed([job EXCEPT !.target.frames = @ + 1])

\* The latents of a row's features are those of the patch its coordinates name, and every latent of
\* the target is in one feature of one row.
PatchesAreWhole ==
  JustPacked =>
    LET l == call.layout
        places == (0 .. VideoRows(l) - 1) \X (0 .. 4 * VideoChannels - 1)
        plane == l.height * l.width
        latent(p) == PatchedLatent(l, p[1], p[2])
        at(p) == call.at[VideoStart(l) + p[1] + 1]
    IN /\ {latent(p) : p \in places} = 0 .. VideoChannels * l.frames * plane - 1
       /\ \A p \in places :
            /\ ((latent(p) % plane) \div l.width) \div 2 = at(p)[2][3]
            /\ (latent(p) % l.width) \div 2 = at(p)[3][3]
            /\ at(p)[1] - call.at[VideoStart(l) + 1][1] = Elapsed((latent(p) \div plane) % l.frames)

\* Every row has its own time: the sampler's, a reference's, or a capstone's; the times are distinct,
\* in order, and none is unused; and with both backends' questions the answer is the same.
TimesAreTheRows ==
  IsPacked /\ step # <<>> =>
    LET l == sequence.layout
        t == step.times
        hyper == step.form = "hyperflow"
        pair(level) == IF hyper THEN <<level, level + 1>> ELSE <<level, 0>>
        still(level) == IF hyper THEN <<level, level>> ELSE <<level, 0>>
        reference == IF hyper THEN ReferenceLevel ELSE Max({step.video, ReferenceLevel})
        own(row) ==
          CASE row >= TotalRows(l) -> <<CleanLevel, 0>>
            [] row < l.text \/ row \in VideoStart(l) .. TotalRows(l) - 1 -> pair(step.video)
            [] row \in AudioStart(l) .. VideoStart(l) - 1 -> pair(step.audio)
            [] row \in l.text .. AudioStart(l) - 1 ->
                 IF row \in ToSet(call.sound) THEN still(CleanLevel) ELSE still(reference)
    IN /\ DOMAIN t.indices = DOMAIN call.tags /\ DOMAIN t.adaln = DOMAIN call.tags
       /\ \A row \in DOMAIN t.indices :
            /\ t.unique[t.indices[row] + 1] = own(row - 1)
            /\ t.adaln[row] = 3 * t.indices[row] + call.tags[row]
       /\ \A i, j \in DOMAIN t.unique :
            i < j => t.unique[i][1] < t.unique[j][1]
                     \/ (t.unique[i][1] = t.unique[j][1] /\ t.unique[i][2] < t.unique[j][2])
       /\ ToSet(t.indices) = 0 .. Len(t.unique) - 1 /\ Len(t.unique) <= 4
       /\ CudaTimes(sequence, step.video, step.audio) = VulkanTimes(sequence, step.video, step.audio)

\* A tile of a band sees every key before the video and the frames around each of its queries, no key
\* twice, and nothing a whole block away from those.
BandsCover ==
  JustPacked =>
    \A b \in Bands :
      LET l == call.layout
          keys(r) == r[1] .. r[2] - 1
          near(row) == LET f == (row - VideoStart(l)) \div RowsPerFrame(l)
                       IN (VideoStart(l) + Max({0, f - b.frames}) * RowsPerFrame(l))
                            .. (VideoStart(l) + Min({l.frames, f + b.frames + 1}) * RowsPerFrame(l) - 1)
          needed(row) == IF row < VideoStart(l) \/ b.frames = 0 THEN 0 .. TotalRows(l) - 1
                         ELSE (0 .. VideoStart(l) - 1) \cup near(row)
      IN \A tile \in 0 .. (TotalRows(l) - 1) \div b.tile :
           LET ranges == KeyRanges(l, b.frames, b.tile, b.block, tile)
               queries == tile * b.tile .. Min({(tile + 1) * b.tile, TotalRows(l)}) - 1
               wanted == UNION {needed(row) : row \in queries}
           IN /\ wanted \subseteq keys(ranges[1]) \cup keys(ranges[2])
              /\ keys(ranges[1]) \cap keys(ranges[2]) = {}
              /\ \A r \in {ranges[1], ranges[2]} : r[1] % b.block = 0 /\ r[2] % b.block = 0
              /\ \A key \in keys(ranges[1]) \cup keys(ranges[2]) :
                   \E other \in wanted : key \div b.block = other \div b.block

IsChunked == job.kind = "chunks" /\ sequence # <<>> /\ sequence # Refused

\* Chunks that are cut from one field and blended give that field back: each adds a latent where it
\* took it from, every latent is in some chunk with some weight, and where at most two chunks meet their
\* weights add up to one.  Inside a chunk time runs as in the frames it stands for, and its sound is
\* never a whole latent away from its frames.
ChunksTile ==
  IsChunked =>
    LET p == sequence
        chunks == 0 .. p.chunks - 1
        meets(at, stride, extent) == {k \in chunks : at - k * stride \in 0 .. extent - 1}
        whole(full, stride, extent, overlap) ==
          \A at \in 0 .. full - 1 :
            LET ks == meets(at, stride, extent)
                sum == MapThenSumSet(LAMBDA k : Weight(p, k, at - k * stride, extent, overlap), ks)
            IN sum > 0 /\ (Cardinality(ks) <= 2 /\ overlap <= stride => sum = 2 * overlap)
    IN /\ \A k \in chunks, c \in 0 .. 1 :
            /\ \A j \in 0 .. p.chunk.frames - 1 :
                 SlicedVideo(p, k, c, j) = c * p.full.frames + BlendedVideo(p, k, j)
            /\ \A j \in 0 .. p.chunk.audio - 1 : SlicedAudio(p, k, c, j) = BlendedAudio(p, k, c, j)
       /\ whole(p.full.frames, p.stride, p.chunk.frames, p.overlap)
       /\ whole(p.full.audio, p.audioStride, p.chunk.audio, p.audioOverlap)
       /\ \A k \in chunks :
            /\ \A j \in 0 .. p.chunk.frames : Elapsed(k * p.stride + j) - Elapsed(k * p.stride) = Elapsed(j)
            /\ Elapsed(k * p.stride) - Clock * k * p.audioStride \in -2 .. 2

\* A canvas resolved from a shape that is not refused is one the request may have; a count of frames
\* is rounded up to the next the codec has, whose two clocks end within half an audio latent.
CanvasIsValid ==
  sequence # <<>> =>
    /\ job.kind = "canvas" /\ sequence # Refused => ValidCanvas(sequence)
    /\ job.kind = "frames" =>
         /\ sequence.frames >= job.frames /\ sequence.frames < job.frames + (IF job.frames < 5 THEN 5 ELSE 17)
         /\ Elapsed(sequence.video) = 5 * sequence.frames
         /\ Clock * sequence.audio - 5 * sequence.frames \in -1 .. 1

PacksRight ==
  /\ RowsAreWhole /\ CoordinatesAgree /\ ContextIsOneFrameMore /\ PatchesAreWhole
  /\ TimesAreTheRows /\ BandsCover /\ ChunksTile /\ CanvasIsValid

=============================================================================
