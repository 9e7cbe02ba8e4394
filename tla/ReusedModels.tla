---------------------------- MODULE ReusedModels ----------------------------
(***************************************************************************)
(* What a generation session keeps between runs with reuse_models          *)
(* (generation/session_state.h, generate.cpp, generation/prompt.cpp, the   *)
(* keys of pipeline.cpp): the tokenizer, the decoded and encoded reference *)
(* images, encoded reference media and the prompt's conditioning.  Each is *)
(* found by a key built from the identities of the files and settings it   *)
(* was computed from.  A run is a sequence of stages; any of them may fail *)
(* or be cancelled, leaving the caches for the next run as they are.       *)
(*                                                                         *)
(* A cached value is represented by the inputs it was computed from.       *)
(***************************************************************************)
EXTENDS Naturals, Sequences, SequencesExt

CONSTANTS Files,     \* paths, among them "vae", "encoder" and "tokenizer"
          Contents,  \* what a file may hold; each has its own identity
          Requests,  \* requests and options of run_generate
          MaxRuns,   \* bound: runs
          Faults,    \* subset of {"overwrite", "memory"}
          None

\* A session runs H3 requests; the other model families only clear it.
ASSUME ReuseAssumption ==
  /\ {"vae", "encoder", "tokenizer"} \subseteq Files
  /\ Contents # {} /\ Requests # {} /\ MaxRuns \in Nat /\ Faults \subseteq {"overwrite", "memory"}
  /\ \A r \in Requests : r.images \in Seq(Files)

VARIABLES
  disk,   \* the content of each file
  cache,  \* ReusedGenerationModels
  pc,     \* stage of the run, "idle" between runs
  run,    \* the run's request and what it has gathered
  runs    \* runs started

sessionVars == <<disk, cache, pc, run, runs>>

EmptyCache ==
  [conditioningKey |-> None, prompt |-> None, tokenizerKey |-> None, tokenizer |-> None,
   referenceKey |-> None, referenceValid |-> FALSE, images |-> <<>>, rows |-> <<>>,
   mediaKey |-> None, media |-> None]
NewRun(r) ==
  [req |-> r, referenceKey |-> None, images |-> <<>>, rows |-> <<>>, hit |-> FALSE,
   mediaKey |-> None, media |-> None, tokenizer |-> None, promptKey |-> None, prompt |-> None]
NoRun == NewRun(CHOOSE r \in Requests : TRUE)

Stages == {"identify", "decode", "find_media", "preflight", "encode_images", "encode_media",
           "prompt_key", "prompt", "store_prompt", "copy_prompt", "done"}

SessionTypeOK ==
  /\ disk \in [Files -> Contents]
  /\ cache.images \in Seq(Contents) /\ cache.referenceValid \in BOOLEAN
  /\ Len(cache.rows) <= Len(cache.images)
  /\ DOMAIN cache = DOMAIN EmptyCache
  /\ pc \in Stages \cup {"idle"}
  /\ DOMAIN run = DOMAIN NoRun /\ run.req \in Requests
  /\ runs \in 0 .. MaxRuns

SessionInit ==
  /\ disk = [f \in Files |-> CHOOSE c \in Contents : TRUE]  \* contents are alike but for their identity
  /\ cache = EmptyCache
  /\ pc = "idle" /\ run = NoRun /\ runs = 0

----
(* Identities and keys.                                                    *)

Identity(f) == <<f, disk[f]>>
Identities(paths) == [k \in DOMAIN paths |-> Identity(paths[k])]
Loaded(paths) == [k \in DOMAIN paths |-> disk[paths[k]]]

\* CUDA encodes references alike in both attention modes.
EncoderArithmetic(a) == IF a \in {"cuda", "cuda exact"} THEN "cuda" ELSE a

ReferenceKeyOfFiles(r) ==
  [vae |-> Identity("vae"), images |-> Identities(r.images), media |-> r.media,
   arithmetic |-> "cuda"]  \* mistake: whichever backend
ReferenceKey(r) ==
  [vae |-> Identity("vae"), images |-> Identities(r.images), media |-> r.media,
   arithmetic |-> EncoderArithmetic(r.arithmetic)]

MediaKey(r) ==
  [vae |-> Identity("vae"), media |-> r.media, arithmetic |-> EncoderArithmetic(r.arithmetic)]

\* The identities of the images are those taken when the run started.
PromptKey(r, images) ==
  [encoder |-> Identity("encoder"), tokenizer |-> Identity("tokenizer"), prompt |-> r.prompt,
   images |-> images, media |-> r.media, arithmetic |-> r.arithmetic]

EncodedImage(image, a) == [vae |-> disk["vae"], image |-> image, arithmetic |-> EncoderArithmetic(a)]
EncodedMedia(r) ==
  [vae |-> disk["vae"], media |-> r.media, arithmetic |-> EncoderArithmetic(r.arithmetic)]
EncodedPrompt(r, tokenizer, images) ==
  [encoder |-> disk["encoder"], tokenizer |-> tokenizer, prompt |-> r.prompt, images |-> images,
   scene |-> r.scene, media |-> r.media, arithmetic |-> r.arithmetic]

\* None is neither a file's identity nor a key of reference images.
ASSUME NoneAssumption ==
  LET identities == Files \X Contents
  IN /\ None \notin identities
     /\ None \notin [vae : identities, images : Seq(identities), media : {r.media : r \in Requests},
                   arithmetic : {EncoderArithmetic(r.arithmetic) : r \in Requests}]

----
(* A run.                                                                  *)

\* The release guard runs on every way out.
Leave(left) ==
  /\ cache' = IF run.req.release THEN EmptyCache ELSE left
  /\ run' = NoRun
  /\ pc' = "idle"
  /\ UNCHANGED <<disk, runs>>

Advance(next, here, left) ==
  /\ run' = here /\ cache' = left /\ pc' = next
  /\ UNCHANGED <<disk, runs>>

\* Validation fails, a hook cancels the run, or a stage fails before it touches the caches.  What
\* fails in copy_prompt is an allocation.
Stop ==
  /\ pc \notin {"idle", "done"} /\ (pc = "copy_prompt" => "memory" \in Faults)
  /\ Leave(cache)

StartRun(r) ==
  /\ pc = "idle" /\ runs < MaxRuns /\ r.family = "h3"
  /\ pc' = "identify" /\ run' = NewRun(r) /\ runs' = runs + 1
  /\ UNCHANGED <<disk, cache>>

\* Music and still-image families clear the session and use none of it.
StartOther(r) ==
  /\ pc = "idle" /\ runs < MaxRuns /\ r.family # "h3"
  /\ cache' = EmptyCache /\ runs' = runs + 1
  /\ UNCHANGED <<disk, pc, run>>

\* The images are hashed once, before they are opened.
Identify ==
  /\ pc = "identify"
  /\ LET key == IF run.req.reuse THEN ReferenceKey(run.req) ELSE None
     IN Advance("decode", [run EXCEPT !.referenceKey = key], cache)

ReferenceHitByNumber ==
  run.req.reuse /\ cache.referenceValid /\ Len(cache.images) = Len(run.req.images)  \* mistake
ReferenceHit ==
  /\ run.req.reuse /\ cache.referenceValid
  /\ cache.referenceKey = run.referenceKey
  /\ Len(cache.images) = Len(run.req.images)

DecodeHit ==
  /\ pc = "decode" /\ ReferenceHit
  /\ Advance("find_media", [run EXCEPT !.images = cache.images, !.hit = TRUE], cache)

\* A miss drops the reference entry before it decodes into it.
DroppedKeepingValid == [cache EXCEPT !.images = <<>>]  \* mistake
Dropped == [cache EXCEPT !.referenceValid = FALSE, !.referenceKey = None, !.rows = <<>>, !.images = <<>>]

DecodeMiss ==
  /\ pc = "decode" /\ ~ReferenceHit
  /\ LET images == Loaded(run.req.images)
     IN Advance("find_media", [run EXCEPT !.images = images],
                IF run.req.reuse THEN [Dropped EXCEPT !.images = images] ELSE cache)

\* An image cannot be read or has a shape that is refused: those before it were decoded.
DecodeFails ==
  /\ pc = "decode" /\ ~ReferenceHit
  /\ \E n \in 0 .. (Len(run.req.images) - 1) :
       Leave(IF run.req.reuse
             THEN [Dropped EXCEPT !.images = SubSeq(Loaded(run.req.images), 1, n)]
             ELSE cache)

FindMedia ==
  /\ pc = "find_media"
  /\ LET key == IF run.req.reuse /\ run.req.media # None THEN MediaKey(run.req) ELSE None
     IN Advance("preflight",
                [run EXCEPT !.mediaKey = key,
                            !.media = IF key # None /\ key = cache.mediaKey THEN cache.media ELSE None],
                cache)

\* conditioning_tokenizer(): one instance serves the whole run.
TokenizerHit == cache.tokenizerKey = Identity("tokenizer")

WithTokenizer ==
  IF run.tokenizer # None THEN run
  ELSE [run EXCEPT !.tokenizer =
          IF run.req.reuse /\ TokenizerHit THEN cache.tokenizer ELSE disk["tokenizer"]]
TokenizerKept ==
  IF run.tokenizer # None \/ ~run.req.reuse \/ TokenizerHit THEN cache
  ELSE [cache EXCEPT !.tokenizerKey = Identity("tokenizer"), !.tokenizer = disk["tokenizer"]]

\* prepare_multimodal_prompt: references need the tokenizer before any checkpoint is opened.
NeedsTokenizer ==
  ~run.req.embedded /\ \/ run.req.denoise /\ (run.req.images # <<>> \/ run.req.scene # None)
                       \/ run.req.media # None

Preflight ==
  /\ pc = "preflight"
  /\ LET next == IF run.req.denoise THEN "encode_images" ELSE "done"
     IN IF NeedsTokenizer THEN Advance(next, WithTokenizer, TokenizerKept) ELSE Advance(next, run, cache)

TokenizerFails ==
  /\ \/ pc = "preflight" /\ NeedsTokenizer
     \/ pc = "prompt" /\ ~run.req.embedded
  /\ run.tokenizer = None /\ run.req.reuse /\ ~TokenizerHit
  /\ Leave([cache EXCEPT !.tokenizerKey = None, !.tokenizer = None])

\* The encoding is reused when the images were, and encoded whole.
EncodeHit == run.hit /\ Len(cache.rows) = Len(run.images)

EncodeImages ==
  /\ pc = "encode_images"
  /\ IF run.images = <<>> THEN Advance("encode_media", run, cache)
     ELSE IF EncodeHit THEN Advance("encode_media", [run EXCEPT !.rows = cache.rows], cache)
     ELSE LET rows == [k \in DOMAIN run.images |-> EncodedImage(run.images[k], run.req.arithmetic)]
          IN Advance("encode_media", [run EXCEPT !.rows = rows],
                     IF run.req.reuse
                     THEN [cache EXCEPT !.rows = rows, !.referenceKey = run.referenceKey, !.referenceValid = TRUE]
                     ELSE cache)

\* The encoder fails after some of the images, or the key cannot be copied after all of them.
EncodeImagesFails ==
  /\ pc = "encode_images" /\ run.images # <<>> /\ ~EncodeHit
  /\ \E n \in 0 .. Len(run.images) :
       LET rows == [k \in 1 .. n |-> EncodedImage(run.images[k], run.req.arithmetic)]
       IN Leave(IF run.req.reuse THEN [cache EXCEPT !.referenceValid = FALSE, !.rows = rows] ELSE cache)

\* EncodedMediaCache::store swaps key and entries in, which cannot fail.
EncodeMedia ==
  /\ pc = "encode_media"
  /\ IF run.req.media = None \/ run.media # None THEN Advance("prompt_key", run, cache)
     ELSE LET media == EncodedMedia(run.req)
          IN Advance("prompt_key", [run EXCEPT !.media = media],
                     IF run.req.reuse THEN [cache EXCEPT !.mediaKey = run.mediaKey, !.media = media]
                     ELSE cache)

\* Conditioning with an outpainting source is not kept: the source is not in any file.
CachesEveryPrompt == run.req.reuse  \* mistake
CachesPrompt == run.req.reuse /\ run.req.scene = None

ComputePromptKey ==
  /\ pc = "prompt_key"
  /\ LET images == IF run.referenceKey = None THEN <<>> ELSE run.referenceKey.images
         key == IF CachesPrompt THEN PromptKey(run.req, images) ELSE None
     IN Advance("prompt", [run EXCEPT !.promptKey = key], cache)

PromptHit == CachesPrompt /\ cache.conditioningKey = run.promptKey /\ cache.prompt # None

EncodePrompt ==
  /\ pc = "prompt"
  /\ IF run.req.embedded THEN Advance("done", [run EXCEPT !.prompt = "embedded"], cache)
     ELSE IF PromptHit THEN Advance("done", [run EXCEPT !.prompt = cache.prompt], cache)
     ELSE Advance(IF CachesPrompt THEN "store_prompt" ELSE "done",
                  [WithTokenizer EXCEPT !.prompt =
                     EncodedPrompt(run.req, WithTokenizer.tokenizer, run.images)],
                  TokenizerKept)

\* The text encoder fails: the tokenizer it needed is kept.
EncodePromptFails ==
  /\ pc = "prompt" /\ ~run.req.embedded /\ ~PromptHit
  /\ Leave(TokenizerKept)

\* The key is assigned first, then the embedding is copied.
StorePromptKey ==
  /\ pc = "store_prompt"
  /\ Advance("copy_prompt", run, [cache EXCEPT !.conditioningKey = run.promptKey])

CopyPrompt ==
  /\ pc = "copy_prompt"
  /\ Advance("done", run, [cache EXCEPT !.prompt = run.prompt])

Finish == pc = "done" /\ Leave(cache)

\* slopfab_session_clear, or GenerationSession::clear, between runs.
Clear ==
  /\ pc = "idle" /\ cache' = EmptyCache
  /\ UNCHANGED <<disk, pc, run, runs>>

\* Somebody saves another file under a path between runs, or another image during one.
Overwrite(f) ==
  /\ pc = "idle" \/ ("overwrite" \in Faults /\ f \notin {"vae", "encoder", "tokenizer"})
  /\ runs < MaxRuns \/ pc # "idle"
  /\ \E c \in Contents \ {disk[f]} : disk' = [disk EXCEPT ![f] = c]
  /\ UNCHANGED <<cache, pc, run, runs>>

SessionNext ==
  \/ \E r \in Requests : StartRun(r) \/ StartOther(r)
  \/ Stop \/ Identify \/ DecodeHit \/ DecodeMiss \/ DecodeFails \/ FindMedia
  \/ Preflight \/ TokenizerFails \/ EncodeImages \/ EncodeImagesFails \/ EncodeMedia
  \/ ComputePromptKey \/ EncodePrompt \/ EncodePromptFails
  \/ StorePromptKey \/ CopyPrompt \/ Finish \/ Clear
  \/ \E f \in Files : Overwrite(f)

----
(* Properties.                                                             *)

Contained(identities) == [k \in DOMAIN identities |-> identities[k][2]]

\* The encoded references and media the session keeps are what their keys say they were made from,
\* whichever stage of whichever earlier run failed or was cancelled.
ReferencesMatchKeys ==
  /\ cache.referenceValid =>
       /\ cache.images = Contained(cache.referenceKey.images)
       /\ cache.rows = [k \in DOMAIN cache.images |->
                          [vae |-> cache.referenceKey.vae[2], image |-> cache.images[k],
                           arithmetic |-> cache.referenceKey.arithmetic]]
  /\ cache.mediaKey # None =>
       cache.media = [cache.mediaKey EXCEPT !.vae = @[2]]

\* "Two requests share a cache entry only if every input the cached value was computed from is
\* identical" (pipeline.h): the conditioning under a key was computed from the inputs in the key.
PromptMatchesKey ==
  pc # "copy_prompt" /\ cache.conditioningKey # None /\ cache.prompt # None =>
    LET key == cache.conditioningKey
    IN cache.prompt = [encoder |-> key.encoder[2], tokenizer |-> key.tokenizer[2], prompt |-> key.prompt,
                       images |-> Contained(key.images), scene |-> None, media |-> key.media,
                       arithmetic |-> key.arithmetic]

\* Every value the session keeps between runs is the value of the key it is kept under.
CachesMatchKeys == PromptMatchesKey /\ ReferencesMatchKeys

\* A run that reuses what earlier runs left gets what it would have computed itself from its request
\* and the files as they are: nothing of another prompt, image, checkpoint, backend or source scene.
UsesOwnInputs ==
  pc = "done" =>
    LET r == run.req
    IN /\ run.images = Loaded(r.images)
       /\ r.denoise =>
            /\ run.rows = [k \in DOMAIN r.images |-> EncodedImage(disk[r.images[k]], r.arithmetic)]
            /\ r.media # None => run.media = EncodedMedia(r)
            /\ run.prompt = IF r.embedded THEN "embedded"
                            ELSE EncodedPrompt(r, disk["tokenizer"], Loaded(r.images))
=============================================================================
