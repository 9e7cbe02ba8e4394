------------------------- MODULE SessionWork_proofs -------------------------
(***************************************************************************)
(* What a generation session reuses and what it accepts, for any files,    *)
(* contents, requests, hosts and numbers of runs and settings.  The runs   *)
(* keep SessionInv: what each stage has gathered is of the files as they   *)
(* are, and what each cache holds is of the key it is found by.            *)
(***************************************************************************)
EXTENDS SessionWork, SequencePacking_proofs

----
(* Reused models: the inductive invariant.                                 *)

\* What a prompt's key says the prompt was computed from.
PromptOf(key) ==
  [encoder |-> key.encoder[2], tokenizer |-> key.tokenizer[2], prompt |-> key.prompt,
   images |-> Contained(key.images), scene |-> None, media |-> key.media, arithmetic |-> key.arithmetic]

\* Between the two assignments of a store the prompt is still that of the last key.
PromptIsOfItsKey == pc # "copy_prompt" /\ cache.prompt # None => cache.prompt = PromptOf(cache.conditioningKey)
TokenizerIsOfItsKey == cache.tokenizerKey # None => cache.tokenizer = cache.tokenizerKey[2]
CacheInv == ReferencesMatchKeys /\ TokenizerIsOfItsKey /\ PromptIsOfItsKey

\* The stages from one on, and the end of a run that was to denoise.
Denoising == {"encode_media", "prompt_key", "prompt", "store_prompt", "copy_prompt"}
Denoised == pc = "done" /\ run.req.denoise

\* What the run has gathered is of its request and of the files as they are.
ReferencesGathered ==
  /\ pc \notin {"idle", "identify"} =>
       run.referenceKey = IF run.req.reuse THEN ReferenceKey(run.req) ELSE None
  /\ pc \notin {"idle", "identify", "decode"} => run.images = Loaded(run.req.images)
  /\ pc \in {"identify", "decode"} => ~run.hit
  /\ pc \in {"find_media", "preflight", "encode_images"} =>
       /\ run.req.reuse => cache.images = run.images
       /\ run.hit => run.req.reuse /\ cache.referenceValid /\ cache.referenceKey = run.referenceKey
  /\ pc \in {"identify", "decode", "find_media", "preflight", "encode_images"} => run.rows = <<>>
  /\ pc \in Denoising \/ Denoised =>
       run.rows = [k \in DOMAIN run.req.images |-> EncodedImage(disk[run.req.images[k]], run.req.arithmetic)]

MediaGathered ==
  /\ pc \in {"preflight", "encode_images", "encode_media"} =>
       /\ run.mediaKey = IF run.req.reuse /\ run.req.media # None THEN MediaKey(run.req) ELSE None
       /\ run.media \in {None, EncodedMedia(run.req)}
  /\ pc \in Denoising \ {"encode_media"} \/ Denoised =>
       (run.req.media # None => run.media = EncodedMedia(run.req))

PromptGathered ==
  /\ pc # "idle" => run.tokenizer \in {None, disk["tokenizer"]}
  /\ pc \in {"prompt", "store_prompt", "copy_prompt"} =>
       run.promptKey = IF CachesPrompt THEN PromptKey(run.req, Identities(run.req.images)) ELSE None
  /\ pc \in {"store_prompt", "copy_prompt"} => CachesPrompt /\ ~run.req.embedded
  /\ pc \in {"store_prompt", "copy_prompt"} \/ Denoised =>
       run.prompt = IF run.req.embedded THEN "embedded"
                    ELSE EncodedPrompt(run.req, disk["tokenizer"], Loaded(run.req.images))
  /\ pc = "copy_prompt" => cache.conditioningKey = run.promptKey

SessionInv == SessionTypeOK /\ CacheInv /\ ReferencesGathered /\ MediaGathered /\ PromptGathered

RunFields == {"req", "referenceKey", "images", "rows", "hit", "mediaKey", "media", "tokenizer", "promptKey", "prompt"}
CacheFields == {"conditioningKey", "prompt", "tokenizerKey", "tokenizer", "referenceKey", "referenceValid",
                "images", "rows", "mediaKey", "media"}

\* The shapes of what a run and the session keep, and the types their inputs have.
LEMMA Shapes ==
  ASSUME SessionTypeOK
  PROVE  /\ DOMAIN run = RunFields /\ DOMAIN cache = CacheFields
         /\ run.req \in Requests /\ run.req.images \in Seq(Files) /\ disk \in [Files -> Contents]
         /\ {"vae", "encoder", "tokenizer"} \subseteq Files
<1>1. DOMAIN run = RunFields BY DEF SessionTypeOK, NoRun, NewRun, RunFields
<1>2. DOMAIN cache = CacheFields BY DEF SessionTypeOK, EmptyCache, CacheFields
<1>3. QED BY <1>1, <1>2, ReuseAssumption DEF ReuseAssumption, SessionTypeOK

\* A new run has a request and nothing else.
LEMMA RunBegins ==
  ASSUME NEW r \in Requests
  PROVE  /\ DOMAIN NewRun(r) = DOMAIN NoRun /\ NewRun(r).req = r /\ NewRun(r).images = <<>> /\ NewRun(r).rows = <<>>
         /\ ~NewRun(r).hit /\ NewRun(r).media = None /\ NewRun(r).tokenizer = None
         /\ NoRun.req \in Requests
BY ReuseAssumption DEF ReuseAssumption, NewRun, NoRun

\* An empty cache keeps nothing that could be wrong.
LEMMA EmptyIsRight ==
  ASSUME cache' = EmptyCache
  PROVE  /\ CacheInv' /\ cache'.images \in Seq(Contents) /\ cache'.referenceValid \in BOOLEAN
         /\ Len(cache'.rows) <= Len(cache'.images) /\ DOMAIN cache' = DOMAIN EmptyCache
BY DEF EmptyCache, CacheInv, ReferencesMatchKeys, TokenizerIsOfItsKey, PromptIsOfItsKey

\* A run ends with the cache "left", or with an empty one.
LEMMA LeaveKeepsInv ==
  ASSUME SessionInv, NEW left, Leave(left), pc # "idle",
         /\ left.images \in Seq(Contents) /\ left.referenceValid \in BOOLEAN
         /\ Len(left.rows) <= Len(left.images) /\ DOMAIN left = CacheFields,
         cache' = left => CacheInv'
  PROVE  SessionInv'
<1>1. CacheInv' /\ DOMAIN cache' = DOMAIN EmptyCache /\ cache'.images \in Seq(Contents)
      /\ cache'.referenceValid \in BOOLEAN /\ Len(cache'.rows) <= Len(cache'.images)
  <2>1. CASE cache' = EmptyCache BY <2>1, EmptyIsRight
  <2>2. CASE cache' = left BY <2>2 DEF EmptyCache, CacheFields
  <2>3. QED BY <2>1, <2>2 DEF Leave
<1>2. SessionTypeOK' BY <1>1, RunBegins DEF SessionInv, SessionTypeOK, Leave, NoRun
<1>3. ReferencesGathered' /\ MediaGathered' /\ PromptGathered'
  BY DEF Leave, ReferencesGathered, MediaGathered, PromptGathered, Denoising, Denoised
<1>4. QED BY <1>1, <1>2, <1>3 DEF SessionInv

LEMMA SessionInit_Inv == SessionInit => SessionInv
<1> SUFFICES ASSUME SessionInit PROVE SessionInv OBVIOUS
<1>1. SessionTypeOK
  BY RunBegins, ReuseAssumption DEF SessionInit, SessionTypeOK, EmptyCache, ReuseAssumption, NoRun
<1>2. CacheInv
  BY DEF SessionInit, EmptyCache, CacheInv, ReferencesMatchKeys, TokenizerIsOfItsKey, PromptIsOfItsKey
<1>3. QED
  BY <1>1, <1>2 DEF SessionInit, SessionInv, ReferencesGathered, MediaGathered, PromptGathered, Denoising, Denoised

----
(* Reused models: keys and what they are keys of.                          *)

\* What an identity was taken of is what is loaded, while the files stay.
LEMMA ContentsOfIdentities ==
  ASSUME SessionTypeOK, NEW paths \in Seq(Files)
  PROVE  /\ Contained(Identities(paths)) = Loaded(paths) /\ DOMAIN Loaded(paths) = DOMAIN paths
         /\ Loaded(paths) \in Seq(Contents) /\ Len(Loaded(paths)) = Len(paths)
BY DEF Contained, Identities, Identity, Loaded, SessionTypeOK

\* A key that is there is not None.
LEMMA KeysAreSome ==
  ASSUME SessionTypeOK, NEW r \in Requests
  PROVE  ReferenceKey(r) # None /\ Identity("tokenizer") # None
<1>1. \A f \in Files : Identity(f) \in Files \X Contents BY DEF Identity, SessionTypeOK
<1>2. {"vae", "tokenizer"} \subseteq Files /\ r.images \in Seq(Files)
  BY ReuseAssumption DEF ReuseAssumption
<1>3. Identities(r.images) \in Seq(Files \X Contents) BY <1>1, <1>2 DEF Identities
<1>4. QED BY <1>1, <1>2, <1>3, NoneAssumption DEF NoneAssumption, ReferenceKey

\* The encoded references of a request, for the files as they are.
RowsOf(r) == [k \in DOMAIN r.images |-> EncodedImage(disk[r.images[k]], r.arithmetic)]

\* References that are found by the request's key are those it would have decoded and encoded.
LEMMA FoundReferences ==
  ASSUME SessionTypeOK, ReferencesMatchKeys, NEW r \in Requests,
         cache.referenceValid, cache.referenceKey = ReferenceKey(r)
  PROVE  cache.images = Loaded(r.images) /\ cache.rows = RowsOf(r)
<1>1. r.images \in Seq(Files) BY ReuseAssumption DEF ReuseAssumption
<1>2. cache.images = Loaded(r.images)
  BY <1>1, ContentsOfIdentities DEF ReferencesMatchKeys, ReferenceKey
<1>3. DOMAIN Loaded(r.images) = DOMAIN r.images /\ \A k \in DOMAIN r.images : Loaded(r.images)[k] = disk[r.images[k]]
  BY <1>1 DEF Loaded
<1>4. QED BY <1>2, <1>3 DEF ReferencesMatchKeys, ReferenceKey, RowsOf, EncodedImage, Identity

\* What is encoded from the loaded images is what the key will find.
LEMMA EncodedReferences ==
  ASSUME SessionTypeOK, NEW r \in Requests, NEW images, images = Loaded(r.images)
  PROVE  /\ [k \in DOMAIN images |-> EncodedImage(images[k], r.arithmetic)] = RowsOf(r)
         /\ images = Contained(ReferenceKey(r).images)
         /\ RowsOf(r) = [k \in DOMAIN images |->
                            [vae |-> ReferenceKey(r).vae[2], image |-> images[k],
                             arithmetic |-> ReferenceKey(r).arithmetic]]
         /\ Len(RowsOf(r)) = Len(images)
<1>1. r.images \in Seq(Files) BY ReuseAssumption DEF ReuseAssumption
<1>2. DOMAIN images = DOMAIN r.images /\ \A k \in DOMAIN r.images : images[k] = disk[r.images[k]]
  BY <1>1 DEF Loaded
<1>3. images = Contained(ReferenceKey(r).images) BY <1>1, ContentsOfIdentities DEF ReferenceKey
<1>4. Len(RowsOf(r)) = Len(images) BY <1>1, <1>2, ContentsOfIdentities DEF RowsOf
<1>5. QED BY <1>2, <1>3, <1>4 DEF RowsOf, EncodedImage, ReferenceKey, Identity

\* A prompt that is found by the request's key is the one it would have encoded.
LEMMA FoundPrompt ==
  ASSUME SessionTypeOK, NEW r \in Requests, r.scene = None
  PROVE  PromptOf(PromptKey(r, Identities(r.images))) = EncodedPrompt(r, disk["tokenizer"], Loaded(r.images))
<1>1. r.images \in Seq(Files) BY ReuseAssumption DEF ReuseAssumption
<1>2. QED BY <1>1, ContentsOfIdentities DEF PromptOf, PromptKey, EncodedPrompt, Identity

\* The tokenizer of a run is the file's, whether it is loaded or found.
LEMMA OwnTokenizer ==
  ASSUME SessionInv, pc # "idle"
  PROVE  /\ WithTokenizer.tokenizer \in {None, disk["tokenizer"]}
         /\ \A f \in RunFields \ {"tokenizer"} : WithTokenizer[f] = run[f]
         /\ DOMAIN WithTokenizer = RunFields
         /\ run.tokenizer = None => WithTokenizer.tokenizer = disk["tokenizer"]
         /\ TokenizerKept.tokenizerKey # None => TokenizerKept.tokenizer = TokenizerKept.tokenizerKey[2]
         /\ \A f \in CacheFields \ {"tokenizer", "tokenizerKey"} : TokenizerKept[f] = cache[f]
         /\ DOMAIN TokenizerKept = CacheFields
<1>1. TokenizerHit => cache.tokenizer = disk["tokenizer"]
  BY KeysAreSome, Shapes DEF SessionInv, TokenizerHit, CacheInv, TokenizerIsOfItsKey, Identity
<1>2. DOMAIN run = RunFields /\ DOMAIN cache = CacheFields BY Shapes DEF SessionInv
<1>3. run.tokenizer \in {None, disk["tokenizer"]} BY DEF SessionInv, PromptGathered
<1>4. cache.tokenizerKey # None => cache.tokenizer = cache.tokenizerKey[2]
  BY DEF SessionInv, CacheInv, TokenizerIsOfItsKey
<1>5. QED
  BY <1>1, <1>2, <1>3, <1>4 DEF WithTokenizer, TokenizerKept, RunFields, CacheFields, Identity

----
(* Reused models: every step.                                              *)

LEMMA StartKeepsInv ==
  ASSUME SessionInv, NEW r \in Requests, StartRun(r) \/ StartOther(r)
  PROVE  SessionInv'
<1>1. CASE StartRun(r)
  <2>1. SessionTypeOK'
    BY <1>1, RunBegins, ReuseAssumption DEF StartRun, SessionInv, SessionTypeOK, Stages, ReuseAssumption
  <2>2. CacheInv'
    BY <1>1 DEF StartRun, SessionInv, CacheInv, ReferencesMatchKeys, TokenizerIsOfItsKey, PromptIsOfItsKey
  <2>3. ReferencesGathered' /\ MediaGathered' /\ PromptGathered'
    BY <1>1, RunBegins DEF StartRun, ReferencesGathered, MediaGathered, PromptGathered, Denoising, Denoised
  <2>4. QED BY <2>1, <2>2, <2>3 DEF SessionInv
<1>2. CASE StartOther(r)
  <2>1. SessionTypeOK' /\ CacheInv'
    BY <1>2, EmptyIsRight, ReuseAssumption DEF StartOther, SessionInv, SessionTypeOK, ReuseAssumption
  <2>2. ReferencesGathered' /\ MediaGathered' /\ PromptGathered'
    BY <1>2 DEF StartOther, ReferencesGathered, MediaGathered, PromptGathered, Denoising, Denoised
  <2>3. QED BY <2>1, <2>2 DEF SessionInv
<1>3. QED BY <1>1, <1>2

\* A run that stops or ends leaves the caches as they are.
LEMMA EndKeepsInv ==
  ASSUME SessionInv, Faults = {}, Stop \/ Finish
  PROVE  SessionInv'
<1>1. pc \notin {"idle", "copy_prompt"} /\ Leave(cache) BY DEF Stop, Finish
<1>2. cache' = cache => CacheInv'
  BY <1>1 DEF SessionInv, CacheInv, ReferencesMatchKeys, TokenizerIsOfItsKey, PromptIsOfItsKey, Leave
<1>3. QED BY <1>1, <1>2, LeaveKeepsInv, Shapes DEF SessionInv, SessionTypeOK

LEMMA IdentifyKeepsInv ==
  ASSUME SessionInv, Identify
  PROVE  SessionInv'
<1> DEFINE key == IF run.req.reuse THEN ReferenceKey(run.req) ELSE None
<1>1. /\ pc = "identify" /\ pc' = "decode" /\ run' = [run EXCEPT !.referenceKey = key]
      /\ UNCHANGED <<disk, cache, runs>>
  BY DEF Identify, Advance
<1> HIDE DEF key
<1>2. /\ DOMAIN run' = RunFields /\ run'.referenceKey = key
      /\ \A f \in RunFields \ {"referenceKey"} : run'[f] = run[f]
  BY <1>1, Shapes DEF SessionInv, RunFields
<1>3. SessionTypeOK'
  BY <1>1, <1>2, Shapes, RunBegins DEF SessionInv, SessionTypeOK, Stages, NoRun, NewRun, RunFields
<1>4. CacheInv'
  BY <1>1 DEF SessionInv, CacheInv, ReferencesMatchKeys, TokenizerIsOfItsKey, PromptIsOfItsKey
<1>5. ReferencesGathered'
  BY <1>1, <1>2 DEF SessionInv, ReferencesGathered, Denoising, Denoised, RunFields, key, ReferenceKey, Identity,
                    Identities
<1>6. MediaGathered' /\ PromptGathered'
  BY <1>1, <1>2 DEF SessionInv, MediaGathered, PromptGathered, Denoising, Denoised, RunFields
<1>7. QED BY <1>3, <1>4, <1>5, <1>6 DEF SessionInv

LEMMA DecodeKeepsInv ==
  ASSUME SessionInv, DecodeHit \/ DecodeMiss
  PROVE  SessionInv'
<1>1. run.req \in Requests /\ run.req.images \in Seq(Files) BY Shapes DEF SessionInv
<1>2. CASE DecodeHit
  <2>1. /\ pc = "decode" /\ pc' = "find_media" /\ run' = [run EXCEPT !.images = cache.images, !.hit = TRUE]
        /\ UNCHANGED <<disk, cache, runs>> /\ ReferenceHit
    BY <1>2 DEF DecodeHit, Advance
  <2>2. /\ DOMAIN run' = RunFields /\ run'.images = cache.images /\ run'.hit
        /\ \A f \in RunFields \ {"images", "hit"} : run'[f] = run[f]
    BY <2>1, Shapes DEF SessionInv, RunFields
  <2>3. SessionTypeOK'
    BY <2>1, <2>2, Shapes, RunBegins DEF SessionInv, SessionTypeOK, Stages, NoRun, NewRun, RunFields
  <2>4. CacheInv'
    BY <2>1 DEF SessionInv, CacheInv, ReferencesMatchKeys, TokenizerIsOfItsKey, PromptIsOfItsKey
  <2>5. /\ run.req.reuse /\ cache.referenceValid /\ cache.referenceKey = run.referenceKey
        /\ run.referenceKey = ReferenceKey(run.req) /\ run.rows = <<>>
    BY <2>1 DEF ReferenceHit, SessionInv, ReferencesGathered
  <2>6. cache.images = Loaded(run.req.images)
    BY <1>1, <2>5, FoundReferences DEF SessionInv, CacheInv
  <2>7. ReferencesGathered'
    BY <2>1, <2>2, <2>5, <2>6
    DEF ReferencesGathered, Denoising, Denoised, RunFields, ReferenceKey, Identity, Identities, Loaded
  <2>8. MediaGathered' /\ PromptGathered'
    BY <2>1, <2>2 DEF SessionInv, MediaGathered, PromptGathered, Denoising, Denoised, RunFields
  <2>9. QED BY <2>3, <2>4, <2>7, <2>8 DEF SessionInv
<1>3. CASE DecodeMiss
  <2> DEFINE images == Loaded(run.req.images)
  <2>1. /\ pc = "decode" /\ pc' = "find_media" /\ run' = [run EXCEPT !.images = images]
        /\ cache' = IF run.req.reuse THEN [Dropped EXCEPT !.images = images] ELSE cache
        /\ UNCHANGED <<disk, runs>>
    BY <1>3 DEF DecodeMiss, Advance
  <2>2. images \in Seq(Contents) BY <1>1, ContentsOfIdentities DEF SessionInv
  <2> HIDE DEF images
  <2>3. /\ DOMAIN run' = RunFields /\ run'.images = images
        /\ \A f \in RunFields \ {"images"} : run'[f] = run[f]
    BY <2>1, Shapes DEF SessionInv, RunFields
  <2>4. ASSUME run.req.reuse PROVE SessionTypeOK' /\ CacheInv'
    <3>1. /\ DOMAIN cache' = CacheFields /\ cache'.images = images /\ ~cache'.referenceValid /\ cache'.rows = <<>>
          /\ cache'.referenceValid \in BOOLEAN
          /\ \A f \in CacheFields \ {"referenceValid", "referenceKey", "rows", "images"} : cache'[f] = cache[f]
      BY <2>1, <2>4, Shapes DEF Dropped, SessionInv, CacheFields
    <3>2. SessionTypeOK'
      BY <2>1, <2>2, <2>3, <3>1, Shapes, RunBegins
      DEF SessionInv, SessionTypeOK, Stages, NoRun, NewRun, RunFields, EmptyCache, CacheFields
    <3>3. CacheInv'
      BY <2>1, <3>1 DEF SessionInv, CacheInv, ReferencesMatchKeys, TokenizerIsOfItsKey, PromptIsOfItsKey, CacheFields
    <3>4. QED BY <3>1, <3>2, <3>3
  <2>5. ASSUME ~run.req.reuse PROVE SessionTypeOK' /\ CacheInv'
    <3>1. SessionTypeOK'
      BY <2>1, <2>3, <2>5, Shapes, RunBegins DEF SessionInv, SessionTypeOK, Stages, NoRun, NewRun, RunFields
    <3>2. CacheInv'
      BY <2>1, <2>5 DEF SessionInv, CacheInv, ReferencesMatchKeys, TokenizerIsOfItsKey, PromptIsOfItsKey
    <3>3. QED BY <3>1, <3>2
  <2>6. SessionTypeOK' /\ CacheInv' /\ (run.req.reuse => cache'.images = images)
    <3>1. run.req.reuse => cache'.images = images
      BY <2>1, Shapes DEF Dropped, SessionInv, CacheFields
    <3>2. QED BY <2>4, <2>5, <3>1
  <2>7. ReferencesGathered'
    BY <2>1, <2>3, <2>6
    DEF SessionInv, ReferencesGathered, Denoising, Denoised, RunFields, ReferenceKey, Identity, Identities, Loaded,
        images
  <2>8. MediaGathered' /\ PromptGathered'
    BY <2>1, <2>3 DEF SessionInv, MediaGathered, PromptGathered, Denoising, Denoised, RunFields
  <2>9. QED BY <2>6, <2>7, <2>8 DEF SessionInv
<1>4. QED BY <1>2, <1>3

\* What fails before anything is found leaves the caches in order.
LEMMA FailureKeepsInv ==
  ASSUME SessionInv, DecodeFails \/ TokenizerFails \/ EncodeImagesFails \/ EncodePromptFails
  PROVE  SessionInv'
<1>1. run.req \in Requests /\ run.req.images \in Seq(Files) /\ DOMAIN cache = CacheFields
  BY Shapes DEF SessionInv
<1>2. CASE DecodeFails
  <2> DEFINE images == Loaded(run.req.images)
  <2>1. PICK n \in 0 .. (Len(run.req.images) - 1) :
          Leave(IF run.req.reuse THEN [Dropped EXCEPT !.images = SubSeq(images, 1, n)] ELSE cache)
    BY <1>2 DEF DecodeFails
  <2> DEFINE left == IF run.req.reuse THEN [Dropped EXCEPT !.images = SubSeq(images, 1, n)] ELSE cache
  <2>2. SubSeq(images, 1, n) \in Seq(Contents)
    <3>1. images \in Seq(Contents) /\ Len(images) = Len(run.req.images)
      BY <1>1, ContentsOfIdentities DEF SessionInv
    <3>2. 1 \in 1 .. Len(images) + 1 /\ n \in 1 - 1 .. Len(images) BY <2>1, <3>1
    <3>3. QED BY <3>1, <3>2
  <2> HIDE DEF images
  <2>3. run.req.reuse =>
          /\ DOMAIN left = CacheFields /\ left.images = SubSeq(images, 1, n) /\ ~left.referenceValid
          /\ left.referenceValid \in BOOLEAN /\ left.rows = <<>>
          /\ \A f \in CacheFields \ {"referenceValid", "referenceKey", "rows", "images"} : left[f] = cache[f]
    BY <1>1 DEF Dropped, CacheFields
  <2>4. ~run.req.reuse => left = cache OBVIOUS
  <2>5. Leave(left) /\ pc = "decode" BY <1>2, <2>1 DEF DecodeFails
  <2> HIDE DEF left
  <2>6. Len(<<>>) <= Len(SubSeq(images, 1, n)) BY <2>2
  <2>7. /\ left.images \in Seq(Contents) /\ left.referenceValid \in BOOLEAN /\ Len(left.rows) <= Len(left.images)
        /\ DOMAIN left = CacheFields
    BY <1>1, <2>2, <2>3, <2>4, <2>6 DEF SessionInv, SessionTypeOK
  <2>8. cache' = left => CacheInv'
    <3>1. ASSUME run.req.reuse, cache' = left
          PROVE  CacheInv'
      <4>1. /\ pc' # "copy_prompt" /\ ~cache'.referenceValid
            /\ \A f \in CacheFields \ {"referenceValid", "referenceKey", "rows", "images"} : cache'[f] = cache[f]
        BY <2>3, <2>5, <3>1 DEF Leave
      <4>2. ReferencesMatchKeys' /\ TokenizerIsOfItsKey'
        BY <4>1 DEF SessionInv, CacheInv, ReferencesMatchKeys, TokenizerIsOfItsKey, CacheFields
      <4>3. PromptIsOfItsKey' BY <2>5, <4>1 DEF SessionInv, CacheInv, PromptIsOfItsKey, CacheFields
      <4>4. QED BY <4>2, <4>3 DEF CacheInv
    <3>2. ~run.req.reuse /\ cache' = left => CacheInv'
      BY <2>4, <2>5 DEF Leave, SessionInv, CacheInv, ReferencesMatchKeys, TokenizerIsOfItsKey, PromptIsOfItsKey
    <3>3. QED BY <3>1, <3>2
  <2>9. QED BY <2>5, <2>7, <2>8, LeaveKeepsInv
<1>3. CASE TokenizerFails
  <2> DEFINE left == [cache EXCEPT !.tokenizerKey = None, !.tokenizer = None]
  <2>1. Leave(left) /\ pc \in {"preflight", "prompt"} BY <1>3 DEF TokenizerFails
  <2>2. /\ DOMAIN left = CacheFields /\ left.tokenizerKey = None
        /\ \A f \in CacheFields \ {"tokenizer", "tokenizerKey"} : left[f] = cache[f]
    BY <1>1 DEF CacheFields
  <2> HIDE DEF left
  <2>3. /\ left.images \in Seq(Contents) /\ left.referenceValid \in BOOLEAN /\ Len(left.rows) <= Len(left.images)
    BY <2>2 DEF SessionInv, SessionTypeOK, CacheFields
  <2>4. cache' = left => CacheInv'
    BY <2>1, <2>2 DEF Leave, SessionInv, CacheInv, ReferencesMatchKeys, TokenizerIsOfItsKey, PromptIsOfItsKey,
                      CacheFields
  <2>5. QED BY <2>1, <2>2, <2>3, <2>4, LeaveKeepsInv
<1>4. CASE EncodeImagesFails
  <2>1. PICK n \in 0 .. Len(run.images) :
          LET rows == [k \in 1 .. n |-> EncodedImage(run.images[k], run.req.arithmetic)]
          IN Leave(IF run.req.reuse THEN [cache EXCEPT !.referenceValid = FALSE, !.rows = rows] ELSE cache)
    BY <1>4 DEF EncodeImagesFails
  <2> DEFINE rows == [k \in 1 .. n |-> EncodedImage(run.images[k], run.req.arithmetic)]
             left == IF run.req.reuse THEN [cache EXCEPT !.referenceValid = FALSE, !.rows = rows] ELSE cache
  <2>2. Leave(left) /\ pc = "encode_images" BY <1>4, <2>1 DEF EncodeImagesFails
  <2>3. run.images \in Seq(Contents)
    BY <1>1, <2>2, ContentsOfIdentities DEF SessionInv, ReferencesGathered
  <2>4. Len(rows) <= Len(run.images)
    <3>1. n \in Nat /\ n <= Len(run.images) BY <2>1, <2>3
    <3>2. Len(rows) = n BY <3>1
    <3>3. QED BY <3>1, <3>2
  <2> HIDE DEF rows
  <2>5. run.req.reuse =>
          /\ DOMAIN left = CacheFields /\ ~left.referenceValid /\ left.referenceValid \in BOOLEAN /\ left.rows = rows
          /\ left.images = run.images
          /\ \A f \in CacheFields \ {"referenceValid", "rows"} : left[f] = cache[f]
    BY <1>1, <2>2 DEF CacheFields, SessionInv, ReferencesGathered
  <2>6. ~run.req.reuse => left = cache OBVIOUS
  <2> HIDE DEF left
  <2>7. /\ left.images \in Seq(Contents) /\ left.referenceValid \in BOOLEAN /\ Len(left.rows) <= Len(left.images)
        /\ DOMAIN left = CacheFields
    BY <1>1, <2>3, <2>4, <2>5, <2>6 DEF SessionInv, SessionTypeOK
  <2>8. cache' = left => CacheInv'
    BY <2>2, <2>5, <2>6 DEF Leave, SessionInv, CacheInv, ReferencesMatchKeys, TokenizerIsOfItsKey, PromptIsOfItsKey,
                            CacheFields
  <2>9. QED BY <2>2, <2>7, <2>8, LeaveKeepsInv
<1>5. CASE EncodePromptFails
  <2> DEFINE left == TokenizerKept
  <2>1. Leave(left) /\ pc = "prompt" BY <1>5 DEF EncodePromptFails
  <2>2. /\ left.tokenizerKey # None => left.tokenizer = left.tokenizerKey[2]
        /\ \A f \in CacheFields \ {"tokenizer", "tokenizerKey"} : left[f] = cache[f]
        /\ DOMAIN left = CacheFields
    BY <2>1, OwnTokenizer
  <2> HIDE DEF left
  <2>3. /\ left.images \in Seq(Contents) /\ left.referenceValid \in BOOLEAN /\ Len(left.rows) <= Len(left.images)
    BY <2>2 DEF SessionInv, SessionTypeOK, CacheFields
  <2>4. cache' = left => CacheInv'
    BY <2>1, <2>2 DEF Leave, SessionInv, CacheInv, ReferencesMatchKeys, TokenizerIsOfItsKey, PromptIsOfItsKey,
                      CacheFields
  <2>5. QED BY <2>1, <2>2, <2>3, <2>4, LeaveKeepsInv
<1>6. QED BY <1>2, <1>3, <1>4, <1>5

LEMMA FindMediaKeepsInv ==
  ASSUME SessionInv, FindMedia
  PROVE  SessionInv'
<1> DEFINE key == IF run.req.reuse /\ run.req.media # None THEN MediaKey(run.req) ELSE None
           media == IF key # None /\ key = cache.mediaKey THEN cache.media ELSE None
<1>1. /\ pc = "find_media" /\ pc' = "preflight" /\ run' = [run EXCEPT !.mediaKey = key, !.media = media]
      /\ UNCHANGED <<disk, cache, runs>>
  BY DEF FindMedia, Advance
<1>2. media \in {None, EncodedMedia(run.req)}
  BY DEF SessionInv, CacheInv, ReferencesMatchKeys, MediaKey, EncodedMedia, Identity
<1> HIDE DEF media
<1>3. key = IF run.req.reuse /\ run.req.media # None THEN MediaKey(run.req) ELSE None OBVIOUS
<1> HIDE DEF key
<1>4. /\ DOMAIN run' = RunFields /\ run'.mediaKey = key /\ run'.media = media
      /\ \A f \in RunFields \ {"mediaKey", "media"} : run'[f] = run[f]
  BY <1>1, Shapes DEF SessionInv, RunFields
<1>5. SessionTypeOK'
  BY <1>1, <1>4, Shapes, RunBegins DEF SessionInv, SessionTypeOK, Stages, NoRun, NewRun, RunFields
<1>6. CacheInv'
  BY <1>1 DEF SessionInv, CacheInv, ReferencesMatchKeys, TokenizerIsOfItsKey, PromptIsOfItsKey
<1>7. ReferencesGathered'
  BY <1>1, <1>4 DEF SessionInv, ReferencesGathered, Denoising, Denoised, RunFields, ReferenceKey, Identity,
                    Identities,
                    Loaded
<1>8. MediaGathered'
  BY <1>1, <1>2, <1>3, <1>4 DEF MediaGathered, Denoising, Denoised, RunFields, MediaKey, EncodedMedia, Identity
<1>9. PromptGathered' BY <1>1, <1>4 DEF SessionInv, PromptGathered, Denoising, Denoised, RunFields
<1>10. QED BY <1>5, <1>6, <1>7, <1>8, <1>9 DEF SessionInv

LEMMA PreflightKeepsInv ==
  ASSUME SessionInv, Preflight
  PROVE  SessionInv'
<1>1. /\ pc = "preflight" /\ pc' = (IF run.req.denoise THEN "encode_images" ELSE "done")
      /\ \/ run' = WithTokenizer /\ cache' = TokenizerKept
         \/ UNCHANGED <<run, cache>>
      /\ UNCHANGED <<disk, runs>>
  BY DEF Preflight, Advance
<1>2. /\ DOMAIN run' = RunFields /\ run'.tokenizer \in {None, disk["tokenizer"]}
      /\ \A f \in RunFields \ {"tokenizer"} : run'[f] = run[f]
      /\ DOMAIN cache' = CacheFields /\ (cache'.tokenizerKey # None => cache'.tokenizer = cache'.tokenizerKey[2])
      /\ \A f \in CacheFields \ {"tokenizer", "tokenizerKey"} : cache'[f] = cache[f]
  <2>1. CASE run' = WithTokenizer /\ cache' = TokenizerKept BY <1>1, <2>1, OwnTokenizer
  <2>2. CASE UNCHANGED <<run, cache>>
    BY <1>1, <2>2, Shapes DEF SessionInv, PromptGathered, CacheInv, TokenizerIsOfItsKey
  <2>3. QED BY <1>1, <2>1, <2>2
<1>3. SessionTypeOK'
  BY <1>1, <1>2, Shapes, RunBegins
  DEF SessionInv, SessionTypeOK, Stages, NoRun, NewRun, RunFields, EmptyCache, CacheFields
<1>4. CacheInv'
  BY <1>1, <1>2 DEF SessionInv, CacheInv, ReferencesMatchKeys, TokenizerIsOfItsKey, PromptIsOfItsKey, CacheFields
<1>5. ReferencesGathered'
  BY <1>1, <1>2 DEF SessionInv, ReferencesGathered, Denoising, Denoised, RunFields, CacheFields, ReferenceKey,
                    Identity,
                    Identities, Loaded
<1>6. MediaGathered'
  BY <1>1, <1>2 DEF SessionInv, MediaGathered, Denoising, Denoised, RunFields, MediaKey, EncodedMedia, Identity
<1>7. PromptGathered' BY <1>1, <1>2 DEF SessionInv, PromptGathered, Denoising, Denoised, RunFields
<1>8. QED BY <1>3, <1>4, <1>5, <1>6, <1>7 DEF SessionInv

LEMMA EncodeImagesKeepsInv ==
  ASSUME SessionInv, EncodeImages
  PROVE  SessionInv'
<1>1. run.req \in Requests /\ run.req.images \in Seq(Files) /\ DOMAIN cache = CacheFields /\ DOMAIN run = RunFields
  BY Shapes DEF SessionInv
<1>2. pc = "encode_images" /\ pc' = "encode_media" /\ UNCHANGED <<disk, runs>>
  BY DEF EncodeImages, Advance
<1>3. run.images = Loaded(run.req.images) /\ run.images \in Seq(Contents) /\ run.rows = <<>>
  BY <1>1, <1>2, ContentsOfIdentities DEF SessionInv, ReferencesGathered
<1> DEFINE rows == [k \in DOMAIN run.images |-> EncodedImage(run.images[k], run.req.arithmetic)]
<1>4. /\ rows = RowsOf(run.req) /\ Len(rows) = Len(run.images)
      /\ run.images = Contained(ReferenceKey(run.req).images)
      /\ rows = [k \in DOMAIN run.images |-> [vae |-> ReferenceKey(run.req).vae[2], image |-> run.images[k],
                                              arithmetic |-> ReferenceKey(run.req).arithmetic]]
  BY <1>1, <1>3, EncodedReferences DEF SessionInv
<1>5. /\ DOMAIN run' = RunFields /\ run'.rows = RowsOf(run.req)
      /\ \A f \in RunFields \ {"rows"} : run'[f] = run[f]
  <2>1. CASE run.images = <<>>
    <3>1. run' = run BY <2>1 DEF EncodeImages, Advance
    <3>2. DOMAIN run.req.images = {}
      <4>1. DOMAIN Loaded(run.req.images) = DOMAIN run.req.images
        BY <1>1, ContentsOfIdentities DEF SessionInv
      <4>2. Loaded(run.req.images) = <<>> BY <1>3, <2>1
      <4>3. DOMAIN <<>> = {} OBVIOUS
      <4>4. QED BY <4>1, <4>2, <4>3
    <3>3. RowsOf(run.req) = <<>> BY <3>2 DEF RowsOf
    <3>4. QED BY <1>1, <1>3, <3>1, <3>3
  <2>2. CASE run.images # <<>> /\ EncodeHit
    <3>1. run' = [run EXCEPT !.rows = cache.rows] BY <2>2 DEF EncodeImages, Advance
    <3>2. cache.referenceValid /\ cache.referenceKey = ReferenceKey(run.req)
      BY <1>2, <2>2 DEF EncodeHit, SessionInv, ReferencesGathered
    <3>3. cache.rows = RowsOf(run.req) BY <1>1, <3>2, FoundReferences DEF SessionInv, CacheInv
    <3>4. QED BY <1>1, <3>1, <3>3 DEF RunFields
  <2>3. CASE run.images # <<>> /\ ~EncodeHit
    <3>1. run' = [run EXCEPT !.rows = rows] BY <2>3 DEF EncodeImages, Advance
    <3>2. QED BY <1>1, <1>4, <3>1 DEF RunFields
  <2>4. QED BY <2>1, <2>2, <2>3
<1>6. /\ cache'.images = cache.images /\ cache'.referenceValid \in BOOLEAN /\ Len(cache'.rows) <= Len(cache'.images)
      /\ DOMAIN cache' = CacheFields /\ ReferencesMatchKeys'
      /\ \A f \in CacheFields \ {"rows", "referenceKey", "referenceValid"} : cache'[f] = cache[f]
  <2>1. CASE cache' = cache
    BY <1>1, <2>1 DEF SessionInv, SessionTypeOK, CacheInv, ReferencesMatchKeys
  <2>2. CASE /\ run.req.reuse
             /\ cache' = [cache EXCEPT !.rows = rows, !.referenceKey = run.referenceKey, !.referenceValid = TRUE]
    <3> HIDE DEF rows
    <3>1. cache.images = run.images /\ run.referenceKey = ReferenceKey(run.req)
      BY <1>2, <2>2 DEF SessionInv, ReferencesGathered
    <3>2. /\ cache'.rows = rows /\ cache'.referenceKey = ReferenceKey(run.req) /\ cache'.referenceValid = TRUE
          /\ DOMAIN cache' = CacheFields
          /\ \A f \in CacheFields \ {"rows", "referenceKey", "referenceValid"} : cache'[f] = cache[f]
      BY <1>1, <2>2, <3>1 DEF CacheFields
    <3>3. cache'.images = run.images BY <3>1, <3>2 DEF CacheFields
    <3>4. Len(cache'.rows) <= Len(cache'.images) BY <1>3, <1>4, <3>2, <3>3
    <3>5. ReferencesMatchKeys'
      BY <1>4, <3>2, <3>3 DEF SessionInv, CacheInv, ReferencesMatchKeys, CacheFields
    <3>6. QED BY <3>1, <3>2, <3>3, <3>4, <3>5
  <2>3. QED BY <2>1, <2>2 DEF EncodeImages, Advance
<1> HIDE DEF rows
<1>7. SessionTypeOK'
  BY <1>2, <1>5, <1>6, Shapes, RunBegins
  DEF SessionInv, SessionTypeOK, Stages, NoRun, NewRun, RunFields, EmptyCache, CacheFields
<1>8. CacheInv'
  BY <1>2, <1>6 DEF SessionInv, CacheInv, TokenizerIsOfItsKey, PromptIsOfItsKey, CacheFields
<1>9. ReferencesGathered'
  BY <1>2, <1>5 DEF SessionInv, ReferencesGathered, Denoising, Denoised, RunFields, ReferenceKey, Identity,
                    Identities,
                    Loaded, RowsOf, EncodedImage
<1>10. MediaGathered'
  BY <1>2, <1>5 DEF SessionInv, MediaGathered, Denoising, Denoised, RunFields, MediaKey, EncodedMedia, Identity
<1>11. PromptGathered' BY <1>2, <1>5 DEF SessionInv, PromptGathered, Denoising, Denoised, RunFields
<1>12. QED BY <1>7, <1>8, <1>9, <1>10, <1>11 DEF SessionInv

LEMMA EncodeMediaKeepsInv ==
  ASSUME SessionInv, EncodeMedia
  PROVE  SessionInv'
<1>1. pc = "encode_media" /\ pc' = "prompt_key" /\ UNCHANGED <<disk, runs>>
  BY DEF EncodeMedia, Advance
<1>2. DOMAIN run = RunFields /\ DOMAIN cache = CacheFields BY Shapes DEF SessionInv
<1>3. /\ run.mediaKey = IF run.req.reuse /\ run.req.media # None THEN MediaKey(run.req) ELSE None
      /\ run.media \in {None, EncodedMedia(run.req)}
  BY <1>1 DEF SessionInv, MediaGathered, Denoising
<1>4. /\ DOMAIN run' = RunFields /\ (run.req.media # None => run'.media = EncodedMedia(run.req))
      /\ \A f \in RunFields \ {"media"} : run'[f] = run[f]
  BY <1>2, <1>3 DEF EncodeMedia, Advance, RunFields
<1>5. /\ DOMAIN cache' = CacheFields
      /\ \A f \in CacheFields \ {"mediaKey", "media"} : cache'[f] = cache[f]
      /\ cache'.mediaKey # None => cache'.media = [cache'.mediaKey EXCEPT !.vae = @[2]]
  <2>1. CASE cache' = cache BY <1>2, <2>1 DEF SessionInv, CacheInv, ReferencesMatchKeys
  <2>2. CASE /\ run.req.media # None /\ run.req.reuse
             /\ cache' = [cache EXCEPT !.mediaKey = run.mediaKey, !.media = EncodedMedia(run.req)]
    <3>1. run.mediaKey = MediaKey(run.req) BY <1>3, <2>2
    <3>2. EncodedMedia(run.req) = [MediaKey(run.req) EXCEPT !.vae = @[2]]
      BY DEF EncodedMedia, MediaKey, Identity
    <3>3. QED BY <1>2, <2>2, <3>1, <3>2 DEF CacheFields
  <2>3. QED BY <2>1, <2>2 DEF EncodeMedia, Advance
<1>6. SessionTypeOK'
  BY <1>1, <1>4, <1>5, Shapes, RunBegins
  DEF SessionInv, SessionTypeOK, Stages, NoRun, NewRun, RunFields, EmptyCache, CacheFields
<1>7. CacheInv'
  BY <1>1, <1>5 DEF SessionInv, CacheInv, ReferencesMatchKeys, TokenizerIsOfItsKey, PromptIsOfItsKey, CacheFields
<1>8. ReferencesGathered'
  BY <1>1, <1>4 DEF SessionInv, ReferencesGathered, Denoising, Denoised, RunFields, ReferenceKey, Identity,
                    Identities,
                    Loaded, EncodedImage
<1>9. MediaGathered' BY <1>1, <1>4 DEF MediaGathered, Denoising, Denoised, RunFields, EncodedMedia
<1>10. PromptGathered' BY <1>1, <1>4 DEF SessionInv, PromptGathered, Denoising, Denoised, RunFields
<1>11. QED BY <1>6, <1>7, <1>8, <1>9, <1>10 DEF SessionInv

LEMMA ComputePromptKeyKeepsInv ==
  ASSUME SessionInv, ComputePromptKey
  PROVE  SessionInv'
<1> DEFINE images == IF run.referenceKey = None THEN <<>> ELSE run.referenceKey.images
           key == IF CachesPrompt THEN PromptKey(run.req, images) ELSE None
<1>1. /\ pc = "prompt_key" /\ pc' = "prompt" /\ run' = [run EXCEPT !.promptKey = key]
      /\ UNCHANGED <<disk, cache, runs>>
  BY DEF ComputePromptKey, Advance
<1>2. CachesPrompt => images = Identities(run.req.images)
  <2>1. run.req.reuse => run.referenceKey = ReferenceKey(run.req) /\ ReferenceKey(run.req) # None
    BY <1>1, KeysAreSome, Shapes DEF SessionInv, ReferencesGathered
  <2>2. QED BY <2>1 DEF CachesPrompt, ReferenceKey
<1> HIDE DEF images
<1>3. key = IF CachesPrompt THEN PromptKey(run.req, Identities(run.req.images)) ELSE None BY <1>2
<1> HIDE DEF key
<1>4. /\ DOMAIN run' = RunFields /\ run'.promptKey = key
      /\ \A f \in RunFields \ {"promptKey"} : run'[f] = run[f]
  BY <1>1, Shapes DEF SessionInv, RunFields
<1>5. SessionTypeOK'
  BY <1>1, <1>4, Shapes, RunBegins DEF SessionInv, SessionTypeOK, Stages, NoRun, NewRun, RunFields
<1>6. CacheInv'
  BY <1>1 DEF SessionInv, CacheInv, ReferencesMatchKeys, TokenizerIsOfItsKey, PromptIsOfItsKey
<1>7. ReferencesGathered' /\ MediaGathered'
  BY <1>1, <1>4 DEF SessionInv, ReferencesGathered, MediaGathered, Denoising, Denoised, RunFields, ReferenceKey,
                    Identity, Identities, Loaded, EncodedImage, EncodedMedia
<1>8. PromptGathered'
  <2>1. run'.req = run.req /\ run'.tokenizer = run.tokenizer /\ disk' = disk /\ run'.promptKey = key
    BY <1>1, <1>4 DEF RunFields
  <2>2. QED
    BY <1>1, <1>3, <2>1 DEF SessionInv, PromptGathered, Denoising, Denoised, CachesPrompt, PromptKey, Identity,
                            Identities
<1>9. QED BY <1>5, <1>6, <1>7, <1>8 DEF SessionInv

LEMMA EncodePromptKeepsInv ==
  ASSUME SessionInv, EncodePrompt
  PROVE  SessionInv'
<1> DEFINE own == EncodedPrompt(run.req, disk["tokenizer"], Loaded(run.req.images))
<1>1. /\ pc = "prompt" /\ UNCHANGED <<disk, runs>>
      /\ \/ pc' = "done"
         \/ pc' = "store_prompt" /\ CachesPrompt /\ ~run.req.embedded
  BY DEF EncodePrompt, Advance
<1>2. run.req \in Requests /\ DOMAIN run = RunFields /\ DOMAIN cache = CacheFields
  BY Shapes DEF SessionInv
<1>3. /\ DOMAIN run' = RunFields /\ run'.tokenizer \in {None, disk["tokenizer"]}
      /\ run'.prompt = IF run.req.embedded THEN "embedded" ELSE own
      /\ \A f \in RunFields \ {"tokenizer", "prompt"} : run'[f] = run[f]
      /\ DOMAIN cache' = CacheFields /\ (cache'.tokenizerKey # None => cache'.tokenizer = cache'.tokenizerKey[2])
      /\ \A f \in CacheFields \ {"tokenizer", "tokenizerKey"} : cache'[f] = cache[f]
  <2>1. CASE run.req.embedded
    <3>1. run' = [run EXCEPT !.prompt = "embedded"] /\ cache' = cache
      BY <2>1 DEF EncodePrompt, Advance
    <3>2. QED
      BY <1>1, <1>2, <2>1, <3>1 DEF SessionInv, PromptGathered, CacheInv, TokenizerIsOfItsKey, RunFields
  <2>2. CASE ~run.req.embedded /\ PromptHit
    <3>1. run' = [run EXCEPT !.prompt = cache.prompt] /\ cache' = cache
      BY <2>2 DEF EncodePrompt, Advance
    <3>2. cache.prompt = own
      <4>1. cache.prompt = PromptOf(cache.conditioningKey)
        BY <1>1, <2>2 DEF SessionInv, CacheInv, PromptIsOfItsKey, PromptHit
      <4>2. cache.conditioningKey = PromptKey(run.req, Identities(run.req.images)) /\ run.req.scene = None
        BY <1>1, <2>2 DEF SessionInv, PromptGathered, PromptHit, CachesPrompt
      <4>3. QED BY <1>2, <4>1, <4>2, FoundPrompt DEF SessionInv
    <3> HIDE DEF own
    <3>3. QED
      BY <1>1, <1>2, <2>2, <3>1, <3>2 DEF SessionInv, PromptGathered, CacheInv, TokenizerIsOfItsKey, RunFields
  <2>3. CASE ~run.req.embedded /\ ~PromptHit
    <3> DEFINE with == WithTokenizer
    <3>1. /\ run' = [with EXCEPT !.prompt = EncodedPrompt(run.req, with.tokenizer, run.images)]
          /\ cache' = TokenizerKept
      BY <2>3 DEF EncodePrompt, Advance
    <3>2. /\ with.tokenizer = IF run.tokenizer # None THEN run.tokenizer ELSE disk["tokenizer"]
          /\ \A f \in RunFields \ {"tokenizer"} : with[f] = run[f]
          /\ DOMAIN with = RunFields
      <4>1. run.tokenizer # None => with = run BY DEF WithTokenizer
      <4>2. QED BY <1>1, <4>1, OwnTokenizer
    <3>3. with.tokenizer = disk["tokenizer"] BY <1>1, <3>2 DEF SessionInv, PromptGathered
    <3>4. run.images = Loaded(run.req.images) BY <1>1 DEF SessionInv, ReferencesGathered
    <3> HIDE DEF with
    <3>5. EncodedPrompt(run.req, with.tokenizer, run.images) = own BY <3>3, <3>4
    <3> HIDE DEF own
    <3>6. /\ DOMAIN run' = RunFields /\ run'.prompt = own /\ run'.tokenizer = disk["tokenizer"]
          /\ \A f \in RunFields \ {"tokenizer", "prompt"} : run'[f] = run[f]
      BY <3>1, <3>2, <3>3, <3>5 DEF RunFields
    <3>7. QED BY <1>1, <2>3, <3>1, <3>6, OwnTokenizer
  <2>4. QED BY <2>1, <2>2, <2>3
<1>4. SessionTypeOK'
  BY <1>1, <1>3, Shapes, RunBegins
  DEF SessionInv, SessionTypeOK, Stages, NoRun, NewRun, RunFields, EmptyCache, CacheFields
<1>5. CacheInv'
  BY <1>1, <1>3 DEF SessionInv, CacheInv, ReferencesMatchKeys, TokenizerIsOfItsKey, PromptIsOfItsKey, CacheFields
<1> HIDE DEF own
<1>6. ReferencesGathered' /\ MediaGathered'
  BY <1>1, <1>3 DEF SessionInv, ReferencesGathered, MediaGathered, Denoising, Denoised, RunFields, ReferenceKey,
                    Identity, Identities, Loaded, EncodedImage, EncodedMedia
<1>7. PromptGathered'
  <2>1. /\ run'.req = run.req /\ disk' = disk /\ run'.promptKey = run.promptKey
        /\ EncodedPrompt(run.req, disk["tokenizer"], Loaded(run.req.images))' = own
    BY <1>1, <1>3 DEF RunFields, own, EncodedPrompt, Loaded
  <2>2. CachesPrompt' = CachesPrompt BY <2>1 DEF CachesPrompt
  <2>3. PromptKey(run.req, Identities(run.req.images))' = PromptKey(run.req, Identities(run.req.images))
    BY <2>1 DEF PromptKey, Identity, Identities
  <2>4. QED BY <1>1, <1>3, <2>1, <2>2, <2>3 DEF SessionInv, PromptGathered, Denoising, Denoised
<1>8. QED BY <1>4, <1>5, <1>6, <1>7 DEF SessionInv

\* The key is assigned, then the embedding: in between only the run's own stage sees the entry.
LEMMA StoreKeepsInv ==
  ASSUME SessionInv, StorePromptKey \/ CopyPrompt
  PROVE  SessionInv'
<1>1. /\ \/ pc = "store_prompt" /\ pc' = "copy_prompt" /\ cache' = [cache EXCEPT !.conditioningKey = run.promptKey]
         \/ pc = "copy_prompt" /\ pc' = "done" /\ cache' = [cache EXCEPT !.prompt = run.prompt]
      /\ UNCHANGED <<disk, run, runs>>
  BY DEF StorePromptKey, CopyPrompt, Advance
<1>2. run.req \in Requests /\ DOMAIN cache = CacheFields BY Shapes DEF SessionInv
<1>3. /\ DOMAIN cache' = CacheFields
      /\ \A f \in CacheFields \ {"conditioningKey", "prompt"} : cache'[f] = cache[f]
      /\ pc = "store_prompt" => cache'.conditioningKey = run.promptKey
      /\ pc = "copy_prompt" => cache'.prompt = run.prompt /\ cache'.conditioningKey = cache.conditioningKey
  BY <1>1, <1>2 DEF CacheFields
<1>4. pc = "copy_prompt" => cache'.prompt = PromptOf(cache'.conditioningKey)
  <2> SUFFICES ASSUME pc = "copy_prompt" PROVE run.prompt = PromptOf(cache.conditioningKey) BY <1>3
  <2>1. /\ run.prompt = EncodedPrompt(run.req, disk["tokenizer"], Loaded(run.req.images))
        /\ cache.conditioningKey = PromptKey(run.req, Identities(run.req.images)) /\ run.req.scene = None
    BY DEF SessionInv, PromptGathered, CachesPrompt
  <2>2. QED BY <1>2, <2>1, FoundPrompt DEF SessionInv
<1>5. SessionTypeOK'
  BY <1>1, <1>3, Shapes DEF SessionInv, SessionTypeOK, Stages, EmptyCache, CacheFields, NoRun, NewRun
<1>6. CacheInv'
  BY <1>1, <1>3, <1>4 DEF SessionInv, CacheInv, ReferencesMatchKeys, TokenizerIsOfItsKey, PromptIsOfItsKey, PromptOf,
                          Contained, CacheFields
<1>7. ReferencesGathered' /\ MediaGathered'
  BY <1>1 DEF SessionInv, ReferencesGathered, MediaGathered, Denoising, Denoised, ReferenceKey, Identity, Identities,
              Loaded, EncodedImage, EncodedMedia
<1>8. PromptGathered'
  BY <1>1, <1>3 DEF SessionInv, PromptGathered, Denoising, Denoised, CachesPrompt, PromptKey, Identity, Identities,
                    Loaded, EncodedPrompt
<1>9. QED BY <1>5, <1>6, <1>7, <1>8 DEF SessionInv

\* Between runs the session may be cleared and files may be saved: keys name contents, not paths.
LEMMA BetweenRunsKeepsInv ==
  ASSUME SessionInv, Faults = {}, Clear \/ \E f \in Files : Overwrite(f)
  PROVE  SessionInv'
<1>1. pc = "idle" /\ UNCHANGED <<pc, run, runs>> BY DEF Clear, Overwrite
<1>2. SessionTypeOK' /\ CacheInv'
  <2>1. CASE Clear BY <2>1, EmptyIsRight DEF Clear, SessionInv, SessionTypeOK, NoRun, NewRun
  <2>2. CASE \E f \in Files : Overwrite(f)
    <3>1. disk' \in [Files -> Contents] /\ cache' = cache
      BY <2>2 DEF Overwrite, SessionInv, SessionTypeOK
    <3>2. QED
      BY <1>1, <3>1 DEF SessionInv, SessionTypeOK, NoRun, NewRun, EmptyCache, CacheInv, ReferencesMatchKeys,
                        TokenizerIsOfItsKey, PromptIsOfItsKey
  <2>3. QED BY <2>1, <2>2
<1>3. ReferencesGathered' /\ MediaGathered' /\ PromptGathered'
  BY <1>1 DEF ReferencesGathered, MediaGathered, PromptGathered, Denoising, Denoised
<1>4. QED BY <1>2, <1>3 DEF SessionInv

LEMMA SessionStepKeepsInv ==
  ASSUME SessionInv, Faults = {}, [SessionNext]_sessionVars
  PROVE  SessionInv'
<1>1. CASE SessionNext
  BY <1>1, StartKeepsInv, EndKeepsInv, IdentifyKeepsInv, DecodeKeepsInv, FailureKeepsInv, FindMediaKeepsInv,
     PreflightKeepsInv, EncodeImagesKeepsInv, EncodeMediaKeepsInv, ComputePromptKeyKeepsInv, EncodePromptKeepsInv,
     StoreKeepsInv, BetweenRunsKeepsInv DEF SessionNext
<1>2. CASE UNCHANGED sessionVars
  <2>1. SessionTypeOK' /\ CacheInv'
    BY <1>2 DEF sessionVars, SessionInv, SessionTypeOK, CacheInv, ReferencesMatchKeys, TokenizerIsOfItsKey,
                PromptIsOfItsKey, EmptyCache, NoRun, NewRun
  <2>2. ReferencesGathered' /\ MediaGathered'
    BY <1>2 DEF sessionVars, SessionInv, ReferencesGathered, MediaGathered, Denoising, Denoised, ReferenceKey,
                Identity,
                Identities, Loaded, EncodedImage, MediaKey, EncodedMedia
  <2>3. PromptGathered'
    BY <1>2 DEF sessionVars, SessionInv, PromptGathered, Denoising, Denoised, CachesPrompt, PromptKey, Identity,
                Identities, Loaded, EncodedPrompt
  <2>4. QED BY <2>1, <2>2, <2>3 DEF SessionInv
<1>3. QED BY <1>1, <1>2

LEMMA InvKeepsPromises ==
  ASSUME SessionInv
  PROVE  SessionTypeOK /\ CachesMatchKeys /\ UsesOwnInputs
<1>1. CachesMatchKeys
  BY DEF SessionInv, CacheInv, CachesMatchKeys, PromptMatchesKey, PromptIsOfItsKey, PromptOf
<1>2. UsesOwnInputs
  BY DEF SessionInv, ReferencesGathered, MediaGathered, PromptGathered, Denoised, UsesOwnInputs
<1>3. QED BY <1>1, <1>2 DEF SessionInv

\* In every behaviour in which memory does not run out while a prompt is stored and no image is saved
\* during a run (generate.cpp, session_state.h; the two runs with a fault show what happens otherwise).
LEMMA SessionInvHolds ==
  ASSUME Faults = {}
  PROVE  Spec => []SessionInv
<1>1. Init => SessionInv BY SessionInit_Inv DEF Init
<1>2. SessionInv /\ [Next]_vars => SessionInv'
  <2> SUFFICES ASSUME SessionInv, [Next]_vars PROVE SessionInv' OBVIOUS
  <2>1. [SessionNext]_sessionVars BY DEF Next, vars, sessionVars
  <2>2. QED BY <2>1, SessionStepKeepsInv
<1>3. QED BY <1>1, <1>2, PTL DEF Spec

\* A run that is done has the references, media and conditioning of its own request and of the files
\* as they are, whatever earlier runs left behind (generate.cpp, generation/prompt.cpp).
THEOREM RunsUseTheirOwnInputs ==
  ASSUME Faults = {}
  PROVE  Spec => []UsesOwnInputs
<1>1. SessionInv => UsesOwnInputs BY InvKeepsPromises
<1>2. QED BY <1>1, SessionInvHolds, PTL

\* What the session keeps is what its keys say, whichever stage of whichever run failed
\* (generation/session_state.h, pipeline.cpp).
THEOREM CachesAreOfTheirKeys ==
  ASSUME Faults = {}
  PROVE  Spec => []CachesMatchKeys
<1>1. SessionInv => CachesMatchKeys BY InvKeepsPromises
<1>2. QED BY <1>1, SessionInvHolds, PTL

----
(* Requests, for any request, checkpoint, backend and command line.        *)

\* An accepted request of a distilled model or adapter runs as that was trained.
LEMMA DistilledAccepted ==
  ASSUME NEW r, NEW h, Accepted(r, h)
  PROVE  /\ r.lora = "hyperflow" =>
              /\ Sampling(r, h).grid = "hyperflow" /\ Sampling(r, h).shifts = "hyperflow"
              /\ h.model.architecture # "FastH3V2" /\ ~h.model.pdd
         /\ h.model.architecture = "FastH3V2" =>
              Sampling(r, h).grid = "fast" /\ Sampling(r, h).shifts = "fast" /\ ~h.model.pdd
         /\ h.model.pdd => Sampling(r, h).grid = "unset" /\ Sampling(r, h).shifts = "default"
         /\ h.model.pdd \/ h.model.architecture = "FastH3V2" \/ r.lora = "hyperflow" =>
              /\ Sampling(r, h).audioSteps = "unset" /\ Sampling(r, h).scheduler # "beta"
              /\ Sampler(r, h) = "euler" /\ ~Approximates(r, h)
BY DEF Accepted, ResolveOk, SamplingOk, HyperflowOk, FastOk, PddOk, OptionsOk, SamplerOk

\* Whatever setters made the request and whatever the command line adds, a start that is accepted
\* keeps a distilled model's or adapter's grid, shifts, sampler and exact steps (sampling_plan.cpp).
THEOREM DistilledRunsAsTrained == Spec => []DistilledKeepsItsRecipe
<1>1. DistilledKeepsItsRecipe
  BY DistilledAccepted
  DEF DistilledKeepsItsRecipe, DefaultSampling, FastSampling, HyperflowSampling, NoSampling
<1>2. QED BY <1>1, PTL

\* A request that holds latents in place is neither an edit nor pinned, and is not approximated.
LEMMA HeldAlone ==
  ASSUME NEW r, NEW h, Accepted(r, h), Held(r)
  PROVE  ~Editing(r) /\ Recipe(r).pin # "yes" /\ ~Approximates(r, h)
<1>1. AnchorsOk(r, h) /\ EditOk(r) /\ ContinuationOk(r, h) /\ ConditioningOk(r)
  BY DEF Accepted, ResolveOk
<1>2. CASE r.bridge BY <1>1, <1>2 DEF AnchorsOk, ConditioningOk
<1>3. CASE r.endLatents BY <1>1, <1>3 DEF AnchorsOk, ConditioningOk
<1>4. CASE r.continuation
  <2>1. ~Editing(r) /\ Recipe(r).pin # "yes" BY <1>1, <1>4 DEF EditOk, ConditioningOk
  <2>2. QED BY <1>1, <2>1 DEF Held, AnchorsOk, ContinuationOk
<1>5. QED BY <1>1, <1>2, <1>3, <1>4 DEF Held, AnchorsOk, ContinuationOk

\* What the loop of either backend would refuse is refused at the start.
LEMMA LoopAccepts ==
  ASSUME NEW r, NEW h, Accepted(r, h), Denoises(r)
  PROVE  ~LoopRefused(r, h)
<1>1. ~(Held(r) /\ (Editing(r) \/ Recipe(r).pin = "yes" \/ Approximates(r, h))) BY HeldAlone
<1>2. ~(Sampling(r, h).audioSteps # "unset" /\ ~h.model.pdd /\
          (Recipe(r).pin = "yes" \/ ~TargetAudio(r) \/ Approximates(r, h)))
  BY DEF Accepted, ResolveOk, SamplingOk, TargetAudio
<1>3. ~(Recipe(r).pin = "yes" /\ ~TargetAudio(r))
  BY DEF Accepted, ResolveOk, ConditioningOk, TargetAudio
<1>4. /\ ~(Editing(r) /\ h.initLatents)
      /\ ~(Refines(r) /\ (Sampler(r, h) \notin {"euler", "renoise"} \/ Approximates(r, h)))
  BY DEF Accepted, OptionsOk, EditOptionsOk, FreshNoise, Refines, Editing
<1>5. /\ ~(Stochastic(r, h) /\ Approximates(r, h))
      /\ ~(r.motion /\ (h.caches # "none" \/ Sampler(r, h) # "euler"))
  BY DEF Accepted, OptionsOk, CachesOk
<1>6. ~(h.model.vsa /\ (h.band \/ r.motion)) BY DEF Accepted, OptionsOk, AttentionOk, Approximates
<1>7. ~(h.model.pdd /\ (Sampler(r, h) # "euler" \/ Approximates(r, h))) BY DistilledAccepted
<1>8. QED BY <1>1, <1>2, <1>3, <1>4, <1>5, <1>6, <1>7 DEF LoopRefused

\* So is what the stages before the loop would refuse.
LEMMA ReferencesAccepted ==
  ASSUME NEW r, NEW h, Accepted(r, h)
  PROVE  ~ReferencesRefused(r, h)
<1>1. ~(HasReferences(r) /\ ~h.model.references) BY DEF Accepted, ResolveOk, ModelOk
<1>2. ~(r.lcs = "tone" /\ ~r.endLatents) BY DEF Accepted, OptionsOk, LcsOk
<1>3. ASSUME Recipe(r).videoFirst = "yes"
      PROVE  r.images = 1 /\ Len(r.media) = 1 /\ IsVideo(r.media[1]) /\ ~ConditionAudio(r)
  BY <1>3 DEF Accepted, ResolveOk, ConditioningOk, ConditionAudio
<1>4. QED BY <1>1, <1>2, <1>3 DEF ReferencesRefused

\* What a backend would refuse on its own account, but for the still with audio on Vulkan.
LEMMA BackendsAccept ==
  ASSUME NEW r, NEW h, Accepted(r, h), Denoises(r)
  PROVE  ~CudaRefused(r, h) /\ (h.backend = "vulkan" => (VulkanRefused(r, h) => AudioMistaken(r)))
<1>1. ~(Refines(r) /\ TargetAudio(r))
  BY DEF Accepted, ResolveOk, EditOk, Refines, Editing, TargetAudio
<1>2. h.backend = "vulkan" => h.caches = "none" /\ Sampler(r, h) \in {"euler", "renoise", "er_sde"}
  BY DEF Accepted, OptionsOk, CachesOk
<1>3. ~(Capstone(r) /\ r.attention = "veda") BY DEF Accepted, OptionsOk, AnchorOptionsOk, Capstone
<1>4. h.backend = "vulkan" => ~(r.attention = "veda" /\ h.band)
  BY DEF Accepted, OptionsOk, AttentionOk
<1>5. QED BY <1>1, <1>2, <1>3, <1>4 DEF CudaRefused, VulkanRefused

\* No stage of a run refuses what the start accepted but in the two known cases, whatever setters made
\* the request (capi.h, generation_validation.cpp).
THEOREM OnlyKnownRefusals == Spec => []OnlyKnownLateRefusals
<1> DEFINE HostInv == IF subject = "requests" THEN host \in Hosts ELSE asked = NoRequest
<1>1. Init => HostInv BY DEF Init, RequestInit
<1>2. HostInv /\ [Next]_vars => HostInv'
  <2> SUFFICES ASSUME HostInv, [Next]_vars PROVE HostInv' OBVIOUS
  <2>1. UNCHANGED <<subject, host>>
    BY DEF Next, vars, requestVars, RequestNext, Set, SetImageEdit, ClearImageEdit, SetEditMask, ClearEditMask,
           SetInvertMask, SetLangevin, SetStill, SetAnimate, AddImage, AddMedia, AddRefmod, ClearRefmods,
           SetContinuation, ClearContinuation, SetLock, SetRegenerate, SetSourceNoise, SetKeystone, SetBridge,
           SetEndLatents, SetEndImage, SetTransition, AddLora, ClearLoras, SetSchedule, SetSampling, SetAudioSteps,
           SetRecipe, SetMotion, SetAttention, SetVeda, SetSynthetic, SetLcs, SetLcsMask, SetUpscaler,
           SetLatentUpscaler, SetEmbedding
  <2>2. subject # "requests" => asked' = asked BY DEF Next, vars, requestVars
  <2>3. QED BY <2>1, <2>2
<1>3. HostInv => OnlyKnownLateRefusals
  <2> SUFFICES ASSUME HostInv, asked # NoRequest, Accepted(asked, host), LateRefusal(asked, host)
               PROVE  \/ host.backend = "vulkan" /\ AudioMistaken(asked)
                      \/ AdapterRefused(asked, host)
    BY DEF OnlyKnownLateRefusals
  <2>1. host.backend \in {"cuda", "vulkan"} BY BackendAssumption DEF BackendAssumption
  <2>2. Denoises(asked) BY DEF LateRefusal
  <2>3. ~LoopRefused(asked, host) /\ ~ReferencesRefused(asked, host)
    BY <2>2, LoopAccepts, ReferencesAccepted
  <2>4. ~CudaRefused(asked, host) /\ (host.backend = "vulkan" => (VulkanRefused(asked, host) => AudioMistaken(asked)))
    BY <2>2, BackendsAccept
  <2>5. QED BY <2>1, <2>3, <2>4 DEF LateRefusal
<1>4. QED BY <1>1, <1>2, <1>3, PTL DEF Spec

----
(* The form of requests, and all the state of a session.                   *)

\* What every setter leaves of a request: its parts, and what is counted.
IsRequest(r) ==
  /\ DOMAIN r = DOMAIN NewRequest
  /\ r.images \in 0 .. ImageLimit
  /\ r.media \in Seq({"video", "soundVideo", "audio"}) /\ Len(r.media) <= MediaLimit

\* A setter other than those of images and media replaces other parts.
SetsOther(q, r) == DOMAIN q = DOMAIN r /\ q.images = r.images /\ q.media = r.media

\* Setters other than those of images and media leave both alone (capi/requests.cpp).
LEMMA OtherPartsAreSet ==
  ASSUME IsRequest(asked), RequestNext, ~AddImage, ~AddMedia
  PROVE  SetsOther(asked', asked)
<1>1. "images" \in DOMAIN asked /\ "media" \in DOMAIN asked BY DEF IsRequest, NewRequest
<1>2. CASE SetImageEdit \/ ClearImageEdit \/ SetEditMask \/ ClearEditMask \/ SetInvertMask \/ SetLangevin
  <2>1. CASE SetImageEdit \/ ClearImageEdit
    BY <1>1, <2>1 DEF SetImageEdit, ClearImageEdit, Set, SetsOther
  <2>2. CASE SetEditMask \/ ClearEditMask
    BY <1>1, <2>2 DEF SetEditMask, ClearEditMask, Set, SetsOther
  <2>3. CASE SetInvertMask \/ SetLangevin
    BY <1>1, <2>3 DEF SetInvertMask, SetLangevin, Set, SetsOther
  <2>4. QED BY <1>2, <2>1, <2>2, <2>3
<1>3. CASE SetStill \/ SetAnimate \/ AddRefmod \/ ClearRefmods
  <2>1. CASE SetStill BY <1>1, <2>1 DEF SetStill, Set, SetsOther
  <2>2. CASE SetAnimate BY <1>1, <2>2 DEF SetAnimate, Set, SetsOther
  <2>3. CASE AddRefmod \/ ClearRefmods BY <1>1, <2>3 DEF AddRefmod, ClearRefmods, Set, SetsOther
  <2>4. QED BY <1>3, <2>1, <2>2, <2>3
<1>4. CASE SetContinuation \/ ClearContinuation \/ SetLock \/ SetRegenerate \/ SetSourceNoise
  <2>1. CASE SetContinuation \/ ClearContinuation
    BY <1>1, <2>1 DEF SetContinuation, ClearContinuation, Set, SetsOther
  <2>2. CASE SetLock \/ SetRegenerate \/ SetSourceNoise
    BY <1>1, <2>2 DEF SetLock, SetRegenerate, SetSourceNoise, Set, SetsOther
  <2>3. QED BY <1>4, <2>1, <2>2
<1>5. CASE SetKeystone \/ SetBridge \/ SetEndLatents \/ SetEndImage \/ SetTransition
  BY <1>1, <1>5 DEF SetKeystone, SetBridge, SetEndLatents, SetEndImage, SetTransition, Set, SetsOther
<1>6. CASE AddLora \/ ClearLoras \/ SetSchedule
  BY <1>1, <1>6 DEF AddLora, ClearLoras, SetSchedule, Set, SetsOther
<1>7. CASE SetSampling BY <1>1, <1>7 DEF SetSampling, Set, SetsOther
<1>8. CASE SetAudioSteps BY <1>1, <1>8 DEF SetAudioSteps, Set, SetsOther
<1>9. CASE SetRecipe BY <1>1, <1>9 DEF SetRecipe, Set, SetsOther
<1>10. CASE SetMotion \/ SetAttention \/ SetVeda \/ SetSynthetic
  BY <1>1, <1>10 DEF SetMotion, SetAttention, SetVeda, SetSynthetic, Set, SetsOther
<1>11. CASE SetLcs \/ SetLcsMask \/ SetUpscaler \/ SetLatentUpscaler \/ SetEmbedding
  BY <1>1, <1>11 DEF SetLcs, SetLcsMask, SetUpscaler, SetLatentUpscaler, SetEmbedding, Set, SetsOther
<1>12. QED BY <1>2, <1>3, <1>4, <1>5, <1>6, <1>7, <1>8, <1>9, <1>10, <1>11 DEF RequestNext

\* There are never more images than a request takes (capi/references.cpp).
LEMMA ImageIsCounted ==
  ASSUME IsRequest(asked), AddImage
  PROVE  IsRequest(asked')
<1>1. "images" \in DOMAIN asked /\ "media" \in DOMAIN asked BY DEF IsRequest, NewRequest
<1>2. /\ DOMAIN asked' = DOMAIN asked /\ asked'.images = asked.images + 1 /\ asked'.media = asked.media
      /\ asked.images < ImageLimit
  BY <1>1 DEF AddImage, Set
<1>3. asked'.images \in 0 .. ImageLimit BY <1>2, StartsAssumption DEF IsRequest
<1>4. QED BY <1>2, <1>3 DEF IsRequest

\* Nor more media.
LEMMA MediaAreCounted ==
  ASSUME IsRequest(asked), AddMedia
  PROVE  IsRequest(asked')
<1>1. "images" \in DOMAIN asked /\ "media" \in DOMAIN asked BY DEF IsRequest, NewRequest
<1>2. PICK m \in {"video", "soundVideo", "audio"} :
        /\ DOMAIN asked' = DOMAIN asked /\ asked'.images = asked.images
        /\ asked'.media = Append(asked.media, m)
  BY <1>1 DEF AddMedia, Set
<1>3. /\ asked'.media \in Seq({"video", "soundVideo", "audio"})
      /\ Len(asked'.media) = Len(asked.media) + 1 /\ Len(asked.media) \in Nat
  BY <1>2 DEF IsRequest
<1>4. Len(asked'.media) <= MediaLimit BY <1>3, StartsAssumption DEF AddMedia
<1>5. QED BY <1>2, <1>3, <1>4 DEF IsRequest

\* A setter keeps the request's form and counts itself.
LEMMA SettersKeepForm ==
  ASSUME IsRequest(asked), host \in Hosts, settingsMade \in 0 .. MaxSettings, RequestNext
  PROVE  IsRequest(asked') /\ host' \in Hosts /\ settingsMade' \in 0 .. MaxSettings
<1>1. \E r : Set(r)
  BY Zenon DEF RequestNext, SetImageEdit, ClearImageEdit, SetEditMask, ClearEditMask, SetInvertMask, SetLangevin,
     SetStill, SetAnimate, AddImage, AddMedia, AddRefmod, ClearRefmods, SetContinuation, ClearContinuation, SetLock,
     SetRegenerate, SetSourceNoise, SetKeystone, SetBridge, SetEndLatents, SetEndImage, SetTransition, AddLora,
     ClearLoras, SetSchedule, SetSampling, SetAudioSteps, SetRecipe, SetMotion, SetAttention, SetVeda, SetSynthetic,
     SetLcs, SetLcsMask, SetUpscaler, SetLatentUpscaler, SetEmbedding
<1>2. host' = host /\ settingsMade < MaxSettings /\ settingsMade' = settingsMade + 1 BY <1>1 DEF Set
<1>3. settingsMade' \in 0 .. MaxSettings BY <1>2, StartsAssumption
<1>4. IsRequest(asked')
  BY OtherPartsAreSet, ImageIsCounted, MediaAreCounted DEF IsRequest, SetsOther
<1>5. QED BY <1>2, <1>3, <1>4

\* Only where requests are looked at is there one.
RequestInv ==
  IF subject = "requests" THEN host \in Hosts /\ IsRequest(asked) /\ settingsMade \in 0 .. MaxSettings
  ELSE asked = NoRequest /\ settingsMade = 0

\* It begins so, and every step of any part keeps it.
LEMMA RequestInvHolds == Spec => []RequestInv
<1>1. Init => RequestInv BY StartsAssumption DEF Init, RequestInit, RequestInv, IsRequest
<1>2. RequestInv /\ [Next]_vars => RequestInv'
  <2> SUFFICES ASSUME RequestInv, [Next]_vars PROVE RequestInv' OBVIOUS
  <2>1. CASE subject = "requests" /\ RequestNext /\ subject' = subject
    BY <2>1, SettersKeepForm DEF RequestInv
  <2>2. CASE UNCHANGED <<subject, requestVars>> BY <2>2 DEF RequestInv, requestVars, IsRequest
  <2>3. QED BY <2>1, <2>2 DEF Next, vars
<1>3. QED BY <1>1, <1>2, PTL DEF Spec

\* What there is of a packing was made of its job, whichever part of a session is looked at.
LEMMA PackInvHolds == Spec => []PackInv
<1>1. Init => PackInv BY PackingBegins DEF Init
<1>2. PackInv /\ [Next]_vars => PackInv'
  <2> SUFFICES ASSUME PackInv, [Next]_vars PROVE PackInv' OBVIOUS
  <2>1. [PackingNext]_packingVars BY DEF Next, vars
  <2>2. QED BY <2>1, PackingKeeps
<1>3. QED BY <1>1, <1>2, PTL DEF Spec

\* Every sequence that packing makes has the rows, coordinates, context, patches, bands, chunks, canvas
\* and times it promises, for any jobs with any references, levels, bands and channels (packing.cpp,
\* temporal_chunks.cpp, dit/weight_schema.cpp).
THEOREM PackingIsRight == Spec => []PacksRight
<1>1. PackInv => PacksRight BY PackingHolds
<1>2. QED BY <1>1, PackInvHolds, PTL

\* All the state of a session has its types: what runs keep, the request with its images, media and
\* settings counted, and what is packed (generation/session_state.h, capi/requests.cpp, packing.h).
THEOREM SessionsAreTyped ==
  ASSUME Faults = {}
  PROVE  Spec => []TypeOK
<1>1. Init => subject \in Subjects BY DEF Init
<1>2. subject \in Subjects /\ [Next]_vars => (subject \in Subjects)' BY DEF Next, vars
<1>3. RequestInv => RequestTypeOK BY StartsAssumption DEF RequestInv, IsRequest, RequestTypeOK
<1>4. SessionInv => SessionTypeOK BY InvKeepsPromises
<1>5. PackInv => PackingTypeOK BY PackingIsTyped
<1>6. subject \in Subjects /\ SessionInv /\ RequestInv /\ PackInv => TypeOK
  BY <1>3, <1>4, <1>5 DEF TypeOK
<1>7. QED BY <1>1, <1>2, <1>6, SessionInvHolds, RequestInvHolds, PackInvHolds, PTL DEF Spec
=============================================================================
