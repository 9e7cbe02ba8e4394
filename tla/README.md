# TLA+ models of slopfab

slopfab is a C++/CUDA/Vulkan inference engine: it turns a prompt, and optionally reference images,
audio or video, into a video with sound (the MiniMax H3 family; image and music families beside it),
and upscales existing videos. It is used as a command line and as a DLL with a C API.

What its kernels compute is judged by the repository's own numerical tests. What is modelled here is
the rest: handles and locks of the C API, threads and child processes of the media pipeline, what a
session keeps from one run to the next, which requests are accepted, the order in which weights move
under a running model, device memory and command buffers, which tensor a model's graph reads and
writes on either backend, what a loader makes of a checkpoint, and how sequences are packed. These
are the parts in which a mistake needs several actors, a failure between two steps, or a combination
of settings, and which the tests (`src/tests`) reach only on their straight paths.

Paths below are relative to the repository's root, `src/src/...` being its `src` directory.

## Inventory

| Component | State | Operations | Hard behaviour | What makes it correct |
|---|---|---|---|---|
| C API handles (`capi/generation.cpp`, `internal.h`, `latent_upscale.cpp`, `plans.cpp`, `assets.cpp`) | per handle `status`, `done`, message, samples, cancel flag, worker thread; the process-wide claim `g_generation_active` | start, launch of a latent upscale, cancel, wait, output, release, destroy, the exclusive synchronous calls | host threads against workers; failure between claim and hand-over; deletion at any time | one owner of the claim; a published outcome is complete and final; nothing runs on a freed handle; every call returns |
| Sessions (`generation/session.cpp`) | session lock, execution lock | run, clear | try-locks under the claim; a clear from another thread | a run is refused only because of a clear |
| Session caches (`generation/session_state.h`, `generate.cpp`, `generation/prompt.cpp`, keys in `pipeline.cpp`) | tokenizer, decoded and encoded references, encoded media, the prompt's conditioning, and their keys | run by stages, clear | failure or cancellation between two stages; files that change | a reused value is the one that the run would have computed |
| Request planning (`capi/requests.cpp`, `sampling_plan.cpp`, `conditioning_plan.cpp`, `generation_validation.cpp`) | a request, layer over layer | setters, resolution, validation, and the refusals of later stages | settings that exclude one another, on two backends | what is accepted runs; a distilled model keeps its recipe |
| Media pipeline (`cli/upscale.cpp`, `bounded_pipeline.h`, `pipe_process.cpp`) | two bounded queues, three threads, two FFmpeg children, a temporary file | read, restore, write, stop, drain, rename | queues full and empty, children that crash or hang, SIGINT at any time | the frames in order; a committed file is complete; nothing is left over; the command ends; the first failure is reported |
| Vulkan buffer pool (`vulkan/runtime_buffer_state.h`, `runtime_buffer.cpp`) | memory blocks with sorted free lists, in one pool per memory type | allocate, bind, free, trim, flush and invalidate | alignment gaps, failures outside the lock, order of releases | spans are disjoint, free lists exact, no dead blocks |
| Vulkan compute context (`vulkan/runtime_compute.cpp`, `runtime_compute_state.h`) | command slots, timeline semaphore, buffers kept alive | begin, record, submit, wait, recycle, close | several threads, all slots in flight, failing Vulkan calls | nothing the device uses is touched; no slot is stranded; begin ends |
| Vulkan tensor batches (`vulkan/tensor_recording.h`, `tensor_context.h`, `tensor.cpp`) | recorder lease, access state of each tensor with snapshots, poison flag | begin, record, submit, abandon | rollback of speculative state | the access state is the one the device will see |
| Model graphs (`vulkan/dit_*.cpp`, `vae_*.cpp`, encoders; their CUDA counterparts) | scratch tensors | record a stage, run a stage | scratch reused between operators, chunks of rows, declared operator counts | both backends compute the same of the same; no operator is refused |
| Denoise loop (`dit/denoise.cpp`, `vulkan/dit_denoise.cpp`, `step_cache.cpp`, `motion_cache.cpp`, `sampler/scheduler.cpp`) | step, velocities, accumulators, decisions, scheduler history | compute, reuse, refine, step, preview, cancel | merged video and audio schedules, caches, cancellation inside a refinement | both loops take the same trajectory; decisions reported are evaluations made |
| Weight streaming (`dit/transformer*.{h,cpp}`, `cuda/encoder_runtime.cu`, `dit/weight_uploader.h`) | two streams, events, device slots, staging buffers, the block cache's delta | load, prepare, forward, encode, reset | asynchronous copies against kernels and against the host; exceptions in mid-loop | work finds its own input; nothing freed is used; a load is complete |
| Residency planning (`dit/offload.h`, `load_retry.h`, `transformer_load.cpp`) | planned bytes, ceiling, attempt | plan, upload, release, retry | out of memory at any attempt, free memory that changes | plans with nothing held, shrinks, ends |
| Transformer memory (`cuda/workspace.cu`, `cuda/linear.cu`, `dit/transformer_support.h`, `transformer_prepare.cpp`) | scratch arena | carve, rewind | sizes planned once for every later shape | the arena is never exhausted, the estimate covers what is used |
| Checkpoint weights (`dit/transformer_load.cpp`, `dit/checkpoint.cpp`, `cuda/linear_weights.cu`, `vulkan/dit_block.cpp`) | none | recognise a format, slice, unpack | many formats, their tags, fused projections | what was written is read; nothing accepted is refused later |
| Tokenizers and JSON (`core/json.cpp`, `text/tokenizer*.{h,cpp}`) | vocabulary and merges | load, encode, decode | two JSON readers; merges that overlap; added tokens | readers agree; ids are those of the reference, decoding gives the text back |
| Archives and fingerprints (`core/safetensors_write.cpp`, `lora_grid.cpp`, `lcs_fingerprint_cache.h`) | staged file, target, digests by stamp | write, replace, look up | crash between write and rename, two writers, a file that changes while it is hashed | the target is an old or a new archive, never a mixture; a digest belongs to the content |
| Packing and chunking (`dit/packing.cpp`, `ref2va.cpp`, `chunking.cpp`, canvas and frame counts) | none | pack, time, band, plan chunks, choose canvases | boundaries, references of every kind | every row in one place, coordinates and times those of its row, every frame covered |
| Attention kernels (`vulkan/tensor_attention_*.comp`, `cuda/attention_blocked.cu`, `deterministic_attention.cu`) | shared memory of a thread group | tiles, barriers, running maxima | threads between two barriers | the output is the softmax-weighted mean |
| Image, music and restoration families, muxing, other kernels | sequential | | numerical | outside this project, see the end |

How they interact: a command or a C API call builds a `GenerateRequest`; `resolve_plan` fixes geometry
and schedules and validation refuses; `run_generate` takes the session and execution locks, looks up
the session caches, encodes what is missing (text encoder, reference encoders), loads the transformer
(residency planning, uploader), runs the denoise loop (block streaming, or Vulkan's tensor batches) and
decodes. Under the C API all of this is in a worker thread and talks to the host through the handle and
through the progress callback. The Vulkan backend records its graphs into tensor batches over the
compute context and the buffer pool. `slopfab upscale` has its own pipeline of threads and processes.

## Modules

| Module | Models | Correspondence |
|---|---|---|
| `SerialRuns` | the promise of `capi.h`, "One at a time" | abstract: a single execution slot and one outcome per generation |
| `CApiGeneration` | handles, claim, sessions' locks | one action per step between two synchronisation points; `tpc`/`wpc` are the program counters of host threads and workers; `life` follows the C++ object; the fields `done`, `status`, `error` carry the names of the code |
| `MediaUpscale` | the upscale command | `main`, `producer`, `consumer` are the three threads; a step is a critical section of the pipeline's mutex, a blocking pipe call or an act of a child; `child` and `pipe` model FFmpeg and the operating system from the calls made to them |
| `ComputeContext` | slots, submissions, lists and tokens | `slot[s].value = 0` with `reserved` means "being recorded" as in the code; `jobs` is the Vulkan queue |
| `AttentionKernels` | the attention kernels without tensor cores | a thread runs to its next barrier; a score is a small number, an output the weights the kernel gives to each key |
| `ThreadWaits` | the three above side by side | a behaviour is of one `resource`; its `MC` module adds `CApiGeneration` as a fourth, for the liveness of calls |
| `BufferPool` | the pool and its buffers | reserving and releasing are atomic (pool mutex), binding is not; ranges have the fields of the code |
| `AtomicArchive` | what saving over an archive promises | abstract: a register of archives, replaced at once |
| `ArchiveFiles` | `safetensors_write.cpp` and the readers that map the file | a directory of names and inodes; a file is written in two parts; a process may die at any step |
| `FingerprintCache` | `lcs_fingerprint_cache.h` over files that are being written | a file is a stamp and two parts; hashing reads one part after the other |
| `Tokenizer` | the tree reader of `core/json.cpp` and the tokenizer's scanner; loading, splitting, merging, special tokens, decoding | both readers read the same symbols, and what they make of a document is a tree; letters are classes; the reference is the definition of byte-pair merging |
| `CheckpointWeights` | the loaders of a linear layer of both backends | a weight is its tensors' types, shapes and origins; loading is a term of what was read from where |
| `TransformerMemory` | the scratch arena of a forward pass | sizes are kept, an eighth of the real ones |
| `HostSide` | the five components above that follow the pool, and the pool, side by side | a behaviour is of one `subject` |
| `GenerationRequests` | setters, resolution of layers, every rule that refuses, and what the later stages refuse | `asked` is what the setters have built, on a `host` with its model, backend and options; the rules of the start are one part, `LateRefusal` what a later stage says |
| `ReusedModels` | one session's runs | a stage of `run_generate` per action; a cached value is the record of the inputs it was computed from, an identity is a pair (path, content) |
| `SequencePacking` | layouts, coordinates, row times, bands, chunk plans, canvases | functions of the code, set against what they are for |
| `SessionWork` | the three above side by side | a behaviour is of one `subject` |
| `CudaStreams` | the CUDA runtime (external) | queues of work, event records and waits per stream; work occupies what it reads and tears what it writes until it ends; an item says what it has to find (`wants`) and what it leaves (`gives`) |
| `BlockStreamer` | `Transformer::forward`'s block loop, `BlockStreamer`, the block cache | over `CudaStreams`; block `b` offloaded from `first` on |
| `TextEncoder` | `Encoder::load`, `stage_upload`, `encode` | over `CudaStreams`; resident or streaming, mapping locked or not |
| `WeightUploader` | `Uploader` and the record loop | over `CudaStreams`; tensors verbatim, converted or half |
| `OffloadLoad` | `plan_block_offload`, `load_with_memory_retry` | byte counts are kept, in small units |
| `WeightStreaming` | the four above side by side | they share nothing, so a behaviour is of one `client` |
| `TensorOps` | every operator of `vulkan/tensor_*.cpp` and the CUDA kernel it corresponds to; the linear layers with their kinds of weights | an operator is a record: the accesses it records (`uses`), which rows it computes from which (`ins`, `all`, `outs`), how many operators it counts for (`n`), whether its arguments are accepted (`legal`) |
| `TensorBatch` | `TensorBatch`, the access state of `DeviceTensor`, the caches filled inside a batch, the transfers of `tensor.cpp` | `access` is `Impl::access`; `batch.snapshots` and `saved` are the rollback data; `queue` and `list` are what the device has been told, with what each stage is ordered after |
| `TensorGraphs` | a stage run by both backends | a graph is two programs of operators; `store` holds a value per tensor and row; a value is a term of what was computed from what |
| `H3Transformer` | the denoiser's block, text refiner, embedding and final layer | one operator per builder of the code, for each backend; the forward pass composes blocks |
| `QwenEncoder`, `VaeGraphs` | text layers and vision tower; decoders of both VAEs; encoders of keyframes, reference videos and sound | as `H3Transformer` |
| `DenoiseLoop` | `dit::denoise` and `ExactH3Denoiser::run` | `at` is the place in a step; latents are the expressions that compute them; a request fixes schedule, sampler, caches, edits, previews and the callback that cancels, among those both loops accept (`Samplable`); a step is a relation between the variables before and after |
| `VulkanWork` | batches, graphs and loops side by side | a behaviour is of one `subject` |
| `..._proofs` | theorems | see Proofs |
| `MC...` | constants of the instances | |

`PROJECT.json` maps each definition to its lines.

Components that share no state are put side by side in one specification: a behaviour is of one of
them, chosen in the initial state, so that a run checks each of them in all its interleavings and
multiplies none with another.

### What each property says

`CApiGeneration`
- `ClaimHasOneOwner`: at most one thread or worker owns the claim and the flag is true exactly while
  one does, through every failure between the compare-exchange and the worker's start.
- `StartableOnceDone`: once `done` is visible, that generation no longer holds the claim.
- `RefusedOnlyByClear`: the try-locks under the claim fail only because of a concurrent
  `slopfab_session_clear`. The run that was accepted then ends as busy; the code intends no more.
- `ErrorReadableOnceTerminal`, `OutcomeIsFinal`: a terminal status comes with its own message and
  neither changes.
- `FreedHandleUnused`, `BorrowedSamplesStay`: destruction and release against workers and readers.
- `SerialSpec`: the module implements `SerialRuns` under a refinement mapping (the slot is the owner
  of the claim, the outcome the status).
- `RunsEndAndRelease`, `CallsReturn`: liveness, checked by `thread_waits`.

`ThreadWaits`
- `VideoIsComplete`: what the encoder has got is a prefix of the video, no frame is in two places, and
  the renamed file holds all frames, both children having ended well.
- `EndsWell`: when the command is over no worker, child or temporary file is left, and the failure
  reported is the first.
- `CommandEnds`: an interrupted command ends although its children hang, and any command ends if they
  move and exit.
- `SlotsKept`: nothing the device may still use is recycled or freed, and every slot that is taken
  is recording or pending, through every failing call. `WaitsEnd`: a thread waiting for a slot gets one.
- `KernelsAttend`: each row's output is the softmax-weighted mean of its own keys, however the
  threads of a group interleave between two barriers. Excepted are the cases of finding 6, named
  `TakenForFirst`; in each of those the output is wrong. `NeverAddsUnrescaled` is what the code says of them.

`HostSide`
- `PoolIsSound`: spans are disjoint, a flush touches no neighbour; free lists are exact, sorted and
  coalesced; dead blocks are given back.
- `ReplacesAtomically`: `ArchiveFiles` implements `AtomicArchive`: whoever opens the archive gets a
  complete old or new one, whatever dies in between.
- `FingerprintIsCurrent`: an answer from the cache is the digest of the file at its present stamp.
- `TextIsReadRight`: both JSON readers give the same verdict and the same tree (but for an unknown
  escape in a value that is skipped), and what the writer prints is read back; the tokenizer encodes
  what the reference encodes, and decoding gives the text back.
- `CheckpointReadRight`: what a backend accepts it decodes element by element from the right places,
  whichever the slice and the order of rows, and two that accept take it for the same; Vulkan's checks
  leave nothing for the upload to refuse; what a format's own writer wrote is accepted.
- `ArenaSuffices`: no call asks the scratch arena for more than it was made to hold, whatever was prepared
  before; and what the load sets aside before the weights are known would hold it.

`VulkanWork`
- `AccessesOrdered`: whatever the order of operators, refusals, abandoned batches and transfers, the
  barriers that are recorded order every access of the device after the ones it conflicts with. The
  exception is named: a transfer that was submitted and then reported as failed is not waited for.
- `NothingStale`: what a tensor remembers is what the device was last told of it, although recording
  moves it on early and abandonment moves it back; and a view of a cache that an operator still accepts
  shows what it was made for.
- `StagesRunAlike`: for every row of every result the two backends compute the same term, whatever
  chunks they use and whatever scratch tensors they reuse, and no term contains an unwritten row. The operators
  a stage declares beforehand are enough, and no operator it records is refused for its tensors.
- `LoopsAgree`: both denoise loops take the same latents along the same trajectory, ask the host the
  same questions and stop at the same one, unless Vulkan's throws (finding 2); the decisions reported
  are the evaluations made.
- `PreviewNeverFailsTheRun`: see finding 2.

`SessionWork`
- `OnlyKnownLateRefusals`: no stage refuses what the start accepted, but for the two kinds of requests
  of finding 3; `AcceptedRequestsRun` is the promise without the exception. A Vulkan still with a sounding
  reference counts as refused, although the loop reads past the host's rows before it throws.
- `DistilledKeepsItsRecipe`: an accepted run of a distilled model or adapter uses its own sigmas and
  shifts, Euler steps and exact velocities.
- `UsesOwnInputs`: a finished run used what it would have computed from its own request and from the
  files as they are.
- `CachesMatchKeys`: the embedding, the references and the models that are kept are what their keys
  say, whichever stage of an earlier run failed, in runs without the faults of findings 4 and 5 (`Faults` is
  empty). `PromptMatchesKey` is the part about the embedding, checked with those faults.
- `PacksRight`: every row of a sequence is in one place, coordinates agree between the two functions
  that give them, patches and times are those of their rows, bands cover what a row attends to, chunks
  that tile cover every frame, and a canvas is valid.

`WeightStreaming`
- `StreamsAreOrdered`: a kernel or a transfer that runs finds, from its start to its end, what the host
  meant it to find (no slot refilled too early, no staging buffer packed under a transfer, no stale
  delta); and nothing queued in either stream names memory that has been freed.
- `LoadsCompleteOrRetries`: an upload that returned has left every tensor on the device; a retry plans
  after the release, and a load fails for lack of memory only when no smaller plan is left.
- `CallsEnd`: liveness.

## Runs

| Run | Asks | States |
|---|---|---|
| `capi_safety` | safety and refinement of the handle: 2 threads, 2 generations, 2 sessions, 1 checkpoint, symmetric | 1.05 million |
| `capi_wait` | does `wait(-1)` return a terminal status? (no) | violated |
| `thread_waits` | the media pipeline, the command slots and the attention kernels, safety and liveness; the liveness of the C API: 2 threads, 1 generation | 221 thousand |
| `gemm_rescale` | is the accumulator of the cuBLAS attention always rescaled? (no) | violated |
| `host_side` | buffer pool, archives, fingerprints, JSON, tokenizer, checkpoints, arena | 461 thousand |
| `vulkan_work` | batches, graphs and loops of the Vulkan backend | 964 thousand |
| `denoise_preview` | does a preview leave the generation alone? (no) | violated |
| `session_work` | requests, three runs of one session while files change between them, packing | 2.4 million |
| `request_promise` | does an accepted request run? (no) | violated |
| `reuse_memory` | reuse with a failing copy of the embedding | violated |
| `reuse_overwrite` | reuse with an image saved during a run | violated |
| `weight_streaming` | the four clients of streams and of the load's plan, safety and liveness | 401 thousand |

Bounds, and why they are enough.

- C API: two handles and two threads give every pair of roles the claim can have (starter against
  starter, starter against worker, waiter against destroyer); the theorems hold for any number.
- `thread_waits`: up to three frames through queues of two, so that both fill up and drain, with children
  that crash, hang or end; three submissions over two slots, so that each slot comes round again, two
  threads and a buffer, every call failing at any time; kernels with groups of four threads in warps
  of two, tiles of four keys and two rows over five or six keys, so that the last tile is cut, with
  scores that rise, fall, repeat and underflow; the key blocks of the cuBLAS products are of two and of
  five keys, so that a later block outgrows the earlier ones by less than underflows, or by more.
- `host_side`: three buffers of six kinds in blocks of eight units make a hole between two others,
  alignment gaps on both sides and a full block (units stand for bytes, the atom being two of them);
  three saves by two processes and a reader that maps the file; two callers, two files, one entry and
  two writes, so that entries are evicted and files change while they are hashed; JSON documents that
  grow by four symbols from six beginnings, with one level of nesting allowed; every text of up to three of
  nine characters, and of five of four; every weight format in two heights and four widths, sliced or
  not, and each with every tensor missing, mistyped, misshaped or added; 99 stacks of layers whose
  dimensions are an eighth of the real ones, with prompts and videos below, at and above a chunk of rows.
- `vulkan_work`: two batches of up to two operators on two tensors and a cache; graphs with two layers and three
  row slots, every kind of weight and every chunking, the keyframe encoder at all its six levels,
  reference videos at the first three levels with 1, 4 or 5 frames (where a chunk of frames begins and
  ends), all audio stages; requests of every sampler, schedule ratio and edit, stopped at any of six
  places; five steps for the caches, which reuse two velocities in a row at most.
- `session_work`: any two settings on top of five kinds of requests, on every host; three runs, one
  that stores, one that disturbs and one that reuses, over files of two contents, so that "changed and
  changed back" is there; sequences of up to six frames with up to two references of eleven kinds; every cut
  of six lengths into two to four chunks; canvases of every ratio up to 24; 1 to 120 frames.
- `weight_streaming`: three blocks in every split wrap around two device slots; with three passes over
  two sequences a cached span is captured, reused and abandoned; three layers ping-pong and wrap; three
  tensors, smaller and larger than a staging slot; three transformers against budgets that shrink.

Constants whose names begin with `Max`, and `Checkpoints`, `Growth`, bound what a behaviour may do.

Deadlock is checked except where the system may really stop: graphs, loops, documents, samples,
weights, stacks, requests and jobs that are done (`vulkan_work`, `denoise_preview`, `host_side`, `session_work`,
`request_promise`); a compute context that is closed or whose submissions are used up and children that
hang (`thread_waits`, where a thread that blocked for good is a violated `CommandEnds`); and a streaming
client that has made its calls.

## Fairness

- Threads of the process are scheduled (`WF` on each thread's steps). Nothing else is assumed of the
  host: it need not call again, and no condition variable is assumed to wake without notification.
- FFmpeg children are not assumed to make progress. The second part of `CommandEnds` shows that an
  interrupted command ends although they hang; the first assumes in its antecedent that they move and exit.
- The GPU finishes what it was given: `WF` on the Vulkan queue and on each CUDA stream. A lost device
  is outside the models.

## Proofs

Proved for every value of the constants. The assumptions are those the modules state of their
constants, named in the table where they matter; TLC evaluates each on a run.

| Theorem | Property | Module | Assumes |
|---|---|---|---|
| `TypeCorrect` | `TypeOK` | `CApiGeneration_proofs` | `CApiAssumption` |
| `OneOwner` | `ClaimHasOneOwner` | | |
| `DoneIsStartable` | `StartableOnceDone` | | |
| `ErrorReadable` | `ErrorReadableOnceTerminal` | | |
| `FreedIsUnused` | `FreedHandleUnused` | | |
| `OutcomesAreFinal` | `OutcomeIsFinal`, an action property | | |
| `SerialExecution` | `SerialSpec`, a refinement | | |
| `OnlyClearRefuses` | `RefusedOnlyByClear` | | |
| `LentSamplesStay` | `BorrowedSamplesStay` | | |
| `CommandSlotsAreKept` | `SlotsKept` | `ThreadWaits_proofs` | `ComputeAssumption`, `MediaAssumption` |
| `VideosAreComplete` | `VideoIsComplete` | | |
| `CommandsEndWell` | `EndsWell` | | |
| `WaitsAreTyped` | `TypeOK` | | the same, `KernelAssumption` |
| `DeviceIsOrdered` | `AccessesOrdered` | `VulkanWork_proofs` | `BatchAssumption`, `OperatorAssumption` |
| `HostKnowsTheDevice` | `NothingStale` | | |
| `LoopsDoTheSame` | `LoopsAgree` | | `RequestsAssumption` |
| `WorkIsTyped` | `TypeOK` | | all three |
| `RunsUseTheirOwnInputs` | `UsesOwnInputs` | `SessionWork_proofs` | `ReuseAssumption`, `NoneAssumption`, `Faults = {}` |
| `CachesAreOfTheirKeys` | `CachesMatchKeys` | | the same |
| `SessionsAreTyped` | `TypeOK` | | the same, `StartsAssumption`, `JobsAssumption`, `PackingAssumption` |
| `DistilledRunsAsTrained` | `DistilledKeepsItsRecipe` | | |
| `OnlyKnownRefusals` | `OnlyKnownLateRefusals` | | `BackendAssumption` |
| `PackingIsRight` | `PacksRight` | | `JobsAssumption`, `PackingAssumption` |
| `StreamsStayOrdered` | `StreamsAreOrdered` | `WeightStreaming_proofs` | `StreamerAssumption`, `EncoderAssumption`, `UploaderAssumption`, `OffloadAssumption` |
| `LoadsCompleteOrRetry` | `LoadsCompleteOrRetries` | | the same |
| `StreamingIsTyped` | `TypeOK` | | the same |
| `FingerprintsAreCurrent` | `FingerprintIsCurrent` | `HostParts_proofs` | `FingerprintAssumption` |
| `FingerprintsAreBounded` | `FingerprintTypeOK` | | |
| `ArchivesAreAtomic` | `ReplacesAtomically`, a refinement | | `ArchiveAssumption` |
| `PoolHolds` | `PoolIsSound` | | `PoolAssumption` |
| `PoolIsTyped` | `PoolTypeOK`, a conjunct of `HostSide!TypeOK` | | |
| `ArenaAlwaysSuffices` | `ArenaSuffices` | | `MemoryAssumption`, `WidthsAssumption`, `StacksAssumption` |
| `MemoryIsTyped` | `MemoryTypeOK`, the same | | |

**C API.** The inductive invariant `IInv` has five parts beside the types. `ClaimParts` is the mutual
exclusion proper, but it is not inductive: handing the claim over needs that the handle being built has
one caller and no worker yet (`CallArguments`, `WorkerLife`), and publication needs that a worker past
its run has an outcome (`ResultKnown`) and what each stage has already made visible (`Publication`).
`InitEstablishes` and one preservation lemma per part, with a step per action, give `Invariance`; the
theorems follow from it. For the refinement, `SlotFollowsClaim` says that the owner of the claim is
exactly the one thread or worker at a step at which the code holds it. So a step that moves nobody over
that boundary is a stutter of `SerialRuns`, and the others are its five actions: `Take` at the
compare-exchange, `GiveBack` wherever the guard releases, `Launch` when the worker starts, `Retire`
when it releases, `Publish` at the store of the status. Two further invariants are inductive beside
`IInv`: `LockOwners` ties whoever is recorded in a lock to the steps at which the code holds it (as
workers lock only under the claim, of which there is one, a generation about to try a lock can meet a
clear and nobody else), and `SamplesKept` says that a run with samples cannot have ended well with
none, so that only its own handle takes away what `slopfab_generation_output` lent.

**Command slots.** `SlotsInv`: the jobs of the queue are pending slots with rising values, a recorder
has a slot of its own, and every slot that is reserved and has no value has a recorder. The hard
step is the scan of `begin`, which reserves and recycles in one critical section, and its failures.

**Attention kernels.** What `WaitsAreTyped` needs of them is where their threads may stand. A kernel is a program of
phases put one after the other by a recursive function of the community modules, so that it is a sequence of steps is a
lemma, `FlattenIsSeq`, proved like those of packing.

**Media pipeline.** `MediaInv` is three things. `FramesInOrder`: what was encoded, what each thread holds and
the queues between them, put one after the other, are the first frames of the video, so that every step
moves a frame from one place to the next and none changes the whole. `WorkersControl`, with `FileIsRight`:
where a thread can be given how the other two and the children stand, which carries "the sink is over" from
the encoder's exit to the rename. `ErrorsAreFirst`: the failure recorded is there before anyone stops for it.

**Batches.** `BatchInv`. The access state of a tensor is a summary: its last access, and whether it reads
or writes. `AccessIsKnown` says what makes it enough: in the stage of the last access the device is
told of no access but that one, so a barrier chosen by it orders everything that came before. It holds of
the live state against the list being recorded and of the restored state against what was submitted, so
that abandoning a batch keeps it. `IdsGrow` and `ViewsAreCurrent` say that a view's batch and generation
tell it from every later filling of the cache.

**Denoise loops.** CUDA's loop runs first, then Vulkan's, on the same request; so the invariant `LoopInv` speaks
of the whole of CUDA's run, a `Trace` of states, each of which led to the next by a step. Vulkan's loop
is always at a state that `Follows` one of them. It is not a refinement in step: Vulkan records and
synchronises where CUDA has no step, evaluates in `record` with the latents where CUDA has published
an input, keeps a modified prediction in place of the transformer's and draws noise into one buffer for
both modalities. `InStep` says what corresponds to what at each place, and `VulkanStepFollows`
that a step of Vulkan's either leaves it following the same state, or takes it to whatever state CUDA's
step leads to. `CudaRuns` is the invariant of CUDA's own loop: a decision for every step begun, evaluations
and reuses counted by them (`Tally`), and where latents and the transformer's input are the same. Schedules
are a recursive function of the step counts; that there is one, that it ends and that equal counts
advance together is proved by the least position at which it would fail. The one place where the loops
return different latents is in `Returned`, and in the notes below the findings.

**Streaming.** `StreamingInv` is the invariant of whichever client runs. `QueueInv`, of the streams: the
records of an event carry rising numbers, and the last one issued is still ahead while the device has not
reached it. Over it, each client's invariant says of every item queued on the compute stream why it will
find what it wants (`Covered`): some copy on the other stream brings it, the item waits for an event
recorded behind that copy, and every later copy to the same place waits in turn for an event that is
recorded behind the item (`Guarded`). A statement about the present contents of memory would not be
inductive, because what an item wants may not have arrived when it is issued, nor may the place be free.
`SlotsHold`, `LayersCovered` and `LayerReady` say the same of what is *about* to be issued, for the
block in each device slot and for the next layer; `DeltaReady` does so for the cached span, where a block
may throw. The uploader has one stream: `StagesKept` says that the units of a staging slot are not
packed again while an item that reads them is queued, because the slot in use only grows and the
other has a record behind its readers. `LoadInv`: every plan smaller than the present attempt exceeds the
ceiling, so a retry makes progress and giving up is right. The lemmas about streams and about the block
loop are in `BlockStreamer_proofs`. `Total` is a recursive function there, of which the lemmas
`SumsAreSums` and `TotalBounds` give what is needed, by a least counterexample.

**Session.** `SessionInv`: each cache holds what its key says (`CacheInv`), and at each stage the run has what
its own request asks for (`ReferencesGathered`, `MediaGathered`, `PromptGathered`). The proviso `Faults = {}`,
that no image is saved during a run and no copy of an embedding runs out of memory, is not for the proof's
sake: the runs `reuse_memory` and `reuse_overwrite` show that the theorems are false without it. Requests are
proved by cases: what the rules of the start leave of any request, on any host, against the conditions of each
late refusal. `RequestInv` says of the request being set what the assumption says of those to begin with:
setters replace parts, and only two of them add an image or media, below a limit.

**Packing.** `PackInv` says that a sequence, a plan or a canvas is what its job's operators return, so the
work is about operators, in `SequencePacking_proofs`, for lists of references of any length. There is no
induction over data, but a fold is a recursive function of how many elements it has taken: a job has a trace
(`IsTraced`), one state for each number of references placed and counted, and what holds after all of them is
proved by the least number for which it would not. `Laid` is what every such state satisfies (the rows given
out so far are in one list each, in order, and the segments are exactly these rows), `Ordered` what the
finished sequence does; appending the capstone's frame keeps `Ordered`, and the rows and tags follow.
Coordinates need besides where each reference starts (the sum of what those before it take, guides taking
nothing), and the target's own coordinates as a function of the row. Bands, chunks, patches and frame counts
are arithmetic of quotients and remainders: a key range is cut at blocks and still covers each query's frames;
offsets tile, windows of two neighbours add up to one, and audio drifts from its frames by less than a latent
because both clocks are resolved from one count of frames. Row times: `Ascending` lists a finite set of pairs
in order, so that a row's index finds its time, and the two backends ask for the same set.

`JobsAssumption` asks of a job what its callers see to: a target with at least one patch, a tag for each row of
text, and for chunks two requests each resolved from a count of frames (`pipeline.cpp:266`). Of references it
asks only their types: packing itself refuses those that do not fit.

**Fingerprints.** `FingerprintInv`: a digest that is kept was computed from parts read after its stamp, and
while a file's stamp is that one the parts have not changed, because every write makes a later stamp. `Max`
of a set of naturals is reasoned about through a lemma (`MaxIsGreatest`), by the well-foundedness of `<`.

**Archives.** `ArchiveInv`: each saver's staged name and inode are its own (`NamesOfTheirOwn`,
`FilesOfTheirOwn`), and whatever is named by the target or mapped by a reader is whole (`WholeFiles`). Each
action is then a step of `AtomicArchive` or a stutter (`WholeStep`), death and orphaned inodes included.

**Buffer pool.** `PoolInv`: a buffer that holds a span has one of the size and alignment its request needs
(`PlaceIsRight`), two spans in one block share no byte (`SpansApart`), and in every block what is reserved,
counted once, and what its sorted free list leaves are each other's complement (`BlockIsExact`). None of
these is inductive alone: that a span cut out of a free list was nobody's needs the complement, and that a
span given back meets no free range needs the spans apart. Two lemmas carry it, over lists of ranges
of any length: `TakingIsExact`, that cutting at an aligned offset removes just the span, and `InsertingIsExact`,
that coalescing with a neighbour on each side adds just the span and leaves the list sorted with gaps. Flushes
(`FlushesStayInside`) rest on arithmetic of multiples: the atom divides both ends of every span.

**Scratch arena.** `MemoryInv`: once there is a sequence its plan fits the arena, whatever text came after it
(a text lets the arena grow, never shrink), and the last call left nothing carved or just the sequence's
pieces, over which the modulation comes. That the plan is enough for a call is arithmetic over one weight at
a time: a dense copy, one activation, or the native product's codes, which are smaller than the copy they
replace (`WeightFits`). Packed weights are the hard case, since `plan_carve` counts nothing for them: their
codes, activations and sums have to fit where it counted the dense copies of others (`PackedUpFits` and its
like). They do because a chunk of rows is at most half as long as a token is wide, which is what
`WidthsAssumption` asks, with the order of the widths (2048 rows; 5376, 7168 and 14336); with chunks as long as
tokens are wide a packed fused feed-forward would carve more than was planned.

`HostSide` extends `Tokenizer`, whose operators are recursive, which the prover does not handle in a module it
reads; so the theorems of `HostParts_proofs` are about the specifications of the components
(`FingerprintSpec`, `ArchiveSpec`, `PoolSpec`, `MemorySpec`).
A behaviour of `HostSide` with that subject is one of those, since its other variables stand still.
`ThreadWaits`, `VulkanWork`, `SessionWork` and `WeightStreaming` are proved about themselves.

TLC checked every inductive invariant on the instance of the component's run before it was proved;
`LoopInv`, which quantifies over traces, with the states CUDA's loop went through kept in a variable.

Only model-checked:

- liveness, which rests on fairness and `ENABLED`: `RunsEndAndRelease`, `CallsReturn`, `CommandEnds`,
  `WaitsEnd`, `CallsEnd`;
- `TextIsReadRight`: its operators are recursive, like the parsers and merge loops they model;
- `StagesRunAlike`, `KernelsAttend`, `CheckpointReadRight`: statements about given programs and formats, of which
  each instance is its own calculation; there is no parameter to generalise over but the tables TLC goes through;
- the type invariant of `HostSide`, but for what the theorems of `HostParts_proofs` say of its components.

## Findings

1. `slopfab_generation_wait` may return `SLOPFAB_ERR_NOT_READY` from a wait without a timeout:
   `finish()` sets `done` under the mutex and stores the status after it, and the waiter reads the
   status once it sees `done`. Run `capi_wait`.
2. After a preview Vulkan's denoise loop begins a batch, and submits it empty when the sampler is
   stochastic, or when MotionCache or a sampling effect has just submitted (`vulkan/dit_denoise.cpp:633`,
   `670`, `680`); `submit` throws and the generation fails, while `capi.h` says that previews never make it
   fail. Run `denoise_preview`.
3. `slopfab_generation_start` accepts requests that a later stage refuses, which `capi.h` excludes: on
   Vulkan a still image with a reference that carries sound, and a Hyperflow adapter on a base other than
   those it was made for. The trace of run `request_promise` is of the adapter, which loading refuses
   (`dit/hyperflow.cpp:52`). The still image is refused nowhere: Vulkan's loop takes the reference's audio rows
   for generated ones, `prepare` reads past the host's buffer (`vulkan/dit_denoise.cpp:383`), and if the process
   survives that, `copy_rows` (609) throws.
4. The prompt's key is stored before the embedding is copied (`generation/prompt.cpp:290`). If the copy
   throws `std::bad_alloc`, the next run with that key reuses the embedding of the previous prompt.
   Run `reuse_memory`.
5. Reference images are hashed when a run starts and opened later, so an image saved in between is
   cached under the hash of its earlier content. Run `reuse_overwrite`.
6. `online_softmax_kernel` takes a correction of zero for the mark of the first key block
   (`cuda/attention_blocked.cu:205-209`). When the scores of a later block outgrow all before them by so much
   that `__expf` underflows, the sum is rescaled and the accumulator is not, and the product of that block is
   added to it: earlier keys keep weights that should have vanished. Run `gemm_rescale`.

Noted without a run:

- in `run_generate`'s decode, the result of the last progress notification is not looked at, so a
  cancellation that comes that late ends in `OK`; destroying a handle from inside its own progress callback
  joins the worker with itself;
- a sampling effect that stops a step which Langevin refinement has begun leaves CUDA's loop with the latents of
  before the refinement and Vulkan's with the refined ones; a session drops the rows of a cancelled run
  (`generate.cpp:1009`, `1211`), so nothing is lost;
- the backends accept different checkpoints. Vulkan's `load_projection` looks for an NF4 state whose name
  lacks ".weight" (`dit_block.cpp:143`, `320`); CUDA checks no type of an NF4 tensor, refuses extra
  tensors, and accepts an NVFP4 width at the load that it refuses at the launch; Vulkan refuses quantised
  endpoints and full AdaLN;
- `set_row_chunk` beyond about 3,000 rows would exhaust the arena with W4A8 and W6A8 weights, because the plan
  assumes dense copies; the default of 2,048 fits;
- `chunking.h` says that the weights of overlapping chunks add up to 1 for a plan that tiles; with an
  overlap longer than the stride they do not, and are normalised afterwards;
- `trained_max_pixels` set to another value could round a canvas of 4:1 to more than 4:1.

## Assumptions about the outside

- Each write of a file gives it a new stamp, which `tests/test_lcs.cpp` relies on too. A checkpoint that
  is replaced by another of the same size within one timestamp tick is documented as a blind spot of its
  identity (`pipeline.h:297-303`). Nothing is promised of a power failure, and nothing is modelled.
- The names of staged files of two processes differ; `LatentClip::save` takes them from the clock.
- A tokenizer's file gives each id to one token.
- Arithmetic on positions, times and canvases is exact.

## Not modelled, and why

- What kernels and shaders compute, but for the attention kernels without tensor cores; samplers' formulas
  beyond what they read; UTF-8, Unicode tables and NFC of the tokenizer, and the checks of fixed fields of its file.
- The fused, sparse and quantised attention kernels; `unpack_audio`, a transposition.
- The other model families: sequential programs that share no state with what is modelled.
- Parts of the modelled components: read-only queries of the C API; the device-lost path of the Vulkan
  context, its descriptor sets, push constants and timestamps; the rounding of dedicated host-visible
  allocations; the vision tower's and the VAE's own uploads; a CUDA runtime call that fails between two that succeed;
  the tiling and blending of VAE windows; continuation and inpainting beyond what the denoise loop overwrites.
- In `ReusedModels`, `"vae"` stands for the video and the audio VAE, and `media` for the media together
  with the canvas and conditioning settings in its key.

## Plan

Built so far: the C API and its sessions, the media pipeline, pool and slots, streaming, batches and
graphs, the denoise loop, archives and fingerprints, requests, packing, tokenizers, checkpoints and the arena.
Next, in this order:

1. `LatentTimeline`: continuation and locks of latents (`core/continuation.cpp`, `pipeline.cpp`), composed
   with `DenoiseLoop`'s edits; then inpainting masks (`core/inpaint.cpp`).
2. The VAE's windows: tiling and blending in the decode pipeline, against a definition of a cover.
3. Muxing and its clean-up on failure, beside `ArchiveFiles`.
4. SeedVR2's batch plan and streaming, beside `MediaUpscale`.
