--------------------------- MODULE WeightStreaming ---------------------------
(***************************************************************************)
(* The three users of CUDA streams that move weights, and the load that    *)
(* decides how many of them move.  Each has streams, events and memory of  *)
(* its own and they share nothing, so a behaviour is of one of them.       *)
(***************************************************************************)
EXTENDS BlockStreamer, TextEncoder, WeightUploader, OffloadLoad

CONSTANT Clients   \* which of "transformer", "encoder", "uploader", "load" to look at

VARIABLE client

vars == <<client, cudaVars, fwVars, enVars, upVars, ldVars>>

TypeOK ==
  /\ client \in Clients
  /\ TransformerTypeOK /\ EncoderTypeOK /\ UploaderTypeOK /\ OffloadTypeOK
  /\ running \in [Streams -> BOOLEAN]
  /\ \A e \in Events : recorded[e] \in Nat /\ reached[e] \in 0 .. recorded[e]
  /\ \A s \in Streams : running[s] => Runs(s, "work")

\* The others stay in one of their initial states.
Parked ==
  /\ client # "transformer" => first = NumBlocks /\ span = CHOOSE c \in CacheSpans : TRUE
  /\ client # "uploader" => locked
  /\ client # "load" => forced = 0 /\ sizesOf = CHOOSE s \in BlockSizes : TRUE

Init ==
  /\ client \in Clients
  /\ TransformerInit /\ EncoderInit /\ UploaderInit /\ OffloadInit /\ Parked
  /\ CudaInit(CASE client = "transformer" -> StreamerPlaces(first)
                [] client = "uploader" -> UploaderPlaces(locked)
                [] OTHER -> None)

IsTransformer(step) == client = "transformer" /\ step /\ UNCHANGED <<client, enVars, upVars, ldVars>>
IsEncoder(step) == client = "encoder" /\ step /\ UNCHANGED <<client, fwVars, upVars, ldVars>>
IsUploader(step) == client = "uploader" /\ step /\ UNCHANGED <<client, fwVars, enVars, ldVars>>
IsLoad(step) == client = "load" /\ step /\ UNCHANGED <<client, cudaVars, fwVars, enVars, upVars>>
IsDevice(step) == step /\ UNCHANGED <<client, fwVars, enVars, upVars, ldVars>>

Next ==
  \/ IsTransformer(TransformerNext) \/ IsEncoder(EncoderNext)
  \/ IsUploader(UploaderStep) \/ IsLoad(OffloadStep)
  \/ \E s \in Streams : IsDevice(StreamStep(s))

Spec == Init /\ [][Next]_vars

\* A call that has begun goes on (its caller waits for it), and so does the device.
CallStep ==
  \/ IsTransformer(ForwardStep) \/ IsEncoder(EncoderStep)
  \/ IsUploader(UploaderStep) \/ IsLoad(OffloadStep)

FairSpec == Spec /\ WF_vars(CallStep) /\ \A s \in Streams : WF_vars(IsDevice(StreamStep(s)))

-----------------------------------------------------------------------------
\* A load that succeeded has left every tensor on the device; one that has not retries from a clean
\* slate, and until nothing smaller is left to try.
LoadsCompleteOrRetries == LoadedIsComplete /\ PlansWithNothingHeld /\ GivesUpAtTheSmallest

Calling ==
  CASE client = "transformer" -> fwPc \notin {"idle", "unloaded"}
    [] client = "encoder" -> enPc \notin {"unloaded", "loaded"}
    [] client = "uploader" -> upPc # "closed"
    [] client = "load" -> ldPc \notin {"loaded", "failed"}

\* forward(), encode(), an upload and a load end: the host and the two streams never wait for one
\* another in a circle, and the retries of a load run out.
CallsEnd == Calling ~> ~Calling
=============================================================================
