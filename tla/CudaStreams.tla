----------------------------- MODULE CudaStreams -----------------------------
(***************************************************************************)
(* What the CUDA runtime promises the streaming code of the repository     *)
(* (cudaMemcpyAsync, kernel launches, cudaEventRecord, cudaStreamWaitEvent *)
(* and the synchronize calls), as the BlockStreamer, the text encoder and  *)
(* the uploader use it.  A stream runs its items one after the other; two  *)
(* streams are ordered by events only.  Work takes time: what it writes is *)
(* torn from its start to its end, and what it reads has to stay put for   *)
(* as long.  Each item carries what it has to find in memory (wants) and   *)
(* what it leaves there (gives), as the host meant when it issued it.      *)
(***************************************************************************)
EXTENDS Naturals, Sequences, SequencesExt, Functions

Streams == {"compute", "copy"}

\* Each client has a pair of events of each kind, one for each of its two slots.
Events == {"filled", "emptied"} \X {0, 1}

VARIABLES
  queue,     \* the items of each stream, the one it runs first
  running,   \* whether a stream has started the work at its head
  recorded,  \* how often the host has issued a record of an event
  reached,   \* the last record of an event the device has passed
  memory     \* the contents of the places, host and device, that are allocated

cudaVars == <<queue, running, recorded, reached, memory>>

Torn == <<"torn">>
None == <<>>   \* the function without places
At(p, content) == [q \in {p} |-> content]
Over(new, old) == [p \in DOMAIN new \cup DOMAIN old |-> IF p \in DOMAIN new THEN new[p] ELSE old[p]]

Work(wants, gives) == [kind |-> "work", wants |-> wants, gives |-> gives]

\* cudaStreamWaitEvent waits for the latest record issued before it; an event never recorded has
\* been reached.
WaitFor(e) == [kind |-> "wait", event |-> e, at |-> recorded[e]]
RecordOf(e) == [kind |-> "record", event |-> e, at |-> recorded[e] + 1]
WaitForRecordOf(e) == [kind |-> "wait", event |-> e, at |-> recorded[e] + 1]

CudaInit(places) ==
  /\ queue = [s \in Streams |-> <<>>] /\ running = [s \in Streams |-> FALSE]
  /\ recorded = [e \in Events |-> 0] /\ reached = [e \in Events |-> 0]
  /\ memory = places

\* The host appends items to the two streams, records of the events in "events" among them.
Issue(onCompute, onCopy, events) ==
  /\ queue' = [queue EXCEPT !["compute"] = @ \o onCompute, !["copy"] = @ \o onCopy]
  /\ recorded' = [e \in Events |-> IF e \in events THEN recorded[e] + 1 ELSE recorded[e]]
  /\ UNCHANGED <<running, reached>>

Idle(s) == queue[s] = <<>>                      \* cudaStreamSynchronize returns
Passed(e) == reached[e] = recorded[e]           \* cudaEventSynchronize returns

-----------------------------------------------------------------------------
(* The device.                                                             *)

Runs(s, kind) == queue[s] # <<>> /\ Head(queue[s]).kind = kind
Pops(s) == queue' = [queue EXCEPT ![s] = Tail(@)]

\* Work whose output is its input (the in-place subtraction) does not tear it for itself.
Starts(s) ==
  /\ Runs(s, "work") /\ ~running[s]
  /\ running' = [running EXCEPT ![s] = TRUE]
  /\ LET w == Head(queue[s])
     IN memory' = [p \in DOMAIN memory |->
                     IF p \in DOMAIN w.gives \ DOMAIN w.wants THEN Torn ELSE memory[p]]
  /\ UNCHANGED <<queue, recorded, reached>>

Finishes(s) ==
  /\ running[s] /\ Pops(s)
  /\ running' = [running EXCEPT ![s] = FALSE]
  /\ memory' = Restrict(Over(Head(queue[s]).gives, memory), DOMAIN memory)
  /\ UNCHANGED <<recorded, reached>>

PassesRecord(s) ==
  /\ Runs(s, "record") /\ Pops(s)
  /\ reached' = [reached EXCEPT ![Head(queue[s]).event] = Head(queue[s]).at]
  /\ UNCHANGED <<running, recorded, memory>>

PassesWait(s) ==
  /\ Runs(s, "wait") /\ Pops(s)
  /\ reached[Head(queue[s]).event] >= Head(queue[s]).at
  /\ UNCHANGED <<running, recorded, reached, memory>>

StreamStep(s) == Starts(s) \/ Finishes(s) \/ PassesRecord(s) \/ PassesWait(s)

-----------------------------------------------------------------------------
Places(w) == DOMAIN w.wants \cup DOMAIN w.gives

\* While a kernel or a transfer runs, it finds what the host meant it to find, from its start to
\* its end: no copy refills a slot under a kernel, no kernel starts before its weights are in, no
\* host code repacks a staging buffer under a transfer, no block of another layer stands there.
WorkFindsItsInput ==
  \A s \in Streams : running[s] =>
    LET w == Head(queue[s])
    IN \A p \in DOMAIN w.wants : p \in DOMAIN memory /\ memory[p] = w.wants[p]

\* Whatever is still queued only names memory that is allocated (or page-locked): the unloading
\* code drains the streams before it frees.
NothingUsesFreedMemory ==
  \A s \in Streams : \A i \in DOMAIN queue[s] :
    queue[s][i].kind = "work" => Places(queue[s][i]) \subseteq DOMAIN memory

\* The host's order of calls, and the events it records and waits for, keep both streams' work apart.
StreamsAreOrdered == WorkFindsItsInput /\ NothingUsesFreedMemory
=============================================================================
