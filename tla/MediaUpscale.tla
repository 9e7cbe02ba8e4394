---------------------------- MODULE MediaUpscale ----------------------------
(***************************************************************************)
(* `slopfab upscale` on a video (src/src/cli/upscale.cpp): the bounded     *)
(* media pipeline (bounded_pipeline.h) between an FFmpeg decoder and an    *)
(* FFmpeg encoder child (pipe_process.cpp).  The producer thread reads     *)
(* frames from the decoder's pipe, the main thread restores them, the      *)
(* consumer thread writes them to the encoder's pipe.  The encoder writes  *)
(* a temporary file that the command renames at the end.                   *)
(*                                                                         *)
(* A step is a critical section of the pipeline's mutex, a blocking pipe   *)
(* operation, or an action of a child process or of the user (SIGINT).     *)
(* Frames are numbered in the order the decoder emits them.                *)
(***************************************************************************)
EXTENDS Naturals, Sequences

CONSTANTS MaxFrames,  \* bound on the length of the input video
          Capacity,   \* items either queue holds (2 in the command)
          None

ASSUME MediaAssumption ==
  /\ MaxFrames \in Nat
  /\ Capacity \in Nat \ {0}
  /\ None \notin {"source", "sink", "spawn", "launch", "model", "cancelled", "interrupted",
                  "stopped", "undrained", "empty", "rename"}

VARIABLES
  total,        \* frames in the input video
  \* the BoundedPipeline
  input, output, failure, stopped, sourceDone, outputDone, sinkDone,
  pc,           \* where "main", "producer" and "consumer" are
  asleep,       \* workers waiting on the condition variable; main polls instead
  item,         \* frame each thread has last taken in hand, until it has passed it on; 0 is none
  \* the child processes
  child,        \* "none", "running", "clean", "crashed", "killed"
  finished,     \* PipeProcess::finish has reaped it
  eof,          \* the encoder's stdin is closed
  delivered,    \* frames read from the decoder's pipe
  encoded,      \* frames the encoder has read, in order
  \* the command
  mediaStopped, interrupted, written, error,
  file          \* "none", "partial" (the temporary), "committed"

queueVars == <<input, output, failure, stopped, sourceDone, outputDone, sinkDone>>
ioVars    == <<child, finished, eof, delivered, encoded>>
mainVars  == <<mediaStopped, interrupted, written, error, file>>
mediaVars == <<total, queueVars, pc, asleep, item, ioVars, mainVars>>

Workers  == {"producer", "consumer"}
Children == {"decoder", "encoder"}
Errors   == {"source", "sink", "spawn", "launch", "model", "cancelled", "interrupted", "stopped",
             "undrained", "empty", "rename"}

MediaTypeOK ==
  /\ total \in 0 .. MaxFrames
  /\ input \in Seq(1 .. total) /\ output \in Seq(1 .. total)
  /\ Len(input) <= Capacity /\ Len(output) <= Capacity
  /\ failure \in {None, "source", "sink"}
  /\ stopped \in BOOLEAN /\ sourceDone \in BOOLEAN /\ outputDone \in BOOLEAN /\ sinkDone \in BOOLEAN
  /\ pc["producer"] \in {"unborn", "source", "reap", "source_done", "push",
                         "fail", "stop", "stop_decoder", "stop_encoder", "exited"}
  /\ pc["consumer"] \in {"unborn", "pop", "sink", "close", "reap", "sink_done",
                         "fail", "stop", "stop_decoder", "stop_encoder", "exited"}
  /\ pc["main"] \in {"launch", "spawn_producer", "spawn_consumer", "read", "upscale", "write",
                     "finish", "await_sink", "join", "rename", "rethrow",
                     "stop", "stop_decoder", "stop_encoder", "exited", "cleanup",
                     "unlink", "succeeded", "failed"}
  /\ asleep \subseteq Workers
  /\ item \in [Workers \cup {"main"} -> 0 .. total]
  /\ child \in [Children -> {"none", "running", "clean", "crashed", "killed"}]
  /\ finished \in [Children -> BOOLEAN]
  /\ eof \in BOOLEAN
  /\ delivered \in 0 .. total
  /\ encoded \in Seq(1 .. total)
  /\ mediaStopped \in BOOLEAN /\ interrupted \in BOOLEAN
  /\ written \in 0 .. total
  /\ error \in Errors \cup {None}
  /\ file \in {"none", "partial", "committed"}

MediaInit ==
  /\ total \in 0 .. MaxFrames
  /\ input = <<>> /\ output = <<>> /\ failure = None
  /\ stopped = FALSE /\ sourceDone = FALSE /\ outputDone = FALSE /\ sinkDone = FALSE
  /\ pc = [th \in Workers \cup {"main"} |-> IF th = "main" THEN "launch" ELSE "unborn"]
  /\ asleep = {}
  /\ item = [th \in Workers \cup {"main"} |-> 0]
  /\ child = [c \in Children |-> "none"]
  /\ finished = [c \in Children |-> FALSE]
  /\ eof = FALSE /\ delivered = 0 /\ encoded = <<>>
  /\ mediaStopped = FALSE /\ interrupted = FALSE /\ written = 0 /\ error = None
  /\ file = "none"

----
(* Helpers.                                                                *)

Goto(th, l) == pc' = [pc EXCEPT ![th] = l]
Take(th, f) == item' = [item EXCEPT ![th] = f]

HasRoomOffByOne(q) == Len(q) <= Capacity  \* mistake
HasRoom(q) == Len(q) < Capacity

PushFront(q, f) == <<f>> \o q  \* mistake
Push(q, f) == Append(q, f)

\* changed_.notify_all(): each waiter re-evaluates its predicate.
NobodyWakes == UNCHANGED asleep  \* mistake
NotifyAll == asleep' = {}

Dead(c) == child[c] \in {"crashed", "killed"}

\* waitpid has an exit status, and FFmpeg ended with 0.
ExitedAtAll(c) == child[c] # "running"  \* mistake
ExitedCleanly(c) == child[c] = "clean"

\* PipeProcess::cancel, under process_mutex.
CancelNothing(c) == UNCHANGED child  \* mistake
CancelChild(c) ==
  child' = [child EXCEPT ![c] = IF @ = "running" /\ ~finished[c] THEN "killed" ELSE @]

----
(* stop(), stop_io and fail(): run by a worker that failed, and by main    *)
(* when it destroys the pipeline.                                          *)

\* fail(): the first failure is kept.
RecordFailure(w) ==
  /\ pc[w] = "fail"
  /\ failure' = IF failure = None THEN (IF w = "producer" THEN "source" ELSE "sink") ELSE failure
  /\ Goto(w, "stop")
  /\ UNCHANGED <<total, input, output, stopped, sourceDone, outputDone, sinkDone, asleep, item,
                 ioVars, mainVars>>

Stop(th) ==
  /\ pc[th] = "stop"
  /\ stopped' = TRUE
  /\ NotifyAll
  /\ Goto(th, "stop_decoder")
  /\ UNCHANGED <<total, input, output, failure, sourceDone, outputDone, sinkDone, item, ioVars,
                 mainVars>>

StopDecoder(th) ==
  /\ pc[th] = "stop_decoder"
  /\ mediaStopped' = TRUE
  /\ CancelChild("decoder")
  /\ Goto(th, "stop_encoder")
  /\ UNCHANGED <<total, queueVars, asleep, item, finished, eof, delivered, encoded,
                 interrupted, written, error, file>>

StopEncoder(th) ==
  /\ pc[th] = "stop_encoder"
  /\ CancelChild("encoder")
  /\ Goto(th, "exited")
  /\ UNCHANGED <<total, queueVars, asleep, item, finished, eof, delivered, encoded, mainVars>>

StopStep(th) == Stop(th) \/ StopDecoder(th) \/ StopEncoder(th)

----
(* The producer: produce() with the command's decode source.               *)

\* A whole frame comes out of the pipe, where it may outlive the decoder.
SourceFrame ==
  /\ pc["producer"] = "source"
  /\ delivered < total
  /\ delivered' = delivered + 1
  /\ Take("producer", delivered + 1)
  /\ Goto("producer", "push")
  /\ UNCHANGED <<total, queueVars, asleep, child, finished, eof, encoded, mainVars>>

\* The pipe ends: between two frames, or, after a crash or a kill, within one.
SourceEnd ==
  /\ pc["producer"] = "source"
  /\ \/ /\ Dead("decoder") \/ (child["decoder"] = "clean" /\ delivered = total)
        /\ Goto("producer", "reap")
     \/ /\ Dead("decoder") /\ delivered < total
        /\ Goto("producer", "fail")
  /\ UNCHANGED <<total, queueVars, asleep, item, ioVars, mainVars>>

\* reader.finish() polls waitpid and throws unless the decoder exited with 0.
ReapDecoder ==
  /\ pc["producer"] = "reap"
  /\ child["decoder"] # "running"
  /\ finished' = [finished EXCEPT !["decoder"] = TRUE]
  /\ Goto("producer", IF ExitedCleanly("decoder") THEN "source_done" ELSE "fail")
  /\ UNCHANGED <<total, queueVars, asleep, item, child, eof, delivered, encoded, mainVars>>

SourceDone ==
  /\ pc["producer"] = "source_done"
  /\ sourceDone' = TRUE
  /\ NotifyAll
  /\ Goto("producer", "exited")
  /\ UNCHANGED <<total, input, output, failure, stopped, outputDone, sinkDone, item, ioVars, mainVars>>

PushInput ==
  /\ pc["producer"] = "push"
  /\ "producer" \notin asleep
  /\ \/ /\ stopped
        /\ Goto("producer", "exited")
        /\ UNCHANGED <<input, item, asleep>>
     \/ /\ ~stopped /\ HasRoom(input)
        /\ input' = Push(input, item["producer"])
        /\ Take("producer", 0)
        /\ NotifyAll
        /\ Goto("producer", "source")
     \/ /\ ~stopped /\ ~HasRoom(input)
        /\ asleep' = asleep \cup {"producer"}
        /\ UNCHANGED <<input, item, pc>>
  /\ UNCHANGED <<total, output, failure, stopped, sourceDone, outputDone, sinkDone, ioVars, mainVars>>

----
(* The consumer: consume() with the command's encode and finish sinks.     *)

PopOutput ==
  /\ pc["consumer"] = "pop"
  /\ "consumer" \notin asleep
  /\ \/ /\ stopped
        /\ Goto("consumer", "exited")
        /\ UNCHANGED <<output, item, asleep>>
     \/ /\ ~stopped /\ output # <<>>
        /\ Take("consumer", Head(output))
        /\ output' = Tail(output)
        /\ NotifyAll
        /\ Goto("consumer", "sink")
     \/ /\ ~stopped /\ output = <<>> /\ outputDone
        /\ Goto("consumer", "close")
        /\ UNCHANGED <<output, item, asleep>>
     \/ /\ ~stopped /\ output = <<>> /\ ~outputDone
        /\ asleep' = asleep \cup {"consumer"}
        /\ UNCHANGED <<output, item, pc>>
  /\ UNCHANGED <<total, input, failure, stopped, sourceDone, outputDone, sinkDone, ioVars, mainVars>>

\* writer.write(): the encoder reads the frame ...
SinkFrame ==
  /\ pc["consumer"] = "sink"
  /\ child["encoder"] = "running"
  /\ encoded' = Append(encoded, item["consumer"])
  /\ Take("consumer", 0)
  /\ Goto("consumer", "pop")
  /\ UNCHANGED <<total, queueVars, asleep, child, finished, eof, delivered, mainVars>>

\* ... or the pipe is broken.
SinkBroken ==
  /\ pc["consumer"] = "sink"
  /\ Dead("encoder")
  /\ Goto("consumer", "fail")
  /\ UNCHANGED <<total, queueVars, asleep, item, ioVars, mainVars>>

\* writer.finish() closes the pipe, then polls waitpid.
CloseSink ==
  /\ pc["consumer"] = "close"
  /\ eof' = TRUE
  /\ Goto("consumer", "reap")
  /\ UNCHANGED <<total, queueVars, asleep, item, child, finished, delivered, encoded, mainVars>>

ReapEncoder ==
  /\ pc["consumer"] = "reap"
  /\ child["encoder"] # "running"
  /\ finished' = [finished EXCEPT !["encoder"] = TRUE]
  /\ Goto("consumer", IF ExitedCleanly("encoder") THEN "sink_done" ELSE "fail")
  /\ UNCHANGED <<total, queueVars, asleep, item, child, eof, delivered, encoded, mainVars>>

SinkDone ==
  /\ pc["consumer"] = "sink_done"
  /\ sinkDone' = TRUE
  /\ NotifyAll
  /\ Goto("consumer", "exited")
  /\ UNCHANGED <<total, input, output, failure, stopped, sourceDone, outputDone, item, ioVars, mainVars>>

----
(* The main thread.  Its waits poll every 50 ms, so that a step is enabled *)
(* as soon as its condition holds, notified or not.                        *)

\* check(): what the next look at the pipeline throws.
Trouble == IF failure # None THEN failure
           ELSE IF interrupted THEN "interrupted"
           ELSE IF stopped THEN "stopped" ELSE None

\* An exception within the frame loop goes through the handler that calls rethrow_failure.
Throw(e) == error' = e /\ Goto("main", "rethrow")

\* The two PipeProcess constructors; FFmpeg creates the temporary file.
Launch ==
  /\ pc["main"] = "launch"
  /\ \/ /\ child' = [c \in Children |-> "running"]
        /\ file' = "partial"
        /\ Goto("main", "spawn_producer")
        /\ UNCHANGED error
     \/ /\ \E started \in SUBSET {"decoder"} :
             child' = [c \in Children |-> IF c \in started THEN "running" ELSE "none"]
        /\ error' = "launch"
        /\ Goto("main", "cleanup")
        /\ UNCHANGED file
  /\ UNCHANGED <<total, queueVars, asleep, item, finished, eof, delivered, encoded, mediaStopped,
                 interrupted, written>>

\* The BoundedPipeline constructor; a thread that cannot be created stops and joins the other.
Spawn(from, w, first, to) ==
  /\ pc["main"] = from
  /\ \/ /\ pc' = [pc EXCEPT ![w] = first, !["main"] = to]
        /\ UNCHANGED error
     \/ /\ error' = "spawn"
        /\ Goto("main", "stop")
  /\ UNCHANGED <<total, queueVars, asleep, item, ioVars, mediaStopped, interrupted, written, file>>
SpawnProducer == Spawn("spawn_producer", "producer", "source", "spawn_consumer")
SpawnConsumer == Spawn("spawn_consumer", "consumer", "pop", "read")

Read ==
  /\ pc["main"] = "read"
  /\ \/ /\ Trouble # None
        /\ Throw(Trouble)
        /\ UNCHANGED <<input, item, asleep>>
     \/ /\ Trouble = None /\ input # <<>>
        /\ Take("main", Head(input))
        /\ input' = Tail(input)
        /\ NotifyAll
        /\ Goto("main", "upscale")
        /\ UNCHANGED error
     \/ /\ Trouble = None /\ input = <<>> /\ sourceDone
        /\ Goto("main", "finish")
        /\ UNCHANGED <<input, item, asleep, error>>
  /\ UNCHANGED <<total, output, failure, stopped, sourceDone, outputDone, sinkDone, ioVars,
                 mediaStopped, interrupted, written, file>>

\* The model restores the frame, fails, or finds itself cancelled.
Restore ==
  /\ pc["main"] = "upscale"
  /\ \/ Goto("main", "write") /\ UNCHANGED error
     \/ Throw("model")
     \/ (interrupted \/ mediaStopped) /\ Throw("cancelled")
  /\ UNCHANGED <<total, queueVars, asleep, item, ioVars, mediaStopped, interrupted, written, file>>

Write ==
  /\ pc["main"] = "write"
  /\ \/ /\ Trouble # None
        /\ Throw(Trouble)
        /\ UNCHANGED <<output, item, asleep, written>>
     \/ /\ Trouble = None /\ HasRoom(output)
        /\ output' = Push(output, item["main"])
        /\ Take("main", 0)
        /\ NotifyAll
        /\ written' = written + 1
        /\ Goto("main", "read")
        /\ UNCHANGED error
  /\ UNCHANGED <<total, input, failure, stopped, sourceDone, outputDone, sinkDone, ioVars,
                 mediaStopped, interrupted, file>>

Finish ==
  /\ pc["main"] = "finish"
  /\ IF Trouble # None \/ ~sourceDone \/ input # <<>>
       THEN /\ Throw(IF Trouble # None THEN Trouble ELSE "undrained")
            /\ UNCHANGED <<outputDone, asleep>>
       ELSE /\ outputDone' = TRUE
            /\ NotifyAll
            /\ Goto("main", "await_sink")
            /\ UNCHANGED error
  /\ UNCHANGED <<total, input, output, failure, stopped, sourceDone, sinkDone, item, ioVars,
                 mediaStopped, interrupted, written, file>>

AwaitSink ==
  /\ pc["main"] = "await_sink"
  /\ \/ Trouble # None /\ Throw(Trouble)
     \/ Trouble = None /\ sinkDone /\ Goto("main", "join") /\ UNCHANGED error
  /\ UNCHANGED <<total, queueVars, asleep, item, ioVars, mediaStopped, interrupted, written, file>>

Joinable(w) == pc[w] \in {"unborn", "exited"}
JoinedProducer == Joinable("producer")  \* mistake
Joined == \A w \in Workers : Joinable(w)

\* join(), then the empty-input check.
Join ==
  /\ pc["main"] = "join"
  /\ Joined
  /\ IF written = 0 THEN error' = "empty" /\ Goto("main", "stop")
                    ELSE Goto("main", "rename") /\ UNCHANGED error
  /\ UNCHANGED <<total, queueVars, asleep, item, ioVars, mediaStopped, interrupted, written, file>>

Rename ==
  /\ pc["main"] = "rename"
  /\ \/ file' = "committed" /\ UNCHANGED error
     \/ error' = "rename" /\ UNCHANGED file
  /\ Goto("main", "stop")
  /\ UNCHANGED <<total, queueVars, asleep, item, ioVars, mediaStopped, interrupted, written>>

\* rethrow_failure() replaces the exception in flight by the first worker failure.
SecondaryError == error  \* mistake
PrimaryError == IF failure # None THEN failure ELSE error

Rethrow ==
  /\ pc["main"] = "rethrow"
  /\ error' = PrimaryError
  /\ Goto("main", "stop")
  /\ UNCHANGED <<total, queueVars, asleep, item, ioVars, mediaStopped, interrupted, written, file>>

\* ~BoundedPipeline has stopped the workers and now joins them.
JoinStopped ==
  /\ pc["main"] = "exited"
  /\ Joined
  /\ Goto("main", "cleanup")
  /\ UNCHANGED <<total, queueVars, asleep, item, ioVars, mainVars>>

\* The PipeProcess destructors kill and reap what has not been reaped.
DestroyChildren ==
  /\ pc["main"] = "cleanup"
  /\ child' = [c \in Children |-> IF child[c] = "running" THEN "killed" ELSE child[c]]
  /\ finished' = [c \in Children |-> child[c] # "none"]
  /\ Goto("main", IF error = None THEN "succeeded" ELSE "unlink")
  /\ UNCHANGED <<total, queueVars, asleep, item, eof, delivered, encoded, mainVars>>

Unlink ==
  /\ pc["main"] = "unlink"
  /\ file' = "none"
  /\ Goto("main", "failed")
  /\ UNCHANGED <<total, queueVars, asleep, item, ioVars, mediaStopped, interrupted, written, error>>

----
(* Children, user, specification.                                          *)

Ended == pc["main"] \in {"succeeded", "failed"}

\* A child exits with 0 (the encoder at the end of its input) or fails; it may also hang.
ChildExits(c) ==
  /\ child[c] = "running"
  /\ \E e \in {"clean", "crashed"} :
       /\ e = "clean" /\ c = "encoder" => eof
       /\ child' = [child EXCEPT ![c] = e]
  /\ UNCHANGED <<total, queueVars, pc, asleep, item, finished, eof, delivered, encoded, mainVars>>

Interrupt ==
  /\ ~interrupted /\ ~Ended
  /\ interrupted' = TRUE
  /\ UNCHANGED <<total, queueVars, pc, asleep, item, ioVars, mediaStopped, written, error, file>>

Terminated == Ended /\ UNCHANGED mediaVars

MainStep == \/ Launch \/ SpawnProducer \/ SpawnConsumer
            \/ Read \/ Restore \/ Write \/ Finish \/ AwaitSink \/ Join \/ Rename
            \/ Rethrow \/ StopStep("main") \/ JoinStopped \/ DestroyChildren \/ Unlink

ProducerStep == SourceEnd \/ ReapDecoder \/ SourceDone \/ PushInput
                \/ RecordFailure("producer") \/ StopStep("producer")

ConsumerStep == PopOutput \/ SinkBroken \/ CloseSink \/ ReapEncoder \/ SinkDone
                \/ RecordFailure("consumer") \/ StopStep("consumer")

\* Steps that wait for a child to emit or to read a frame, or to exit.
ChildStep == SourceFrame \/ SinkFrame \/ \E c \in Children : ChildExits(c)

MediaNext == MainStep \/ ProducerStep \/ ConsumerStep \/ ChildStep \/ Interrupt \/ Terminated

MediaSpec == MediaInit /\ [][MediaNext]_mediaVars

\* What an exited decoder has left in the pipe is read without waiting for it.
BufferedFrame == child["decoder"] # "running" /\ SourceFrame

----
(* Properties.                                                             *)

Held(th) == IF item[th] = 0 THEN <<>> ELSE <<item[th]>>

\* Between the decoder and the encoder, through both bounded queues and the three threads, no frame
\* is lost, duplicated or reordered; a failure drops only frames that are still on their way.
FramesInOrder ==
  encoded \o Held("consumer") \o output \o Held("main") \o input \o Held("producer")
    = [i \in 1 .. delivered |-> i]

\* The output name appears only with every frame of the input in it and with both FFmpeg processes
\* ended successfully; a crash that looks like the end of the video never commits a short file.
CommittedIsComplete ==
  file = "committed" =>
    /\ encoded = [i \in 1 .. total |-> i]
    /\ \A c \in Children : child[c] = "clean" /\ finished[c]

\* What is in the committed file is the input, frame by frame.
VideoIsComplete == FramesInOrder /\ CommittedIsComplete

\* The command ends with no worker running, no child left, and no temporary file.
CleanAtEnd ==
  Ended => /\ \A w \in Workers : Joinable(w)
           /\ \A c \in Children : child[c] # "running" /\ (child[c] # "none" => finished[c])
           /\ file = IF pc["main"] = "succeeded" THEN "committed" ELSE "none"

\* "A worker failure can interrupt model execution through cancelled(). Report its actual media
\* error instead of that secondary cancellation" (upscale.cpp): the consequences of stop() are never
\* what the user is told.
NoSecondaryError ==
  pc["main"] = "failed" => /\ error \notin {"stopped", "undrained"}
                           /\ error = "cancelled" => interrupted

\* However the command ends, it leaves nothing behind and says why.
EndsWell == CleanAtEnd /\ NoSecondaryError
=============================================================================
