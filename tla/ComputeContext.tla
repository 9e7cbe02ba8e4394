--------------------------- MODULE ComputeContext ---------------------------
(***************************************************************************)
(* The Vulkan compute context (src/src/vulkan/runtime_compute.cpp and      *)
(* runtime_compute_state.h): a fixed set of command slots is reserved,     *)
(* recorded, submitted to one queue and recycled when the timeline         *)
(* semaphore passes the value of the submission.  A slot keeps every       *)
(* buffer its commands use alive until then.  Any thread may record or     *)
(* submit; the context's mutex protects the slots, the queue's mutex the   *)
(* queue.                                                                  *)
(***************************************************************************)
EXTENDS Integers, Sequences, SequencesExt, FiniteSets, FiniteSetsExt

CONSTANTS Threads,   \* threads recording commands
          Buffers,   \* device buffers of the application
          MaxInFlight,  \* number of slots
          MaxValue   \* bound: submissions

ASSUME ComputeAssumption == MaxInFlight \in Nat \ {0} /\ MaxValue \in Nat

Slots == 1 .. MaxInFlight

VARIABLES
  open,       \* the ComputeContext object exists
  destroyed,  \* ~ComputeState has run
  slot,       \* the state of each slot, its VkCommandBuffer included
  nextValue,  \* next timeline value
  jobs,       \* submissions the queue has not finished, in order
  completed,  \* the timeline semaphore
  phase,         \* "idle", "scan", "wait", "begin", "recording", "ended", "submitted"
  waiting,    \* the timeline value a begin() waits for
  list,       \* the CommandList of a thread
  token,      \* the value of the Submission a thread keeps, 0 if none
  handle      \* buffers the application still holds

slotsVars == <<open, destroyed, slot, nextValue, jobs, completed, phase, waiting, list, token, handle>>

FreeSlot == [reserved |-> FALSE, poisoned |-> FALSE, value |-> 0, held |-> {}, commands |-> "initial"]
NoList == [slot |-> 0, held |-> {}]

SlotsTypeOK ==
  /\ open \in BOOLEAN /\ destroyed \in BOOLEAN
  /\ slot \in [Slots -> [reserved : BOOLEAN, poisoned : BOOLEAN, value : 0 .. MaxValue,
                         held : SUBSET Buffers,
                         commands : {"initial", "recording", "executable", "pending", "invalid"}]]
  /\ nextValue \in 1 .. (MaxValue + 1)
  /\ jobs \in Seq([value : 1 .. MaxValue, slot : Slots, uses : SUBSET Buffers])
  /\ completed \in 0 .. (nextValue - 1)
  /\ phase \in [Threads -> {"idle", "scan", "wait", "begin", "recording", "ended", "submitted"}]
  /\ waiting \in [Threads -> 0 .. (MaxValue + 1)]
  /\ \A t \in Threads : waiting[t] # 0 <=> phase[t] = "wait"
  /\ list \in [Threads -> [slot : Slots \cup {0}, held : SUBSET Buffers]]
  /\ token \in [Threads -> 0 .. MaxValue]
  /\ handle \subseteq Buffers

SlotsInit ==
  /\ open = TRUE /\ destroyed = FALSE
  /\ slot = [s \in Slots |-> FreeSlot]
  /\ nextValue = 1 /\ jobs = <<>> /\ completed = 0
  /\ phase = [t \in Threads |-> "idle"] /\ waiting = [t \in Threads |-> 0]
  /\ list = [t \in Threads |-> NoList] /\ token = [t \in Threads |-> 0]
  /\ handle = Buffers

Enter(t, l) == phase' = [phase EXCEPT ![t] = l]

----
(* Recycling.                                                              *)

Recyclable(s) == slot[s].reserved /\ slot[s].value \in 1 .. completed

\* What recycle_locked may make of the slots.  It goes through them in order and throws at the
\* first command buffer that cannot be reset: that slot has dropped its buffers, the later ones wait.
Recycled ==
  LET ready == {s \in Slots : Recyclable(s)}
  IN [slots |-> [s \in Slots |-> IF s \in ready THEN FreeSlot ELSE slot[s]], throws |-> FALSE]

RecycledUpTo(f) ==
  [slots |-> [s \in Slots |-> IF ~Recyclable(s) \/ s > f THEN slot[s]
                              ELSE IF s < f THEN FreeSlot
                              ELSE [slot[s] EXCEPT !.held = {}, !.commands = "invalid"]],
   throws |-> TRUE]

\* Reading the timeline may fail as well, before anything is recycled.
RecycleOutcomes ==
  {Recycled, [slots |-> slot, throws |-> TRUE]} \cup {RecycledUpTo(f) : f \in {s \in Slots : Recyclable(s)}}

----
(* ComputeContext::begin.                                                  *)

CallBegin(t) ==
  /\ phase[t] = "idle" /\ open /\ list[t] = NoList
  /\ Enter(t, "scan")
  /\ UNCHANGED <<open, destroyed, slot, nextValue, jobs, completed, waiting, list, token, handle>>

OldestOfAll(slots) == Min({slots[s].value : s \in Slots})  \* mistake
Newest(slots) == nextValue  \* mistake
Oldest(slots) == Min({slots[s].value : s \in Slots} \ {0})

\* Recycle, then take the first usable slot, or wait for the oldest submission, or give up when
\* nothing was submitted.
Scan(t) ==
  /\ phase[t] = "scan"
  /\ \E r \in RecycleOutcomes :
       LET usable == {s \in Slots : ~r.slots[s].reserved /\ ~r.slots[s].poisoned}
           submitted == {s \in Slots : r.slots[s].value # 0}
       IN \/ /\ r.throws \/ (usable = {} /\ submitted = {})
             /\ slot' = r.slots
             /\ Enter(t, "idle")
             /\ UNCHANGED <<waiting, list>>
          \/ /\ ~r.throws /\ usable # {}
             /\ slot' = [r.slots EXCEPT ![Min(usable)].reserved = TRUE]
             /\ list' = [list EXCEPT ![t].slot = Min(usable)]
             /\ Enter(t, "begin")
             /\ UNCHANGED waiting
          \/ /\ ~r.throws /\ usable = {} /\ submitted # {}
             /\ slot' = r.slots
             /\ waiting' = [waiting EXCEPT ![t] = Oldest(r.slots)]
             /\ Enter(t, "wait")
             /\ UNCHANGED list
  /\ UNCHANGED <<open, destroyed, nextValue, jobs, completed, token, handle>>

Waited(t) ==
  /\ phase[t] = "wait" /\ completed >= waiting[t]
  /\ waiting' = [waiting EXCEPT ![t] = 0]
  /\ Enter(t, "scan")
  /\ UNCHANGED <<open, destroyed, slot, nextValue, jobs, completed, list, token, handle>>

\* vkWaitSemaphores reports a lost device.
WaitFails(t) ==
  /\ phase[t] = "wait"
  /\ waiting' = [waiting EXCEPT ![t] = 0]
  /\ Enter(t, "idle")
  /\ UNCHANGED <<open, destroyed, slot, nextValue, jobs, completed, list, token, handle>>

StartRecording(t) ==
  /\ phase[t] = "begin"
  /\ slot' = [slot EXCEPT ![list[t].slot].commands = "recording"]
  /\ Enter(t, "recording")
  /\ UNCHANGED <<open, destroyed, nextValue, jobs, completed, waiting, list, token, handle>>

\* The slot of a thread after a failed begin() or a dropped list: reset for reuse, or never used
\* again if even that fails.
ReleasedIfReset(s, ok) == IF ok THEN FreeSlot ELSE slot[s]  \* mistake
Released(s, ok) == [FreeSlot EXCEPT !.poisoned = ~ok, !.commands = IF ok THEN "initial" ELSE "invalid"]

GiveBack(t) ==
  /\ \E ok \in BOOLEAN : slot' = [slot EXCEPT ![list[t].slot] = Released(list[t].slot, ok)]
  /\ list' = [list EXCEPT ![t] = NoList]
  /\ Enter(t, "idle")
  /\ UNCHANGED <<open, destroyed, nextValue, jobs, completed, waiting, token, handle>>

\* No memory for the list, or vkBeginCommandBuffer fails.
BeginFails(t) == phase[t] = "begin" /\ GiveBack(t)

----
(* Recording, submitting and dropping a command list.                      *)

\* copy_buffer, barrier and bind_compute retain what they record.
Record(t, b) ==
  /\ phase[t] = "recording" /\ b \in handle
  /\ list' = [list EXCEPT ![t].held = @ \cup {b}]
  /\ UNCHANGED <<open, destroyed, slot, nextValue, jobs, completed, phase, waiting, token, handle>>

\* vkEndCommandBuffer succeeds; its failure leaves the list to its destructor.
CallSubmit(t) ==
  /\ phase[t] = "recording" /\ open /\ token[t] = 0
  /\ slot' = [slot EXCEPT ![list[t].slot].commands = "executable"]
  /\ Enter(t, "ended")
  /\ UNCHANGED <<open, destroyed, nextValue, jobs, completed, waiting, list, token, handle>>

\* The buffers are handed from the list to the slot in the critical section that submits.
SubmitJob(t) ==
  LET s == list[t].slot
  IN /\ phase[t] = "ended"
     /\ nextValue <= MaxValue
     /\ jobs' = Append(jobs, [value |-> nextValue, slot |-> s, uses |-> list[t].held])
     /\ nextValue' = nextValue + 1
     /\ slot' = [slot EXCEPT ![s].value = nextValue, ![s].held = list[t].held, ![s].commands = "pending"]
     /\ list' = [list EXCEPT ![t].held = {}]
     /\ token' = [token EXCEPT ![t] = nextValue]
     /\ Enter(t, "submitted")
     /\ UNCHANGED <<open, destroyed, completed, waiting, handle>>

SubmitReturnsRecording(t) == phase[t] = "submitted" /\ GiveBack(t)  \* mistake: recording still set

\* recording = false, and the list, which now owns nothing, is destroyed.
SubmitReturns(t) ==
  /\ phase[t] = "submitted"
  /\ list' = [list EXCEPT ![t] = NoList]
  /\ Enter(t, "idle")
  /\ UNCHANGED <<open, destroyed, slot, nextValue, jobs, completed, waiting, token, handle>>

\* ~CommandList::Impl of a list that was not submitted: abandoned while recording, or left by a
\* failed vkEndCommandBuffer or vkQueueSubmit.
Drop(t) == phase[t] \in {"recording", "ended"} /\ GiveBack(t)

DropToken(t) ==
  /\ phase[t] = "idle" /\ token[t] # 0
  /\ token' = [token EXCEPT ![t] = 0]
  /\ UNCHANGED <<open, destroyed, slot, nextValue, jobs, completed, phase, waiting, list, handle>>

Collect(t) ==
  /\ phase[t] = "idle" /\ open
  /\ \E r \in RecycleOutcomes : slot' = r.slots
  /\ UNCHANGED <<open, destroyed, nextValue, jobs, completed, phase, waiting, list, token, handle>>

----
(* The application lets go of a buffer, the queue works, and the context   *)
(* is destroyed: its state lives as long as a list or a submission does.   *)

DropBuffer(b) ==
  /\ b \in handle
  /\ handle' = handle \ {b}
  /\ UNCHANGED <<open, destroyed, slot, nextValue, jobs, completed, phase, waiting, list, token>>

\* Submissions to one queue signal the timeline in order.
QueueFinishes ==
  /\ jobs # <<>>
  /\ completed' = Head(jobs).value
  /\ jobs' = Tail(jobs)
  /\ slot' = [slot EXCEPT ![Head(jobs).slot].commands = IF @ = "pending" THEN "executable" ELSE @]
  /\ UNCHANGED <<open, destroyed, nextValue, phase, waiting, list, token, handle>>

CloseContext ==
  /\ open /\ \A t \in Threads : phase[t] \in {"idle", "recording"}
  /\ open' = FALSE
  /\ UNCHANGED <<destroyed, slot, nextValue, jobs, completed, phase, waiting, list, token, handle>>

\* ~ComputeState waits for the last submission before it frees anything.
DestroyState ==
  /\ ~open /\ ~destroyed
  /\ \A t \in Threads : list[t] = NoList /\ token[t] = 0
  /\ completed >= nextValue - 1
  /\ destroyed' = TRUE
  /\ slot' = [s \in Slots |-> [FreeSlot EXCEPT !.commands = "invalid"]]
  /\ UNCHANGED <<open, nextValue, jobs, completed, phase, waiting, list, token, handle>>

\* Nothing is left once the state and every buffer are gone.
Gone == destroyed /\ handle = {} /\ UNCHANGED slotsVars

ThreadStep(t) ==
  \/ CallBegin(t) \/ Scan(t) \/ Waited(t) \/ WaitFails(t) \/ StartRecording(t) \/ BeginFails(t)
  \/ \E b \in Buffers : Record(t, b)
  \/ CallSubmit(t) \/ SubmitJob(t) \/ SubmitReturns(t) \/ Drop(t) \/ DropToken(t) \/ Collect(t)

\* The calls that go on by themselves; whether to record or submit is the application's choice.
GoesOn(t) == Waited(t) \/ Scan(t) \/ SubmitReturns(t)

SlotsNext ==
  \/ \E t \in Threads : ThreadStep(t)
  \/ \E b \in Buffers : DropBuffer(b)
  \/ QueueFinishes \/ CloseContext \/ DestroyState \/ Gone

SlotsSpec == SlotsInit /\ [][SlotsNext]_slotsVars

----
(* Properties.                                                             *)

Alive(b) == b \in handle \/ (\E s \in Slots : b \in slot[s].held) \/ (\E t \in Threads : b \in list[t].held)

\* While the device may still execute a submission its command buffer is not reset, begun or freed,
\* its slot is not given to anybody, and every buffer its commands use stays allocated, whatever the
\* application has dropped or destroyed meanwhile.
PendingUntouched ==
  \A k \in DOMAIN jobs :
    LET s == jobs[k].slot
    IN /\ slot[s].commands = "pending" /\ slot[s].reserved /\ slot[s].value = jobs[k].value
       /\ \A b \in jobs[k].uses : Alive(b)
       /\ \A t \in Threads : list[t].slot = s => phase[t] = "submitted"

\* No order of failures (of a begin, a submission, a reset while recycling) strands a slot: one that
\* is reserved is being recorded by exactly one thread or carries the value that will free it.
NoStrandedSlot ==
  \A s \in Slots :
    LET recorders == {t \in Threads : list[t].slot = s /\ phase[t] # "submitted"}
    IN IF slot[s].reserved /\ slot[s].value = 0 THEN Cardinality(recorders) = 1 ELSE recorders = {}

\* Whatever the device has been given stays as it was given, and every slot is accounted for.
SlotsKept == PendingUntouched /\ NoStrandedSlot
=============================================================================
