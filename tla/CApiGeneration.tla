--------------------------- MODULE CApiGeneration ---------------------------
(***************************************************************************)
(* The asynchronous generation handle of slopfab's C API and the process-  *)
(* wide claim that serialises it (src/src/capi/internal.h, generation.cpp, *)
(* latent_upscale.cpp, plans.cpp, assets.cpp), together with the session   *)
(* and execution locks taken under it (src/src/generation/session.cpp).    *)
(*                                                                         *)
(* Host threads call the API; every accepted generation has a worker       *)
(* thread.  One action is one step between two synchronisation points of   *)
(* the code: an atomic load or store, a compare-exchange, a critical       *)
(* section, a condition-variable wait, a thread creation or a join.        *)
(***************************************************************************)
EXTENDS Naturals, FiniteSets

CONSTANTS Handles,        \* slopfab_generation objects, each allocated once
          Threads,        \* host threads
          Sessions,       \* GenerationSession objects, DefaultSession included
          DefaultSession, \* the function-local static of default_session()
          Modes,          \* "generate", "upscale" (latents only), "upscale_decode"
          Failures,       \* failure codes of a run: RUNTIME, OUT_OF_MEMORY...
          Checkpoints,    \* bound: progress_hook calls of a run after its first one
          None            \* no holder, no argument

ASSUME CApiAssumption ==
  /\ DefaultSession \in Sessions
  /\ "generate" \in Modes /\ Modes \subseteq {"generate", "upscale", "upscale_decode"}
  /\ Checkpoints \in Nat
  /\ None \notin Handles \cup Threads \cup Sessions
  /\ Handles \cap Threads = {} /\ Handles \cap Sessions = {}
  /\ "RUNTIME" \in Failures
  /\ Failures \cap {"OK", "CANCELLED", "NOT_READY", "busy", "none", "running", "unborn"} = {}

VARIABLES
  active,      \* g_generation_active
  sessionLock, \* holder of each GenerationSession::Impl::mutex
  execLock,    \* holder of execution_mutex
  \* the slopfab_generation objects
  life,        \* "fresh", "building" (unique_ptr in start), "owned", "dying", "freed"
  mode,        \* what the worker runs
  session,     \* gen->session, DefaultSession standing for a null pointer
  wpc,         \* where the worker is
  ckpt,        \* checkpoints the run has passed
  result,      \* the outcome the worker has computed and not yet published
  cancel, status, done, error,  \* the fields of that name; error names the outcome it describes
  samples,     \* "empty", "filled" (samples_hook moved the buffers in), "released"
  \* the host threads
  tpc,         \* where the thread is inside an API call, or "idle"
  targ,        \* the handle or session the call works on
  forever,     \* slopfab_generation_wait was called with a negative timeout
  borrowed     \* handles whose sample pointers the host holds

claimVars == <<active, sessionLock, execLock>>
runVars   == <<wpc, ckpt, result>>
fieldVars == <<cancel, status, done, error, samples>>
objVars   == <<life, mode, session>>
hostVars  == <<tpc, targ, forever, borrowed>>
vars == <<claimVars, runVars, fieldVars, objVars, hostVars>>

Results == {"OK", "CANCELLED", "busy"} \cup Failures
Terminal == {"OK", "CANCELLED"} \cup Failures
\* "generation execution is busy" is a plain failed RunResult: classify() makes it RUNTIME.
CodeUnclassified(r) == r  \* mistake: only exceptions are classified
CodeOf(r) == IF r = "busy" THEN "RUNTIME" ELSE r

TypeOK ==
  /\ active \in BOOLEAN
  /\ sessionLock \in [Sessions -> Handles \cup Threads \cup {None}]
  /\ execLock \in Handles \cup {None}
  /\ life \in [Handles -> {"fresh", "building", "owned", "dying", "freed"}]
  /\ mode \in [Handles -> Modes]
  /\ session \in [Handles -> Sessions]
  /\ wpc \in [Handles -> {"none", "begin", "try_execution", "check_locks", "running",
                          "unlock", "cleanup", "finish", "publish", "notify", "exited"}]
  /\ ckpt \in [Handles -> 0 .. Checkpoints]
  /\ result \in [Handles -> Results \cup {"none"}]
  /\ cancel \in [Handles -> BOOLEAN]
  /\ status \in [Handles -> Terminal \cup {"NOT_READY"}]
  /\ done \in [Handles -> BOOLEAN]
  /\ error \in [Handles -> Results \cup {"none"}]
  /\ samples \in [Handles -> {"empty", "filled", "released"}]
  /\ tpc \in [Threads -> {"idle", "allocate", "spawn", "hand_out", "exclusive", "reused_try",
                          "reused_clear", "session_clear", "wait_check", "parked", "join"}]
  /\ targ \in [Threads -> Handles \cup Sessions \cup {None}]
  /\ forever \in [Threads -> BOOLEAN]
  /\ borrowed \in SUBSET Handles

Init ==
  /\ active = FALSE
  /\ sessionLock = [s \in Sessions |-> None]
  /\ execLock = None
  /\ life = [h \in Handles |-> "fresh"]
  /\ mode = [h \in Handles |-> "generate"]
  /\ session = [h \in Handles |-> DefaultSession]
  /\ wpc = [h \in Handles |-> "none"]
  /\ ckpt = [h \in Handles |-> 0]
  /\ result = [h \in Handles |-> "none"]
  /\ cancel = [h \in Handles |-> FALSE]
  /\ status = [h \in Handles |-> "NOT_READY"]
  /\ done = [h \in Handles |-> FALSE]
  /\ error = [h \in Handles |-> "none"]
  /\ samples = [h \in Handles |-> "empty"]
  /\ tpc = [t \in Threads |-> "idle"]
  /\ targ = [t \in Threads |-> None]
  /\ forever = [t \in Threads |-> FALSE]
  /\ borrowed = {}

----
(* Host calls.  Enter and Return move a thread into and out of a call.  A  *)
(* call that is refused before it changes anything (null argument, invalid *)
(* request, BUSY, a source generation that is not OK, a status query) is a *)
(* stuttering step and has no action.                                      *)

Enter(t, pc, arg) ==
  /\ tpc[t] = "idle"
  /\ tpc' = [tpc EXCEPT ![t] = pc]
  /\ targ' = [targ EXCEPT ![t] = arg]

Return(t) ==
  /\ tpc' = [tpc EXCEPT ![t] = "idle"]
  /\ targ' = [targ EXCEPT ![t] = None]
  /\ forever' = [forever EXCEPT ![t] = FALSE]

\* compare_exchange_strong(false, true) succeeds; otherwise the call returns BUSY.
Claim(t, pc) ==
  /\ ~active
  /\ active' = TRUE
  /\ Enter(t, pc, None)
  /\ UNCHANGED <<sessionLock, execLock, runVars, fieldVars, objVars, forever, borrowed>>

\* slopfab_generation_start and launch() of the latent upscales, their validation passed.
Start(t) == Claim(t, "allocate")

\* The destructor of ActiveClaim, on every path that launches no worker.
GuardForgets == UNCHANGED active  \* mistake
GuardReleases == active' = FALSE

\* The handle is built under the ActiveClaim guard; a throw releases the claim.
Allocate(t) ==
  /\ tpc[t] = "allocate"
  /\ \/ \E h \in Handles, m \in Modes, s \in Sessions :
          /\ life[h] = "fresh"
          /\ m # "generate" => s = DefaultSession
          /\ life' = [life EXCEPT ![h] = "building"]
          /\ mode' = [mode EXCEPT ![h] = m]
          /\ session' = [session EXCEPT ![h] = s]
          /\ tpc' = [tpc EXCEPT ![t] = "spawn"]
          /\ targ' = [targ EXCEPT ![t] = h]
          /\ UNCHANGED <<claimVars, forever>>
     \/ /\ GuardReleases
        /\ Return(t)
        /\ UNCHANGED <<objVars, sessionLock, execLock>>
  /\ UNCHANGED <<runVars, fieldVars, borrowed>>

\* std::thread either starts the worker or throws; then the guards free claim and handle.
Spawn(t) ==
  /\ tpc[t] = "spawn"
  /\ \/ /\ wpc' = [wpc EXCEPT ![targ[t]] = "begin"]
        /\ tpc' = [tpc EXCEPT ![t] = "hand_out"]
        /\ UNCHANGED <<claimVars, life, targ, forever>>
     \/ /\ GuardReleases
        /\ life' = [life EXCEPT ![targ[t]] = "freed"]
        /\ Return(t)
        /\ UNCHANGED <<sessionLock, execLock, wpc>>
  /\ UNCHANGED <<ckpt, result, fieldVars, mode, session, borrowed>>

\* claim.release() and *out_generation: the worker, possibly finished by now, owns the claim.
HandOut(t) ==
  /\ tpc[t] = "hand_out"
  /\ life' = [life EXCEPT ![targ[t]] = "owned"]
  /\ Return(t)
  /\ UNCHANGED <<claimVars, runVars, fieldVars, mode, session, borrowed>>

\* Mistake: cancelling publishes the outcome itself.
CancelPublishing(t, h) ==
  /\ tpc[t] = "idle"
  /\ life[h] = "owned"
  /\ cancel' = [cancel EXCEPT ![h] = TRUE]
  /\ status' = [status EXCEPT ![h] = "CANCELLED"]
  /\ UNCHANGED <<claimVars, runVars, objVars, hostVars, done, error, samples>>

Cancel(t, h) ==
  /\ tpc[t] = "idle"
  /\ life[h] = "owned"
  /\ cancel' = [cancel EXCEPT ![h] = TRUE]
  /\ UNCHANGED <<claimVars, runVars, objVars, hostVars, status, done, error, samples>>

----
(* Synchronous calls under the same claim: LCS calibration and the refmod  *)
(* and prompt-embedding exports, and clearing the default session's cache. *)

Exclusive(t) == Claim(t, "exclusive")

ExclusiveEnd(t) ==
  /\ tpc[t] = "exclusive"
  /\ active' = FALSE
  /\ Return(t)
  /\ UNCHANGED <<sessionLock, execLock, runVars, fieldVars, objVars, borrowed>>

\* Mistake: the flag is tested and not taken.
ReusedModelsClearUnclaimed(t) ==
  /\ ~active
  /\ Enter(t, "reused_try", None)
  /\ UNCHANGED <<claimVars, runVars, fieldVars, objVars, forever, borrowed>>

ReusedModelsClear(t) == Claim(t, "reused_try")

\* GenerationSession::clear throws when it cannot take the mutex at once.
ReusedTry(t) ==
  /\ tpc[t] = "reused_try"
  /\ IF sessionLock[DefaultSession] = None
       THEN /\ sessionLock' = [sessionLock EXCEPT ![DefaultSession] = t]
            /\ tpc' = [tpc EXCEPT ![t] = "reused_clear"]
            /\ UNCHANGED <<active, targ, forever>>
       ELSE active' = FALSE /\ Return(t) /\ UNCHANGED sessionLock
  /\ UNCHANGED <<execLock, runVars, fieldVars, objVars, borrowed>>

ReusedClear(t) ==
  /\ tpc[t] = "reused_clear"
  /\ sessionLock' = [sessionLock EXCEPT ![DefaultSession] = None]
  /\ active' = FALSE
  /\ Return(t)
  /\ UNCHANGED <<execLock, runVars, fieldVars, objVars, borrowed>>

\* slopfab_session_clear takes no claim: it may meet a running generation, or a starting one.
SessionClear(t, s) ==
  /\ s # DefaultSession
  /\ sessionLock[s] = None
  /\ Enter(t, "session_clear", s)
  /\ sessionLock' = [sessionLock EXCEPT ![s] = t]
  /\ UNCHANGED <<active, execLock, runVars, fieldVars, objVars, forever, borrowed>>

SessionCleared(t) ==
  /\ tpc[t] = "session_clear"
  /\ sessionLock' = [sessionLock EXCEPT ![targ[t]] = None]
  /\ Return(t)
  /\ UNCHANGED <<active, execLock, runVars, fieldVars, objVars, borrowed>>

----
(* Calls on a handle the host owns.                                        *)

Wait(t, h, negative) ==
  /\ life[h] = "owned"
  /\ Enter(t, "wait_check", h)
  /\ forever' = [forever EXCEPT ![t] = negative]
  /\ UNCHANGED <<claimVars, runVars, fieldVars, objVars, borrowed>>

\* Under gen->mutex: the predicate, then either the status load or the wait.
WaitCheck(t) ==
  /\ tpc[t] = "wait_check"
  /\ IF done[targ[t]]
       THEN Return(t)
       ELSE /\ tpc' = [tpc EXCEPT ![t] = "parked"]
            /\ UNCHANGED <<targ, forever>>
  /\ UNCHANGED <<claimVars, runVars, fieldVars, objVars, borrowed>>

WaitTimeout(t) ==
  /\ tpc[t] = "parked"
  /\ ~forever[t]
  /\ Return(t)
  /\ UNCHANGED <<claimVars, runVars, fieldVars, objVars, borrowed>>

SpuriousWake(t) ==
  /\ tpc[t] = "parked"
  /\ tpc' = [tpc EXCEPT ![t] = "wait_check"]
  /\ UNCHANGED <<claimVars, runVars, fieldVars, objVars, targ, forever, borrowed>>

SamplesReadableUnchecked(h) == samples[h] # "released" /\ mode[h] # "upscale"  \* mistake
SamplesReadable(h) == status[h] = "OK" /\ samples[h] # "released" /\ mode[h] # "upscale"

\* slopfab_generation_output: OK lends the sample pointers to the host.
Output(t, h) ==
  /\ tpc[t] = "idle"
  /\ life[h] = "owned"
  /\ SamplesReadable(h)
  /\ borrowed' = borrowed \cup {h}
  /\ UNCHANGED <<claimVars, runVars, fieldVars, objVars, tpc, targ, forever>>

\* The host serialises this with its sample readers (capi.h), so it drops its pointers.
ReleaseSamples(t, h) ==
  /\ tpc[t] = "idle"
  /\ life[h] = "owned"
  /\ status[h] # "NOT_READY"
  /\ samples' = [samples EXCEPT ![h] = "released"]
  /\ borrowed' = borrowed \ {h}
  /\ UNCHANGED <<claimVars, runVars, objVars, cancel, status, done, error, tpc, targ, forever>>

\* capi.h: not while another thread is inside a call on the handle.
Destroy(t, h) ==
  /\ life[h] = "owned"
  /\ \A u \in Threads : targ[u] # h
  /\ Enter(t, "join", h)
  /\ life' = [life EXCEPT ![h] = "dying"]
  /\ cancel' = [cancel EXCEPT ![h] = TRUE]
  /\ borrowed' = borrowed \ {h}
  /\ UNCHANGED <<claimVars, runVars, mode, session, status, done, error, samples, forever>>

\* worker.join() returns.
JoinedOrFinished(h) == wpc[h] = "exited" \/ status[h] # "NOT_READY"  \* mistake
Joined(h) == wpc[h] = "exited"

\* The join, and delete.
DestroyJoin(t) ==
  /\ tpc[t] = "join"
  /\ Joined(targ[t])
  /\ life' = [life EXCEPT ![targ[t]] = "freed"]
  /\ Return(t)
  /\ UNCHANGED <<claimVars, runVars, fieldVars, mode, session, borrowed>>

----
(* The worker thread: run_worker and, for a generation, run_generate.      *)

At(h, from, to) == wpc[h] = from /\ wpc' = [wpc EXCEPT ![h] = to]

\* run_generate tries the session mutex; an upscale runs without either lock.
\* Its first progress_hook already looks at the cancel flag.
WorkerBegin(h) ==
  /\ \/ /\ mode[h] = "generate"
        /\ At(h, "begin", "try_execution")
        /\ sessionLock' = IF sessionLock[session[h]] = None
                            THEN [sessionLock EXCEPT ![session[h]] = h]
                            ELSE sessionLock
        /\ UNCHANGED result
     \/ /\ mode[h] # "generate"
        /\ IF cancel[h]
             THEN /\ At(h, "begin", "cleanup")
                  /\ result' = [result EXCEPT ![h] = "CANCELLED"]
             ELSE At(h, "begin", "running") /\ UNCHANGED result
        /\ UNCHANGED sessionLock
  /\ UNCHANGED <<active, execLock, ckpt, fieldVars, objVars, hostVars>>

WorkerTryExecution(h) ==
  /\ At(h, "try_execution", "check_locks")
  /\ execLock' = IF execLock = None THEN h ELSE execLock
  /\ UNCHANGED <<active, sessionLock, ckpt, result, fieldVars, objVars, hostVars>>

\* Either lock missing: a failed RunResult, not an exception; whatever is held is released.
WorkerCheckLocks(h) ==
  /\ \/ /\ sessionLock[session[h]] = h
        /\ execLock = h
        /\ At(h, "check_locks", "running")
        /\ UNCHANGED result
     \/ /\ ~(sessionLock[session[h]] = h /\ execLock = h)
        /\ At(h, "check_locks", "unlock")
        /\ result' = [result EXCEPT ![h] = "busy"]
  /\ UNCHANGED <<claimVars, ckpt, fieldVars, objVars, hostVars>>

WorkerLeave(h, r) ==
  /\ At(h, "running", IF mode[h] = "generate" THEN "unlock" ELSE "cleanup")
  /\ result' = [result EXCEPT ![h] = r]
  /\ ckpt' = [ckpt EXCEPT ![h] = 0]

\* progress_hook: the callback, then the cancel flag.  Checkpoints only bounds the exploration.
WorkerCheckpoint(h) ==
  /\ ckpt[h] < Checkpoints
  /\ IF cancel[h]
       THEN WorkerLeave(h, "CANCELLED")
       ELSE /\ wpc[h] = "running"
            /\ ckpt' = [ckpt EXCEPT ![h] = @ + 1]
            /\ UNCHANGED <<wpc, result>>
  /\ UNCHANGED <<claimVars, fieldVars, objVars, hostVars>>

\* Past the last checkpoint the run delivers: samples_hook moves the buffers in.
WorkerComplete(h) ==
  /\ ckpt[h] = Checkpoints
  /\ WorkerLeave(h, "OK")
  /\ samples' = IF mode[h] = "upscale" THEN samples ELSE [samples EXCEPT ![h] = "filled"]
  /\ UNCHANGED <<claimVars, cancel, status, done, error, objVars, hostVars>>

WorkerFail(h) ==
  /\ \E r \in Failures : WorkerLeave(h, r)
  /\ UNCHANGED <<claimVars, fieldVars, objVars, hostVars>>

\* unique_lock::owns_lock in the destructors.
OwnsUnlessBusy(h, holder) == holder = h /\ result[h] # "busy"  \* mistake
Owns(h, holder) == holder = h

\* run_generate returns: its unique_locks release what they own.
WorkerUnlock(h) ==
  /\ At(h, "unlock", "cleanup")
  /\ sessionLock' = IF Owns(h, sessionLock[session[h]])
                      THEN [sessionLock EXCEPT ![session[h]] = None] ELSE sessionLock
  /\ execLock' = IF Owns(h, execLock) THEN None ELSE execLock
  /\ UNCHANGED <<active, ckpt, result, fieldVars, objVars, hostVars>>

\* Mistake: completion becomes visible while the claim is still held.
WorkerReleaseAfterDone(h) ==
  /\ At(h, "cleanup", "finish")
  /\ done' = [done EXCEPT ![h] = TRUE]
  /\ UNCHANGED <<claimVars, ckpt, result, cancel, status, error, samples, objVars, hostVars>>

\* The input snapshots are dropped and the claim is released, before finish().
WorkerRelease(h) ==
  /\ At(h, "cleanup", "finish")
  /\ active' = FALSE
  /\ UNCHANGED <<sessionLock, execLock, ckpt, result, fieldVars, objVars, hostVars>>

\* Mistake: the status is stored before the message.
WorkerFinishStatusFirst(h) ==
  /\ At(h, "finish", "publish")
  /\ status' = [status EXCEPT ![h] = CodeOf(result[h])]
  /\ UNCHANGED <<claimVars, ckpt, result, cancel, done, error, samples, objVars, hostVars>>

\* finish(): the critical section, the status store, the notification.
WorkerFinish(h) ==
  /\ At(h, "finish", "publish")
  /\ error' = [error EXCEPT ![h] = result[h]]
  /\ done' = [done EXCEPT ![h] = TRUE]
  /\ UNCHANGED <<claimVars, ckpt, result, cancel, status, samples, objVars, hostVars>>

\* Mistake: a cancelled run stores no status.
WorkerPublishUnlessCancelled(h) ==
  /\ At(h, "publish", "notify")
  /\ status' = [status EXCEPT ![h] = IF cancel[h] THEN @ ELSE CodeOf(result[h])]
  /\ UNCHANGED <<claimVars, ckpt, result, cancel, done, error, samples, objVars, hostVars>>

WorkerPublish(h) ==
  /\ At(h, "publish", "notify")
  /\ status' = [status EXCEPT ![h] = CodeOf(result[h])]
  /\ UNCHANGED <<claimVars, ckpt, result, cancel, done, error, samples, objVars, hostVars>>

Parked(h) == {t \in Threads : tpc[t] = "parked" /\ targ[t] = h}

\* done_cv.notify_all
WokenByNotifyOne(h) == {t \in Parked(h) : t = CHOOSE u \in Parked(h) : TRUE}  \* mistake
Woken(h) == Parked(h)

WorkerNotify(h) ==
  /\ At(h, "notify", "exited")
  /\ tpc' = [t \in Threads |-> IF t \in Woken(h) THEN "wait_check" ELSE tpc[t]]
  /\ result' = [result EXCEPT ![h] = "none"]
  /\ UNCHANGED <<claimVars, ckpt, fieldVars, objVars, targ, forever, borrowed>>

----

WorkerStep(h) ==
  \/ WorkerBegin(h) \/ WorkerTryExecution(h) \/ WorkerCheckLocks(h)
  \/ WorkerCheckpoint(h) \/ WorkerComplete(h) \/ WorkerFail(h)
  \/ WorkerUnlock(h) \/ WorkerRelease(h)
  \/ WorkerFinish(h) \/ WorkerPublish(h) \/ WorkerNotify(h)

\* A thread inside a call goes on with it; a timed wait times out.
CallStep(t) ==
  \/ Allocate(t) \/ Spawn(t) \/ HandOut(t) \/ ExclusiveEnd(t)
  \/ ReusedTry(t) \/ ReusedClear(t) \/ SessionCleared(t)
  \/ WaitCheck(t) \/ WaitTimeout(t) \/ DestroyJoin(t)

NewCall(t) ==
  \/ Start(t) \/ Exclusive(t) \/ ReusedModelsClear(t)
  \/ \E s \in Sessions : SessionClear(t, s)
  \/ \E h \in Handles :
       \/ Cancel(t, h)
       \/ \E negative \in BOOLEAN : Wait(t, h, negative)
       \/ Output(t, h) \/ ReleaseSamples(t, h) \/ Destroy(t, h)

Next == \/ \E h \in Handles : WorkerStep(h)
        \/ \E t \in Threads : CallStep(t) \/ NewCall(t) \/ SpuriousWake(t)

Spec == Init /\ [][Next]_vars

\* The operating system schedules every thread; the host need not make another call.
Fairness == /\ \A h \in Handles : WF_vars(WorkerStep(h))
            /\ \A t \in Threads : WF_vars(CallStep(t))

FairSpec == Spec /\ Fairness

----
(* Properties.                                                             *)

\* Who holds the execution claim: a host thread between its compare-exchange and its hand-over or
\* release, or a worker until it stores false.
ThreadHoldsClaim(t) == tpc[t] \in {"allocate", "spawn", "exclusive", "reused_try", "reused_clear"}
WorkerHoldsClaim(h) == wpc[h] \in {"begin", "try_execution", "check_locks", "running", "unlock", "cleanup"}
Owners == {t \in Threads : ThreadHoldsClaim(t)} \cup {h \in Handles : WorkerHoldsClaim(h)}

\* One operation at a time uses the process-global GPU state, and g_generation_active is true
\* exactly while there is one: overlapping runs and a flag stranded at true are both excluded,
\* through every failure between the compare-exchange and the worker's start.
ClaimHasOneOwner ==
  /\ \A o, p \in Owners : o = p
  /\ active <=> Owners # {}

\* A generation whose completion the host can observe no longer occupies the claim, so the host
\* woken by slopfab_generation_wait can start the next run (comment before the store in run_worker).
StartableOnceDone == active => \E o \in Owners : o \in Threads \/ ~done[o]

\* The try_locks below the claim never meet another run: a run finds its session taken only by a
\* concurrent slopfab_session_clear, the execution mutex is free, and slopfab_reused_models_clear
\* never sees the default session in use.
RefusedOnlyByClear ==
  /\ \A h \in Handles : wpc[h] = "begin" =>
       sessionLock[session[h]] \in {None} \cup {t \in Threads : tpc[t] = "session_clear"}
  /\ \A h \in Handles : wpc[h] = "try_execution" => execLock = None
  /\ \A t \in Threads : tpc[t] = "reused_try" => sessionLock[DefaultSession] = None

\* slopfab_generation_error reads the message as soon as the status is terminal: by then the
\* message is the one of that status and the worker will not write it again.
ErrorReadableOnceTerminal ==
  \A h \in Handles : status[h] # "NOT_READY" =>
    done[h] /\ error[h] # "none" /\ CodeOf(error[h]) = status[h]

\* Deleting a handle waits for its worker: nothing of the worker runs, and no thread is parked on
\* the condition variable, once the handle is freed.
FreedHandleUnused ==
  \A h \in Handles : life[h] = "freed" =>
    /\ wpc[h] \in {"none", "exited"}
    /\ \A t \in Threads : targ[t] # h

\* Sample pointers the host may still dereference point into buffers that the worker has finished
\* filling and nobody has released.
BorrowedSamplesStay ==
  \A h \in borrowed : samples[h] = "filled" /\ life[h] = "owned" /\ status[h] = "OK"

\* A published outcome never changes: cancelling or destroying a finished run does not rewrite it.
OutcomeIsFinal ==
  [][\A h \in Handles : status[h] # "NOT_READY" =>
       status'[h] = status[h] /\ error'[h] = error[h] /\ done'[h]]_vars

\* capi.h on slopfab_generation_wait: "a timeout is reported as SLOPFAB_ERR_NOT_READY ... Negative
\* waits forever", so a wait without a timeout returns a terminal status.
WaitForeverReturnsTerminal ==
  [][\A t \in Threads :
       tpc[t] \in {"wait_check", "parked"} /\ forever[t] /\ tpc'[t] = "idle"
         => status[targ[t]] # "NOT_READY"]_vars

\* The abstract execution slot: the claim moves from caller to worker to nobody, and each launched
\* generation publishes one outcome after giving the slot back.
Slot == IF Owners = {} THEN None ELSE CHOOSE o \in Owners : TRUE
Outcome == [h \in Handles |-> IF wpc[h] = "none" THEN "unborn"
                              ELSE IF status[h] = "NOT_READY" THEN "running" ELSE status[h]]

Serial == INSTANCE SerialRuns WITH
  Outcomes <- Terminal, NoOne <- None, slot <- Slot, outcome <- Outcome

SerialSpec == Serial!Spec

\* Every accepted generation reaches a terminal status.
RunsEnd == \A h \in Handles : wpc[h] = "begin" ~> status[h] # "NOT_READY"

\* Every API call returns: waiters are woken, joins end, claims are not waited for.
CallsReturn == \A t \in Threads : []<>(tpc[t] = "idle")

\* The process never becomes BUSY for good.
ClaimComesBack == []<>(~active)

\* A started run ends, and the claim with it, so that another can start.
RunsEndAndRelease == RunsEnd /\ ClaimComesBack
=============================================================================
