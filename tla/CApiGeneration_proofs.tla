------------------------ MODULE CApiGeneration_proofs ------------------------
(***************************************************************************)
(* Safety of the generation handle for any number of handles, host threads *)
(* and sessions.  The inductive invariant is IInv: the types, what a       *)
(* thread inside a call works on, what each stage of a worker has already  *)
(* published, and the owner of the claim.  Beside it, the refinement of    *)
(* SerialRuns, the locks and the samples lent to the host.                 *)
(***************************************************************************)
EXTENDS CApiGeneration, TLAPS

\* A worker that has left the run knows its outcome.
ResultKnown ==
  \A h \in Handles : wpc[h] \in {"unlock", "cleanup", "finish", "publish", "notify"} =>
                       result[h] \in Results

\* What a thread inside a call works on, and that building and dying handles have one caller.
CallArguments ==
  /\ \A t \in Threads :
       /\ tpc[t] \in {"spawn", "hand_out"} => targ[t] \in Handles /\ life[targ[t]] = "building"
       /\ tpc[t] \in {"wait_check", "parked"} => targ[t] \in Handles /\ life[targ[t]] = "owned"
       /\ tpc[t] = "join" => targ[t] \in Handles /\ life[targ[t]] = "dying"
       /\ tpc[t] \notin {"spawn", "hand_out", "wait_check", "parked", "join"} =>
            targ[t] \notin Handles
  /\ \A t, u \in Threads :
       targ[t] \in Handles /\ targ[t] = targ[u] /\ life[targ[t]] \in {"building", "dying"} => t = u

\* A handle has a worker once its caller has spawned one, and none that runs once it is freed.
WorkerLife ==
  /\ \A t \in Threads : tpc[t] = "spawn" => wpc[targ[t]] = "none"
  /\ \A h \in Handles : life[h] = "fresh" => wpc[h] = "none"
  /\ \A h \in Handles : life[h] = "freed" => wpc[h] \in {"none", "exited"}

\* The claim, thread by thread and worker by worker.
ClaimParts ==
  /\ \A t, u \in Threads : ThreadHoldsClaim(t) /\ ThreadHoldsClaim(u) => t = u
  /\ \A h, g \in Handles : WorkerHoldsClaim(h) /\ WorkerHoldsClaim(g) => h = g
  /\ \A t \in Threads, h \in Handles : ~(ThreadHoldsClaim(t) /\ WorkerHoldsClaim(h))
  /\ active <=> \/ \E t \in Threads : ThreadHoldsClaim(t)
                \/ \E h \in Handles : WorkerHoldsClaim(h)

\* What each stage of the worker has published.
Publication ==
  \A h \in Handles :
    /\ wpc[h] \notin {"publish", "notify", "exited"} => ~done[h] /\ error[h] = "none"
    /\ wpc[h] \notin {"notify", "exited"} => status[h] = "NOT_READY"
    /\ wpc[h] = "publish" => done[h] /\ error[h] = result[h]
    /\ wpc[h] \in {"notify", "exited"} =>
         done[h] /\ error[h] \in Results /\ status[h] = CodeOf(error[h])

IInv == TypeOK /\ ResultKnown /\ CallArguments /\ WorkerLife /\ ClaimParts /\ Publication

----

\* The code of an outcome is a terminal status, never NOT_READY.
LEMMA CodeIsTerminal ==
  ASSUME NEW r \in Results
  PROVE  CodeOf(r) \in Terminal /\ CodeOf(r) # "NOT_READY"
BY CApiAssumption DEF CApiAssumption, CodeOf, Results, Terminal

LEMMA InitEstablishes == Init => IInv
<1> SUFFICES ASSUME Init PROVE IInv OBVIOUS
<1>1. TypeOK
  <2>1. mode \in [Handles -> Modes] /\ session \in [Handles -> Sessions]
    BY CApiAssumption DEF CApiAssumption, Init
  <2>2. ckpt \in [Handles -> 0 .. Checkpoints] BY CApiAssumption DEF CApiAssumption, Init
  <2>3. QED BY <2>1, <2>2 DEF Init, TypeOK
<1>2. ResultKnown /\ CallArguments /\ WorkerLife
  BY CApiAssumption DEF CApiAssumption, Init, ResultKnown, CallArguments, WorkerLife
<1>3. ClaimParts BY DEF Init, ClaimParts, ThreadHoldsClaim, WorkerHoldsClaim
<1>4. Publication BY DEF Init, Publication
<1>5. QED BY <1>1, <1>2, <1>3, <1>4 DEF IInv

----
(* Types.                                                                  *)

LEMMA TypesPreserved ==
  ASSUME TypeOK, ResultKnown, Next
  PROVE  TypeOK' /\ ResultKnown'
<1> USE CApiAssumption DEF CApiAssumption, TypeOK, ResultKnown, vars, claimVars, runVars, fieldVars, objVars, hostVars
<1>1. ASSUME NEW h \in Handles, WorkerStep(h)
      PROVE  TypeOK' /\ ResultKnown'
  <2>1. CASE WorkerBegin(h) BY <2>1 DEF WorkerBegin, At, Results
  <2>2. CASE WorkerTryExecution(h) BY <2>2 DEF WorkerTryExecution, At
  <2>3. CASE WorkerCheckLocks(h) BY <2>3 DEF WorkerCheckLocks, At, Results
  <2>4. CASE WorkerCheckpoint(h)
    BY <2>4 DEF WorkerCheckpoint, WorkerLeave, At, Results
  <2>5. CASE WorkerComplete(h) BY <2>5 DEF WorkerComplete, WorkerLeave, At, Results
  <2>6. CASE WorkerFail(h) BY <2>6 DEF WorkerFail, WorkerLeave, At, Results
  <2>7. CASE WorkerUnlock(h) BY <2>7 DEF WorkerUnlock, Owns, At
  <2>8. CASE WorkerRelease(h) BY <2>8 DEF WorkerRelease, At
  <2>9. CASE WorkerFinish(h) BY <2>9 DEF WorkerFinish, At
  <2>10. CASE WorkerPublish(h)
    <3>1. CodeOf(result[h]) \in Terminal BY <2>10, CodeIsTerminal DEF WorkerPublish, At
    <3>2. QED BY <2>10, <3>1 DEF WorkerPublish, At
  <2>11. CASE WorkerNotify(h) BY <2>11 DEF WorkerNotify, Woken, Parked, At
  <2>12. QED
    BY <1>1, <2>1, <2>2, <2>3, <2>4, <2>5, <2>6, <2>7, <2>8, <2>9, <2>10, <2>11 DEF WorkerStep
<1>2. ASSUME NEW t \in Threads, CallStep(t)
      PROVE  TypeOK' /\ ResultKnown'
  <2>1. CASE Allocate(t)
    <3>1. ASSUME NEW h \in Handles, NEW m \in Modes, NEW s \in Sessions,
                 life' = [life EXCEPT ![h] = "building"],
                 mode' = [mode EXCEPT ![h] = m], session' = [session EXCEPT ![h] = s],
                 tpc' = [tpc EXCEPT ![t] = "spawn"], targ' = [targ EXCEPT ![t] = h],
                 UNCHANGED <<claimVars, forever, runVars, fieldVars, borrowed>>
          PROVE  TypeOK' /\ ResultKnown'
      BY <3>1
    <3>2. CASE /\ active' = FALSE
               /\ Return(t)
               /\ UNCHANGED <<objVars, sessionLock, execLock, runVars, fieldVars, borrowed>>
      BY <3>2 DEF Return
    <3>3. QED BY <2>1, <3>1, <3>2 DEF Allocate, GuardReleases
  <2>2. CASE Spawn(t)
    <3>1. CASE /\ wpc' = [wpc EXCEPT ![targ[t]] = "begin"]
               /\ tpc' = [tpc EXCEPT ![t] = "hand_out"]
               /\ UNCHANGED <<claimVars, life, targ, forever>>
      BY <2>2, <3>1 DEF Spawn, GuardReleases
    <3>2. CASE Return(t) /\ life' = [life EXCEPT ![targ[t]] = "freed"] /\ UNCHANGED wpc
      BY <2>2, <3>2 DEF Spawn, GuardReleases, Return
    <3>3. QED BY <2>2, <3>1, <3>2 DEF Spawn, GuardReleases
  <2>3. CASE HandOut(t) BY <2>3 DEF HandOut, Return
  <2>4. CASE ExclusiveEnd(t) BY <2>4 DEF ExclusiveEnd, Return
  <2>5. CASE ReusedTry(t)
    <3>1. CASE Return(t) /\ active' = FALSE /\ UNCHANGED sessionLock
      BY <2>5, <3>1 DEF ReusedTry, Return
    <3>2. CASE ~(Return(t) /\ active' = FALSE /\ UNCHANGED sessionLock) BY <2>5, <3>2 DEF ReusedTry
    <3>3. QED BY <3>1, <3>2
  <2>6. CASE ReusedClear(t) BY <2>6 DEF ReusedClear, Return
  <2>7. CASE SessionCleared(t) BY <2>7 DEF SessionCleared, Return
  <2>8. CASE WaitCheck(t)
    <3>1. CASE Return(t) BY <2>8, <3>1 DEF WaitCheck, Return
    <3>2. CASE ~Return(t) BY <2>8, <3>2 DEF WaitCheck
    <3>3. QED BY <3>1, <3>2
  <2>9. CASE WaitTimeout(t) BY <2>9 DEF WaitTimeout, Return
  <2>10. CASE DestroyJoin(t) BY <2>10 DEF DestroyJoin, Joined, Return
  <2>11. QED BY <1>2, <2>1, <2>2, <2>3, <2>4, <2>5, <2>6, <2>7, <2>8, <2>9, <2>10 DEF CallStep
<1>3. ASSUME NEW t \in Threads, NewCall(t) \/ SpuriousWake(t)
      PROVE  TypeOK' /\ ResultKnown'
  <2>1. ASSUME NEW pc \in {"allocate", "exclusive", "reused_try"}, Claim(t, pc)
        PROVE  TypeOK' /\ ResultKnown'
    BY <2>1 DEF Claim, Enter
  <2>2. ASSUME NEW s \in Sessions, SessionClear(t, s)
        PROVE  TypeOK' /\ ResultKnown'
    BY <2>2 DEF SessionClear, Enter
  <2>3. ASSUME NEW h \in Handles, Cancel(t, h)
        PROVE  TypeOK' /\ ResultKnown'
    BY <2>3 DEF Cancel
  <2>4. ASSUME NEW h \in Handles, NEW negative \in BOOLEAN, Wait(t, h, negative)
        PROVE  TypeOK' /\ ResultKnown'
    BY <2>4 DEF Wait, Enter
  <2>5. ASSUME NEW h \in Handles, Output(t, h) \/ ReleaseSamples(t, h)
        PROVE  TypeOK' /\ ResultKnown'
    BY <2>5 DEF Output, ReleaseSamples
  <2>6. ASSUME NEW h \in Handles, Destroy(t, h)
        PROVE  TypeOK' /\ ResultKnown'
    BY <2>6 DEF Destroy, Enter
  <2>7. CASE SpuriousWake(t) BY <2>7 DEF SpuriousWake
  <2>8. QED
    BY <1>3, <2>1, <2>2, <2>3, <2>4, <2>5, <2>6, <2>7
    DEF NewCall, Start, Exclusive, ReusedModelsClear
<1>4. QED BY <1>1, <1>2, <1>3 DEF Next

----
(* Calls: which handle a thread works on, and when a handle has a worker.  *)

\* Worker steps move no thread into or out of a call, except that they wake parked ones.
LEMMA WorkerStepKeepsCalls ==
  ASSUME TypeOK, NEW h \in Handles, WorkerStep(h)
  PROVE  /\ UNCHANGED <<life, targ>>
         /\ tpc' \in [Threads -> {"idle", "allocate", "spawn", "hand_out", "exclusive", "reused_try",
                          "reused_clear", "session_clear", "wait_check", "parked", "join"}]
         /\ \A t \in Threads : tpc'[t] # tpc[t] => tpc[t] = "parked" /\ tpc'[t] = "wait_check"
         /\ wpc[h] \notin {"none", "exited"}
         /\ \A g \in Handles : g # h => wpc'[g] = wpc[g]
         /\ wpc'[h] # "none"
<1> USE DEF TypeOK, At, WorkerLeave, objVars, hostVars, runVars
<1>1. CASE WorkerBegin(h) BY <1>1 DEF WorkerBegin
<1>2. CASE WorkerTryExecution(h) \/ WorkerCheckLocks(h)
  BY <1>2 DEF WorkerTryExecution, WorkerCheckLocks
<1>3. CASE WorkerCheckpoint(h) BY <1>3 DEF WorkerCheckpoint
<1>4. CASE WorkerComplete(h) \/ WorkerFail(h) BY <1>4 DEF WorkerComplete, WorkerFail
<1>5. CASE WorkerUnlock(h) \/ WorkerRelease(h) BY <1>5 DEF WorkerUnlock, Owns, WorkerRelease
<1>6. CASE WorkerFinish(h) \/ WorkerPublish(h) BY <1>6 DEF WorkerFinish, WorkerPublish
<1>7. CASE WorkerNotify(h) BY <1>7 DEF WorkerNotify, Woken, Parked
<1>8. QED BY <1>1, <1>2, <1>3, <1>4, <1>5, <1>6, <1>7 DEF WorkerStep

LEMMA CallsPreserved ==
  ASSUME TypeOK, CallArguments, WorkerLife, Next
  PROVE  CallArguments' /\ WorkerLife'
<1> USE CApiAssumption DEF CApiAssumption, TypeOK, CallArguments, WorkerLife,
        claimVars, runVars, fieldVars, objVars, hostVars
<1>1. ASSUME NEW h \in Handles, WorkerStep(h)
      PROVE  CallArguments' /\ WorkerLife'
  <2>1. CallArguments' BY <1>1, WorkerStepKeepsCalls
  <2>2. WorkerLife' BY <1>1, WorkerStepKeepsCalls
  <2>3. QED BY <2>1, <2>2
<1>2. ASSUME NEW t \in Threads, CallStep(t)
      PROVE  CallArguments' /\ WorkerLife'
  <2>1. CASE Allocate(t)
    <3>1. ASSUME NEW h \in Handles, life[h] = "fresh",
                 life' = [life EXCEPT ![h] = "building"],
                 tpc' = [tpc EXCEPT ![t] = "spawn"], targ' = [targ EXCEPT ![t] = h],
                 UNCHANGED wpc
          PROVE  CallArguments' /\ WorkerLife'
      BY <3>1
    <3>2. CASE Return(t) /\ UNCHANGED <<life, wpc>>
      BY <2>1, <3>2 DEF Allocate, GuardReleases, Return
    <3>3. QED BY <2>1, <3>1, <3>2 DEF Allocate, GuardReleases
  <2>2. CASE Spawn(t)
    <3>1. CASE /\ wpc' = [wpc EXCEPT ![targ[t]] = "begin"]
               /\ tpc' = [tpc EXCEPT ![t] = "hand_out"]
               /\ UNCHANGED <<claimVars, life, targ, forever>>
      BY <2>2, <3>1 DEF Spawn, GuardReleases
    <3>2. CASE Return(t) /\ life' = [life EXCEPT ![targ[t]] = "freed"] /\ UNCHANGED wpc
      BY <2>2, <3>2 DEF Spawn, GuardReleases, Return
    <3>3. QED BY <2>2, <3>1, <3>2 DEF Spawn, GuardReleases
  <2>3. CASE HandOut(t) BY <2>3 DEF HandOut, Return
  <2>4. CASE ExclusiveEnd(t) \/ ReusedClear(t) \/ SessionCleared(t) \/ WaitTimeout(t)
    <3>1. Return(t) /\ UNCHANGED <<life, wpc>>
      BY <2>4 DEF ExclusiveEnd, ReusedClear, SessionCleared, WaitTimeout
    <3>2. QED BY <2>4, <3>1 DEF Return, ExclusiveEnd, ReusedClear, SessionCleared, WaitTimeout
  <2>5. CASE ReusedTry(t)
    <3>1. CASE Return(t) BY <2>5, <3>1 DEF ReusedTry, Return
    <3>2. CASE ~Return(t) BY <2>5, <3>2 DEF ReusedTry
    <3>3. QED BY <3>1, <3>2
  <2>6. CASE WaitCheck(t)
    <3>1. CASE Return(t) BY <2>6, <3>1 DEF WaitCheck, Return
    <3>2. CASE ~Return(t) BY <2>6, <3>2 DEF WaitCheck
    <3>3. QED BY <3>1, <3>2
  <2>7. CASE DestroyJoin(t) BY <2>7 DEF DestroyJoin, Joined, Return
  <2>8. QED BY <1>2, <2>1, <2>2, <2>3, <2>4, <2>5, <2>6, <2>7 DEF CallStep
<1>3. ASSUME NEW t \in Threads, NewCall(t) \/ SpuriousWake(t)
      PROVE  CallArguments' /\ WorkerLife'
  <2>1. ASSUME NEW pc \in {"allocate", "exclusive", "reused_try"}, Claim(t, pc)
        PROVE  CallArguments' /\ WorkerLife'
    BY <2>1 DEF Claim, Enter
  <2>2. ASSUME NEW s \in Sessions, SessionClear(t, s)
        PROVE  CallArguments' /\ WorkerLife'
    BY <2>2 DEF SessionClear, Enter
  <2>3. ASSUME NEW h \in Handles, Cancel(t, h) \/ Output(t, h) \/ ReleaseSamples(t, h)
        PROVE  CallArguments' /\ WorkerLife'
    BY <2>3 DEF Cancel, Output, ReleaseSamples
  <2>4. ASSUME NEW h \in Handles, NEW negative \in BOOLEAN, Wait(t, h, negative)
        PROVE  CallArguments' /\ WorkerLife'
    BY <2>4 DEF Wait, Enter
  <2>5. ASSUME NEW h \in Handles, Destroy(t, h)
        PROVE  CallArguments' /\ WorkerLife'
    BY <2>5 DEF Destroy, Enter
  <2>6. CASE SpuriousWake(t) BY <2>6 DEF SpuriousWake
  <2>7. QED
    BY <1>3, <2>1, <2>2, <2>3, <2>4, <2>5, <2>6
    DEF NewCall, Start, Exclusive, ReusedModelsClear
<1>4. QED BY <1>1, <1>2, <1>3 DEF Next

----
(* The claim.                                                              *)

\* A step that moves no thread and no worker into or out of the claim.
LEMMA ClaimUntouched ==
  ASSUME ClaimParts, UNCHANGED active,
         \A t \in Threads : ThreadHoldsClaim(t)' <=> ThreadHoldsClaim(t),
         \A h \in Handles : WorkerHoldsClaim(h)' <=> WorkerHoldsClaim(h)
  PROVE  ClaimParts'
BY DEF ClaimParts

\* A thread returns from a call and gives the claim back.
LEMMA ClaimReturned ==
  ASSUME TypeOK, ClaimParts, NEW t \in Threads, ThreadHoldsClaim(t),
         Return(t), active' = FALSE, UNCHANGED wpc
  PROVE  ClaimParts'
BY DEF TypeOK, ClaimParts, Return, ThreadHoldsClaim, WorkerHoldsClaim

LEMMA ClaimPreserved ==
  ASSUME TypeOK, CallArguments, WorkerLife, ClaimParts, Next
  PROVE  ClaimParts'
<1> USE DEF TypeOK, ThreadHoldsClaim, WorkerHoldsClaim,
        claimVars, runVars, fieldVars, objVars, hostVars
<1>1. ASSUME NEW h \in Handles, WorkerStep(h)
      PROVE  ClaimParts'
  <2>1. \A t \in Threads : ThreadHoldsClaim(t)' <=> ThreadHoldsClaim(t)
    BY <1>1, WorkerStepKeepsCalls
  <2>2. CASE WorkerRelease(h) BY <2>1, <2>2 DEF WorkerRelease, At, ClaimParts
  <2>3. CASE WorkerBegin(h) BY <2>1, <2>3, ClaimUntouched DEF WorkerBegin, At
  <2>4. CASE WorkerTryExecution(h) \/ WorkerCheckLocks(h) \/ WorkerUnlock(h)
    BY <2>1, <2>4, ClaimUntouched DEF WorkerTryExecution, WorkerCheckLocks, WorkerUnlock, Owns, At
  <2>5. CASE WorkerCheckpoint(h) \/ WorkerComplete(h) \/ WorkerFail(h)
    BY <2>1, <2>5, ClaimUntouched
    DEF WorkerCheckpoint, WorkerComplete, WorkerFail, WorkerLeave, At
  <2>6. CASE WorkerFinish(h) \/ WorkerPublish(h) \/ WorkerNotify(h)
    BY <2>1, <2>6, ClaimUntouched DEF WorkerFinish, WorkerPublish, WorkerNotify, Woken, Parked, At
  <2>7. QED BY <1>1, <2>2, <2>3, <2>4, <2>5, <2>6 DEF WorkerStep
<1>2. ASSUME NEW t \in Threads, CallStep(t)
      PROVE  ClaimParts'
  <2>1. CASE Allocate(t)
    <3>1. CASE tpc' = [tpc EXCEPT ![t] = "spawn"] /\ UNCHANGED <<active, wpc>>
      BY <2>1, <3>1, ClaimUntouched DEF Allocate, GuardReleases
    <3>2. CASE Return(t) /\ active' = FALSE BY <2>1, <3>2, ClaimReturned DEF Allocate, GuardReleases
    <3>3. QED BY <2>1, <3>1, <3>2 DEF Allocate, GuardReleases
  <2>2. CASE Spawn(t)
    <3>1. CASE /\ wpc' = [wpc EXCEPT ![targ[t]] = "begin"]
               /\ tpc' = [tpc EXCEPT ![t] = "hand_out"]
               /\ UNCHANGED <<claimVars, life, targ, forever>>
      <4>1. targ[t] \in Handles /\ tpc[t] = "spawn" BY <2>2 DEF Spawn, GuardReleases, CallArguments
      <4>2. \A u \in Threads : ~ThreadHoldsClaim(u)' BY <3>1, <4>1 DEF ClaimParts
      <4>3. \A h \in Handles : WorkerHoldsClaim(h)' <=> h = targ[t] BY <3>1, <4>1 DEF ClaimParts
      <4>4. active' = TRUE BY <3>1, <4>1 DEF ClaimParts
      <4>5. QED BY <4>1, <4>2, <4>3, <4>4 DEF ClaimParts
    <3>2. CASE Return(t) /\ active' = FALSE /\ UNCHANGED wpc
      BY <2>2, <3>2, ClaimReturned DEF Spawn, GuardReleases
    <3>3. QED BY <2>2, <3>1, <3>2 DEF Spawn, GuardReleases
  <2>3. CASE ExclusiveEnd(t) \/ ReusedClear(t) BY <2>3, ClaimReturned DEF ExclusiveEnd, ReusedClear
  <2>4. CASE ReusedTry(t)
    <3>1. CASE tpc' = [tpc EXCEPT ![t] = "reused_clear"] /\ UNCHANGED active
      BY <2>4, <3>1, ClaimUntouched DEF ReusedTry
    <3>2. CASE Return(t) /\ active' = FALSE BY <2>4, <3>2, ClaimReturned DEF ReusedTry
    <3>3. QED BY <2>4, <3>1, <3>2 DEF ReusedTry
  <2>5. CASE HandOut(t) \/ SessionCleared(t) \/ WaitTimeout(t) \/ DestroyJoin(t)
    <3>1. Return(t) /\ ~ThreadHoldsClaim(t) /\ UNCHANGED <<active, wpc>>
      BY <2>5 DEF HandOut, SessionCleared, WaitTimeout, DestroyJoin, Joined
    <3>2. QED BY <3>1, ClaimUntouched DEF Return
  <2>6. CASE WaitCheck(t)
    <3>1. ~ThreadHoldsClaim(t) /\ UNCHANGED <<active, wpc>> BY <2>6 DEF WaitCheck
    <3>2. tpc' = [tpc EXCEPT ![t] = "idle"] \/ tpc' = [tpc EXCEPT ![t] = "parked"]
      BY <2>6 DEF WaitCheck, Return
    <3>3. QED BY <3>1, <3>2, ClaimUntouched
  <2>7. QED BY <1>2, <2>1, <2>2, <2>3, <2>4, <2>5, <2>6 DEF CallStep
<1>3. ASSUME NEW t \in Threads, NewCall(t) \/ SpuriousWake(t)
      PROVE  ClaimParts'
  <2>1. ASSUME NEW pc \in {"allocate", "exclusive", "reused_try"}, Claim(t, pc)
        PROVE  ClaimParts'
    BY <2>1 DEF Claim, Enter, ClaimParts
  <2>2. ASSUME NEW s \in Sessions, SessionClear(t, s)
        PROVE  ClaimParts'
    BY <2>2, ClaimUntouched DEF SessionClear, Enter
  <2>3. ASSUME NEW h \in Handles, Cancel(t, h) \/ Output(t, h) \/ ReleaseSamples(t, h)
        PROVE  ClaimParts'
    BY <2>3, ClaimUntouched DEF Cancel, Output, ReleaseSamples
  <2>4. ASSUME NEW h \in Handles, NEW negative \in BOOLEAN,
               Wait(t, h, negative) \/ Destroy(t, h)
        PROVE  ClaimParts'
    BY <2>4, ClaimUntouched DEF Wait, Destroy, Enter
  <2>5. CASE SpuriousWake(t) BY <2>5, ClaimUntouched DEF SpuriousWake
  <2>6. QED
    BY <1>3, <2>1, <2>2, <2>3, <2>4, <2>5
    DEF NewCall, Start, Exclusive, ReusedModelsClear
<1>4. QED BY <1>1, <1>2, <1>3 DEF Next

----
(* Publication.                                                            *)

\* What a host call leaves alone of the worker and of what it publishes.
LEMMA CallsKeepPublication ==
  ASSUME TypeOK, CallArguments, WorkerLife, NEW t \in Threads,
         CallStep(t) \/ NewCall(t) \/ SpuriousWake(t)
  PROVE  /\ UNCHANGED <<done, error, status, result>>
         /\ \A h \in Handles : wpc'[h] # wpc[h] => wpc[h] = "none" /\ wpc'[h] = "begin"
<1> USE DEF TypeOK, claimVars, runVars, fieldVars, objVars, hostVars
<1>1. CASE CallStep(t)
  <2>1. CASE Spawn(t)
    <3>1. targ[t] \in Handles /\ wpc[targ[t]] = "none"
      BY <2>1 DEF Spawn, GuardReleases, CallArguments, WorkerLife
    <3>2. QED BY <2>1, <3>1 DEF Spawn, GuardReleases
  <2>2. CASE ~Spawn(t)
    BY <1>1, <2>2 DEF CallStep, Allocate, GuardReleases, HandOut, ExclusiveEnd, ReusedTry, ReusedClear,
                      SessionCleared, WaitCheck, WaitTimeout, DestroyJoin, Joined
  <2>3. QED BY <2>1, <2>2
<1>2. CASE NewCall(t)
  BY <1>2 DEF NewCall, Start, Exclusive, ReusedModelsClear, Claim, SessionClear, Cancel, Wait,
              Output, ReleaseSamples, Destroy
<1>3. CASE SpuriousWake(t) BY <1>3 DEF SpuriousWake
<1>4. QED BY <1>1, <1>2, <1>3

\* A worker step publishes only for its own generation, and only in the three steps of finish().
LEMMA WorkerPublication ==
  ASSUME TypeOK, ResultKnown, Publication, NEW h \in Handles, WorkerStep(h)
  PROVE  /\ Publication'
         /\ \A g \in Handles : status[g] # "NOT_READY" =>
              status'[g] = status[g] /\ error'[g] = error[g] /\ done'[g]
<1> USE DEF TypeOK, ResultKnown, Publication, At, WorkerLeave,
        claimVars, runVars, fieldVars, objVars, hostVars
<1>1. CASE WorkerBegin(h) BY <1>1 DEF WorkerBegin
<1>2. CASE WorkerTryExecution(h) \/ WorkerCheckLocks(h) \/ WorkerUnlock(h) \/ WorkerRelease(h)
  BY <1>2 DEF WorkerTryExecution, WorkerCheckLocks, WorkerUnlock, Owns, WorkerRelease
<1>3. CASE WorkerCheckpoint(h) BY <1>3 DEF WorkerCheckpoint
<1>4. CASE WorkerComplete(h) \/ WorkerFail(h) BY <1>4 DEF WorkerComplete, WorkerFail
<1>5. CASE WorkerFinish(h) BY <1>5 DEF WorkerFinish
<1>6. CASE WorkerPublish(h) BY <1>6, CodeIsTerminal DEF WorkerPublish
<1>7. CASE WorkerNotify(h) BY <1>7 DEF WorkerNotify, Woken, Parked
<1>8. QED BY <1>1, <1>2, <1>3, <1>4, <1>5, <1>6, <1>7 DEF WorkerStep

LEMMA PublicationPreserved ==
  ASSUME TypeOK, ResultKnown, CallArguments, WorkerLife, Publication, Next
  PROVE  /\ Publication'
         /\ \A g \in Handles : status[g] # "NOT_READY" =>
              status'[g] = status[g] /\ error'[g] = error[g] /\ done'[g]
<1>1. ASSUME NEW t \in Threads, CallStep(t) \/ NewCall(t) \/ SpuriousWake(t)
      PROVE  /\ Publication'
             /\ \A g \in Handles : status[g] # "NOT_READY" =>
                  status'[g] = status[g] /\ error'[g] = error[g] /\ done'[g]
  BY <1>1, CallsKeepPublication DEF Publication
<1>2. QED BY <1>1, WorkerPublication DEF Next

----
(* Theorems.                                                               *)

\* The invariant holds initially and every step preserves it.
LEMMA Inductive == IInv /\ [Next]_vars => IInv'
<1> SUFFICES ASSUME IInv, [Next]_vars PROVE IInv' OBVIOUS
<1>1. CASE Next
  BY <1>1, TypesPreserved, CallsPreserved, ClaimPreserved, PublicationPreserved DEF IInv
<1>2. CASE UNCHANGED vars
  BY <1>2 DEF IInv, TypeOK, ResultKnown, CallArguments, WorkerLife, ClaimParts, Publication,
              ThreadHoldsClaim, WorkerHoldsClaim,
              vars, claimVars, runVars, fieldVars, objVars, hostVars
<1>3. QED BY <1>1, <1>2

THEOREM Invariance == Spec => []IInv
BY InitEstablishes, Inductive, PTL DEF Spec

\* Type correctness of the generation handles, the locks and the calls.
THEOREM TypeCorrect == Spec => []TypeOK
<1>1. IInv => TypeOK BY DEF IInv
<1>2. QED BY <1>1, Invariance, PTL

\* However many hosts and handles there are, at most one operation owns the process-global GPU
\* state, and g_generation_active tells exactly whether one does.
THEOREM OneOwner == Spec => []ClaimHasOneOwner
<1>1. IInv => ClaimHasOneOwner
  BY CApiAssumption DEF CApiAssumption, IInv, ClaimParts, ClaimHasOneOwner, Owners
<1>2. QED BY <1>1, Invariance, PTL

\* A generation seen to be done has released the claim.
THEOREM DoneIsStartable == Spec => []StartableOnceDone
<1>1. IInv => StartableOnceDone
  BY DEF IInv, ClaimParts, Publication, StartableOnceDone, Owners, WorkerHoldsClaim
<1>2. QED BY <1>1, Invariance, PTL

\* A terminal status comes with its message.
THEOREM ErrorReadable == Spec => []ErrorReadableOnceTerminal
<1>1. IInv => ErrorReadableOnceTerminal
  BY CApiAssumption DEF CApiAssumption, IInv, Publication, ErrorReadableOnceTerminal, Results
<1>2. QED BY <1>1, Invariance, PTL

\* Deleting a handle never races with its worker or with another caller.
THEOREM FreedIsUnused == Spec => []FreedHandleUnused
<1>1. IInv => FreedHandleUnused BY DEF IInv, TypeOK, CallArguments, WorkerLife, FreedHandleUnused
<1>2. QED BY <1>1, Invariance, PTL

\* No later step of a worker or of a host rewrites a published outcome.
THEOREM OutcomesAreFinal == Spec => OutcomeIsFinal
<1>1. IInv /\ [Next]_vars =>
        [\A h \in Handles : status[h] # "NOT_READY" =>
           status'[h] = status[h] /\ error'[h] = error[h] /\ done'[h]]_vars
  BY PublicationPreserved DEF IInv
<1>2. QED BY <1>1, Invariance, PTL DEF Spec, OutcomeIsFinal

----
(* The generation handle implements the serial execution slot: under the   *)
(* inductive invariant every step is a step of SerialRuns or leaves its    *)
(* variables alone.                                                        *)

\* A step of the handle, seen through the refinement mapping.
SerialStep == Serial!Next \/ UNCHANGED <<Slot, Outcome>>

----
(* The slot is the owner of the claim.                                     *)

SlotFollowsClaim ==
  /\ \A t \in Threads : ThreadHoldsClaim(t) => Slot = t
  /\ \A h \in Handles : WorkerHoldsClaim(h) <=> Slot = h
  /\ ~active => Slot = None

\* The slot holds the one owner of the claim, and nobody while the flag is down.
LEMMA SlotOfOwner == ClaimParts => SlotFollowsClaim
<1> SUFFICES ASSUME ClaimParts PROVE SlotFollowsClaim OBVIOUS
<1>1. ASSUME NEW o \in Owners PROVE Slot = o
  <2>1. Owners = {o} BY CApiAssumption DEF CApiAssumption, ClaimParts, Owners
  <2>2. QED BY <2>1 DEF Slot
<1>2. CASE Owners = {} BY <1>2, CApiAssumption DEF CApiAssumption, SlotFollowsClaim, Slot, Owners
<1>3. CASE Owners # {}
  <2>1. PICK o \in Owners : Slot = o BY <1>1, <1>3
  <2>2. active BY <2>1 DEF ClaimParts, Owners
  <2>3. \A h \in Handles : Slot = h => WorkerHoldsClaim(h)
    BY <2>1, CApiAssumption DEF CApiAssumption, Owners
  <2>4. QED BY <1>1, <2>2, <2>3 DEF SlotFollowsClaim, Owners
<1>4. QED BY <1>2, <1>3

\* The same of the state after a step.
LEMMA SlotOfNextOwner == ClaimParts' => SlotFollowsClaim'
BY SlotOfOwner, PTL

\* A step after which the same threads and workers hold the claim does not move the slot.
LEMMA SlotStays ==
  ASSUME \A t \in Threads : ThreadHoldsClaim(t)' <=> ThreadHoldsClaim(t),
         \A h \in Handles : WorkerHoldsClaim(h)' <=> WorkerHoldsClaim(h)
  PROVE  UNCHANGED Slot
<1>1. Owners' = Owners BY DEF Owners
<1>2. QED BY <1>1 DEF Slot

\* A step that starts no worker and publishes no status leaves the outcomes alone.
LEMMA OutcomeStays ==
  ASSUME UNCHANGED status, \A h \in Handles : wpc'[h] = "none" <=> wpc[h] = "none"
  PROVE  UNCHANGED Outcome
BY DEF Outcome

----
(* The steps.                                                              *)

\* The serial slot starts free, and no generation is born.
LEMMA SerialInit == Init => Serial!Init
<1> SUFFICES ASSUME Init PROVE Serial!Init OBVIOUS
<1>1. Slot = None BY DEF Init, Slot, Owners, ThreadHoldsClaim, WorkerHoldsClaim
<1>2. Outcome = [h \in Handles |-> "unborn"] BY DEF Init, Outcome
<1>3. QED BY <1>1, <1>2 DEF Serial!Init

\* A worker gives the slot back and later publishes; its other steps are not seen.
LEMMA WorkerIsSerial ==
  ASSUME IInv, IInv', NEW h \in Handles, WorkerStep(h)
  PROVE  SerialStep
<1> USE DEF IInv, TypeOK, ThreadHoldsClaim, WorkerHoldsClaim, At, SerialStep, claimVars, runVars,
            fieldVars, objVars, hostVars
<1>1. CASE WorkerRelease(h)
  <2>1. Slot = h BY <1>1, SlotOfOwner DEF WorkerRelease, SlotFollowsClaim
  <2>2. Slot' = None BY <1>1, SlotOfNextOwner DEF WorkerRelease, SlotFollowsClaim
  <2>3. UNCHANGED Outcome BY <1>1, OutcomeStays DEF WorkerRelease
  <2>4. QED BY <2>1, <2>2, <2>3 DEF Serial!Next, Serial!Retire
<1>2. CASE WorkerPublish(h)
  <2>1. Outcome[h] = "running" BY <1>2 DEF WorkerPublish, Publication, Outcome
  <2>2. Slot # h BY <1>2, SlotOfOwner DEF WorkerPublish, SlotFollowsClaim
  <2>3. UNCHANGED Slot BY <1>2, SlotStays DEF WorkerPublish
  <2>4. CodeOf(result[h]) \in Terminal /\ CodeOf(result[h]) # "NOT_READY"
    BY <1>2, CodeIsTerminal DEF WorkerPublish, ResultKnown
  <2>5. Outcome' = [Outcome EXCEPT ![h] = CodeOf(result[h])]
    BY <1>2, <2>4 DEF WorkerPublish, Outcome
  <2>6. QED BY <2>1, <2>2, <2>3, <2>4, <2>5 DEF Serial!Next, Serial!Publish
<1>3. CASE WorkerNotify(h)
  <2>1. \A t \in Threads : ThreadHoldsClaim(t)' <=> ThreadHoldsClaim(t)
    BY <1>3 DEF WorkerNotify, Woken, Parked
  <2>2. \A g \in Handles : WorkerHoldsClaim(g)' <=> WorkerHoldsClaim(g) BY <1>3 DEF WorkerNotify
  <2>3. UNCHANGED Slot BY <2>1, <2>2, SlotStays
  <2>4. QED BY <1>3, <2>3, OutcomeStays DEF WorkerNotify
<1>4. CASE \/ WorkerBegin(h) \/ WorkerTryExecution(h) \/ WorkerCheckLocks(h) \/ WorkerCheckpoint(h)
           \/ WorkerComplete(h) \/ WorkerFail(h) \/ WorkerUnlock(h) \/ WorkerFinish(h)
  <2>1. UNCHANGED <<tpc, status>>
    BY <1>4 DEF WorkerBegin, WorkerTryExecution, WorkerCheckLocks, WorkerCheckpoint, WorkerComplete,
                WorkerFail, WorkerUnlock, WorkerFinish
  <2>2. \A g \in Handles : (WorkerHoldsClaim(g)' <=> WorkerHoldsClaim(g))
                           /\ (wpc'[g] = "none" <=> wpc[g] = "none")
    BY <1>4 DEF WorkerBegin, WorkerTryExecution, WorkerCheckLocks, WorkerCheckpoint, WorkerComplete,
                WorkerFail, WorkerLeave, WorkerUnlock, WorkerFinish
  <2>3. UNCHANGED Slot BY <2>1, <2>2, SlotStays
  <2>4. QED BY <2>1, <2>2, <2>3, OutcomeStays
<1>5. QED BY <1>1, <1>2, <1>3, <1>4 DEF WorkerStep

\* Taking the claim at the beginning of a call takes the slot.
LEMMA ClaimTakes ==
  ASSUME IInv, IInv', NEW t \in Threads, NEW pc \in {"allocate", "exclusive", "reused_try"}, Claim(t, pc)
  PROVE  Serial!Take(t)
<1> USE DEF IInv, TypeOK, Claim, Enter, runVars, fieldVars
<1>1. Slot = None BY SlotOfOwner DEF SlotFollowsClaim
<1>2. Slot' = t
  <2>1. ThreadHoldsClaim(t)' BY DEF ThreadHoldsClaim
  <2>2. QED BY <2>1, SlotOfNextOwner DEF SlotFollowsClaim
<1>3. UNCHANGED Outcome BY OutcomeStays
<1>4. QED BY <1>1, <1>2, <1>3 DEF Serial!Take

\* Returning from a call that holds the claim, with the flag down, gives the slot back.
LEMMA ReturnGivesBack ==
  ASSUME IInv, IInv', NEW t \in Threads, ThreadHoldsClaim(t), active' = FALSE, UNCHANGED <<wpc, status>>
  PROVE  Serial!GiveBack(t)
<1>1. Slot = t BY SlotOfOwner DEF IInv, SlotFollowsClaim
<1>2. Slot' = None BY SlotOfNextOwner DEF IInv, SlotFollowsClaim
<1>3. UNCHANGED Outcome BY OutcomeStays
<1>4. QED BY <1>1, <1>2, <1>3 DEF Serial!GiveBack

\* A step of a thread that neither gains nor loses the claim is not seen.
LEMMA CallIsInvisible ==
  ASSUME UNCHANGED <<wpc, status>>, \A t \in Threads : ThreadHoldsClaim(t)' <=> ThreadHoldsClaim(t)
  PROVE  UNCHANGED <<Slot, Outcome>>
<1>1. UNCHANGED Slot BY SlotStays DEF WorkerHoldsClaim
<1>2. QED BY <1>1, OutcomeStays

\* Starting the worker launches its generation: the slot goes from the caller to the worker.
LEMMA SpawnLaunches ==
  ASSUME IInv, IInv', NEW t \in Threads, Spawn(t)
  PROVE  Serial!Next
<1> USE DEF IInv, TypeOK
<1>0. PICK h \in Handles : h = targ[t] BY DEF Spawn, CallArguments
<1>1. wpc[h] = "none" /\ status[h] = "NOT_READY" /\ ThreadHoldsClaim(t)
  BY <1>0 DEF Spawn, WorkerLife, Publication, ThreadHoldsClaim
<1>2. CASE wpc' = [wpc EXCEPT ![h] = "begin"] /\ UNCHANGED status
  <2>1. Slot = t BY <1>1, SlotOfOwner DEF SlotFollowsClaim
  <2>2. Slot' = h
    <3>1. WorkerHoldsClaim(h)' BY <1>1, <1>2 DEF WorkerHoldsClaim
    <3>2. QED BY <1>1, <3>1, SlotOfNextOwner DEF SlotFollowsClaim
  <2>3. Outcome[h] = "unborn" BY <1>1 DEF Outcome
  <2>4. Outcome' = [Outcome EXCEPT ![h] = "running"] BY <1>1, <1>2 DEF Outcome
  <2>5. QED BY <1>1, <2>1, <2>2, <2>3, <2>4 DEF Serial!Next, Serial!Launch
<1>3. CASE active' = FALSE /\ UNCHANGED <<wpc, status>>
  BY <1>1, <1>3, ReturnGivesBack DEF Serial!Next
<1>4. QED BY <1>0, <1>2, <1>3 DEF Spawn, GuardReleases, claimVars, fieldVars

\* The host's calls.
LEMMA CallIsSerial ==
  ASSUME IInv, IInv', NEW t \in Threads, CallStep(t) \/ NewCall(t) \/ SpuriousWake(t)
  PROVE  SerialStep
<1> USE DEF SerialStep, TypeOK, IInv, claimVars, runVars, fieldVars, objVars, hostVars
<1>1. CASE Start(t) \/ Exclusive(t) \/ ReusedModelsClear(t)
  BY <1>1, ClaimTakes DEF Start, Exclusive, ReusedModelsClear, Serial!Next
<1>2. CASE Allocate(t)
  <2>1. CASE active' = FALSE
    <3>1. ThreadHoldsClaim(t) /\ UNCHANGED <<wpc, status>> BY <1>2 DEF Allocate, ThreadHoldsClaim
    <3>2. QED BY <2>1, <3>1, ReturnGivesBack DEF Serial!Next
  <2>2. CASE tpc' = [tpc EXCEPT ![t] = "spawn"] /\ UNCHANGED <<wpc, status>>
    <3>1. \A u \in Threads : ThreadHoldsClaim(u)' <=> ThreadHoldsClaim(u)
      BY <1>2, <2>2 DEF Allocate, ThreadHoldsClaim
    <3>2. QED BY <2>2, <3>1, CallIsInvisible
  <2>3. QED BY <1>2, <2>1, <2>2 DEF Allocate, GuardReleases
<1>3. CASE Spawn(t) BY <1>3, SpawnLaunches
<1>4. CASE ExclusiveEnd(t) \/ ReusedClear(t)
  <2>1. ThreadHoldsClaim(t) /\ active' = FALSE /\ UNCHANGED <<wpc, status>>
    BY <1>4 DEF ExclusiveEnd, ReusedClear, ThreadHoldsClaim
  <2>2. QED BY <2>1, ReturnGivesBack DEF Serial!Next
<1>5. CASE ReusedTry(t)
  <2>1. CASE sessionLock[DefaultSession] # None
    <3>1. ThreadHoldsClaim(t) /\ active' = FALSE /\ UNCHANGED <<wpc, status>>
      BY <1>5, <2>1 DEF ReusedTry, ThreadHoldsClaim
    <3>2. QED BY <3>1, ReturnGivesBack DEF Serial!Next
  <2>2. CASE sessionLock[DefaultSession] = None
    <3>1. UNCHANGED <<wpc, status>> /\ \A u \in Threads : ThreadHoldsClaim(u)' <=> ThreadHoldsClaim(u)
      BY <1>5, <2>2 DEF ReusedTry, ThreadHoldsClaim
    <3>2. QED BY <3>1, CallIsInvisible
  <2>3. QED BY <2>1, <2>2
<1>6. CASE HandOut(t) \/ SessionCleared(t) \/ WaitCheck(t) \/ WaitTimeout(t) \/ DestroyJoin(t)
           \/ SpuriousWake(t)
  <2>1. UNCHANGED <<wpc, status>>
    BY <1>6 DEF HandOut, SessionCleared, WaitCheck, WaitTimeout, DestroyJoin, SpuriousWake
  <2>2. \A u \in Threads : ThreadHoldsClaim(u)' <=> ThreadHoldsClaim(u)
    BY <1>6 DEF HandOut, SessionCleared, WaitCheck, WaitTimeout, DestroyJoin, SpuriousWake, Return,
                ThreadHoldsClaim
  <2>3. QED BY <2>1, <2>2, CallIsInvisible
<1>7. ASSUME NEW s \in Sessions, SessionClear(t, s)
      PROVE  SerialStep
  <2>1. UNCHANGED <<wpc, status>> /\ \A u \in Threads : ThreadHoldsClaim(u)' <=> ThreadHoldsClaim(u)
    BY <1>7 DEF SessionClear, Enter, ThreadHoldsClaim
  <2>2. QED BY <2>1, CallIsInvisible
<1>8. ASSUME NEW h \in Handles, \/ Cancel(t, h) \/ Output(t, h) \/ ReleaseSamples(t, h) \/ Destroy(t, h)
                                \/ \E negative \in BOOLEAN : Wait(t, h, negative)
      PROVE  SerialStep
  <2>1. UNCHANGED <<wpc, status>> /\ \A u \in Threads : ThreadHoldsClaim(u)' <=> ThreadHoldsClaim(u)
    BY <1>8 DEF Cancel, Output, ReleaseSamples, Destroy, Wait, Enter, ThreadHoldsClaim
  <2>2. QED BY <2>1, CallIsInvisible
<1>9. QED BY <1>1, <1>2, <1>3, <1>4, <1>5, <1>6, <1>7, <1>8 DEF CallStep, NewCall

----

\* The C API gives every host one serial execution slot and one outcome per generation ("One at a
\* time", include/slopfab/capi.h), whatever fails, is cancelled or is destroyed.
THEOREM SerialExecution == Spec => SerialSpec
<1>1. Init => Serial!Init BY SerialInit
<1>2. IInv /\ IInv' /\ [Next]_vars => [Serial!Next]_(Serial!vars)
  <2> SUFFICES ASSUME IInv, IInv', [Next]_vars PROVE SerialStep BY DEF SerialStep, Serial!vars
  <2>1. CASE Next BY <2>1, WorkerIsSerial, CallIsSerial DEF Next
  <2>2. CASE UNCHANGED vars
    <3>1. UNCHANGED <<wpc, status, tpc>>
      BY <2>2 DEF vars, claimVars, runVars, fieldVars, objVars, hostVars
    <3>2. QED BY <3>1, CallIsInvisible DEF SerialStep, ThreadHoldsClaim
  <2>3. QED BY <2>1, <2>2
<1>3. QED BY <1>1, <1>2, Invariance, PTL DEF Spec, SerialSpec, Serial!Spec

----
(* What the claim protects: the locks taken under it and the samples lent  *)
(* to the host.  LockOwners and SamplesKept strengthen the invariant; each *)
(* is inductive beside it.                                                 *)

\* Whoever is recorded in a lock is at a step at which the code holds it; only generations lock.
LockOwners ==
  /\ \A s \in Sessions, h \in Handles : sessionLock[s] = h =>
       /\ session[h] = s /\ mode[h] = "generate"
       /\ wpc[h] \in {"try_execution", "check_locks", "running", "unlock"}
  /\ \A s \in Sessions, t \in Threads : sessionLock[s] = t =>
       \/ tpc[t] = "session_clear" /\ targ[t] = s /\ s # DefaultSession
       \/ tpc[t] = "reused_clear" /\ s = DefaultSession
  /\ \A h \in Handles : wpc[h] \in {"try_execution", "check_locks"} => mode[h] = "generate"
  /\ \A h \in Handles : execLock = h =>
       mode[h] = "generate" /\ wpc[h] \in {"check_locks", "running", "unlock"}

\* A run with samples that has ended well has filled them, and what was lent has not been released.
SamplesKept ==
  /\ \A h \in Handles :
       /\ mode[h] # "upscale"
       /\ \/ result[h] = "OK" /\ wpc[h] \in {"unlock", "cleanup", "finish", "publish"}
          \/ status[h] = "OK"
       => samples[h] \in {"filled", "released"}
  /\ BorrowedSamplesStay

----
(* The locks.                                                              *)

\* A worker takes and gives back the session and execution locks at the steps LockOwners names.
LEMMA WorkerKeepsLocks ==
  ASSUME IInv, LockOwners, NEW h \in Handles, WorkerStep(h)
  PROVE  LockOwners'
<1> USE CApiAssumption DEF CApiAssumption, IInv, TypeOK, LockOwners, At, claimVars, runVars, fieldVars,
        objVars, hostVars
<1>1. CASE WorkerBegin(h)
  <2>1. CASE mode[h] = "generate" BY <1>1, <2>1 DEF WorkerBegin
  <2>2. CASE mode[h] # "generate" BY <1>1, <2>2 DEF WorkerBegin
  <2>3. QED BY <2>1, <2>2
<1>2. CASE WorkerTryExecution(h) BY <1>2 DEF WorkerTryExecution
<1>3. CASE WorkerCheckLocks(h) BY <1>3 DEF WorkerCheckLocks
<1>4. CASE WorkerCheckpoint(h) \/ WorkerComplete(h) \/ WorkerFail(h)
  BY <1>4 DEF WorkerCheckpoint, WorkerComplete, WorkerFail, WorkerLeave
<1>5. CASE WorkerUnlock(h) BY <1>5 DEF WorkerUnlock, Owns
<1>6. CASE WorkerRelease(h) \/ WorkerFinish(h) \/ WorkerPublish(h)
  BY <1>6 DEF WorkerRelease, WorkerFinish, WorkerPublish
<1>7. CASE WorkerNotify(h) BY <1>7 DEF WorkerNotify, Woken, Parked
<1>8. QED BY <1>1, <1>2, <1>3, <1>4, <1>5, <1>6, <1>7 DEF WorkerStep

\* The host's calls take only a session's lock, and give it back before they return.
LEMMA CallKeepsLocks ==
  ASSUME IInv, LockOwners, NEW t \in Threads, CallStep(t) \/ NewCall(t) \/ SpuriousWake(t)
  PROVE  LockOwners'
<1> USE CApiAssumption DEF CApiAssumption, IInv, TypeOK, LockOwners, claimVars, runVars, fieldVars,
        objVars, hostVars, Return, Enter
<1>1. CASE Start(t) \/ Exclusive(t) \/ ReusedModelsClear(t)
  BY <1>1 DEF Start, Exclusive, ReusedModelsClear, Claim
<1>2. CASE Allocate(t)
  <2>1. CASE UNCHANGED <<life, mode, session>> BY <1>2, <2>1 DEF Allocate, GuardReleases
  <2>2. ASSUME NEW h \in Handles, NEW m \in Modes, NEW s \in Sessions, life[h] = "fresh",
               mode' = [mode EXCEPT ![h] = m], session' = [session EXCEPT ![h] = s],
               tpc' = [tpc EXCEPT ![t] = "spawn"], targ' = [targ EXCEPT ![t] = h],
               UNCHANGED <<sessionLock, execLock, wpc>>
        PROVE  LockOwners'
    BY <1>2, <2>2 DEF Allocate, WorkerLife
  <2>3. QED BY <1>2, <2>1, <2>2 DEF Allocate
<1>3. CASE Spawn(t) BY <1>3 DEF Spawn, GuardReleases, CallArguments, WorkerLife
<1>4. CASE HandOut(t) \/ ExclusiveEnd(t) \/ WaitCheck(t) \/ WaitTimeout(t) \/ DestroyJoin(t) \/ SpuriousWake(t)
  BY <1>4 DEF HandOut, ExclusiveEnd, WaitCheck, WaitTimeout, DestroyJoin, SpuriousWake
<1>5. CASE ReusedTry(t) BY <1>5 DEF ReusedTry
<1>6. CASE ReusedClear(t) BY <1>6 DEF ReusedClear
<1>7. CASE SessionCleared(t) BY <1>7 DEF SessionCleared
<1>8. ASSUME NEW s \in Sessions, SessionClear(t, s)
      PROVE  LockOwners'
  BY <1>8 DEF SessionClear
<1>9. ASSUME NEW h \in Handles, \/ Cancel(t, h) \/ Output(t, h) \/ ReleaseSamples(t, h) \/ Destroy(t, h)
                                \/ \E negative \in BOOLEAN : Wait(t, h, negative)
      PROVE  LockOwners'
  BY <1>9 DEF Cancel, Output, ReleaseSamples, Destroy, Wait
<1>10. QED BY <1>1, <1>2, <1>3, <1>4, <1>5, <1>6, <1>7, <1>8, <1>9 DEF CallStep, NewCall

\* Under one claim, what can be in a lock that somebody is about to try.
LEMMA ClaimExplainsRefusals == IInv /\ LockOwners => RefusedOnlyByClear
<1> SUFFICES ASSUME IInv, LockOwners PROVE RefusedOnlyByClear OBVIOUS
<1> USE CApiAssumption DEF CApiAssumption, IInv, TypeOK, LockOwners, ClaimParts, ThreadHoldsClaim,
        WorkerHoldsClaim
<1>1. ASSUME NEW h \in Handles, wpc[h] = "begin"
      PROVE  sessionLock[session[h]] \in {None} \cup {t \in Threads : tpc[t] = "session_clear"}
  <2>1. \A g \in Handles : sessionLock[session[h]] # g BY <1>1
  <2>2. \A t \in Threads : sessionLock[session[h]] = t => tpc[t] = "session_clear" BY <1>1
  <2>3. QED BY <2>1, <2>2
<1>2. ASSUME NEW h \in Handles, wpc[h] = "try_execution"
      PROVE  execLock = None
  BY <1>2
<1>3. ASSUME NEW t \in Threads, tpc[t] = "reused_try"
      PROVE  sessionLock[DefaultSession] = None
  BY <1>3
<1>4. QED BY <1>1, <1>2, <1>3 DEF RefusedOnlyByClear

\* The try_locks below the claim fail only because of a concurrent slopfab_session_clear
\* (run_generate and GenerationSession::clear, generation/session.cpp).
THEOREM OnlyClearRefuses == Spec => []RefusedOnlyByClear
<1>1. Init => LockOwners BY CApiAssumption DEF CApiAssumption, Init, LockOwners
<1>2. IInv /\ LockOwners /\ [Next]_vars => LockOwners'
  <2> SUFFICES ASSUME IInv, LockOwners, [Next]_vars PROVE LockOwners' OBVIOUS
  <2>1. CASE Next BY <2>1, WorkerKeepsLocks, CallKeepsLocks DEF Next
  <2>2. CASE UNCHANGED vars
    BY <2>2 DEF LockOwners, vars, claimVars, runVars, fieldVars, objVars, hostVars
  <2>3. QED BY <2>1, <2>2
<1>3. QED BY <1>1, <1>2, ClaimExplainsRefusals, Invariance, PTL DEF Spec

----
(* The samples.                                                            *)

\* A worker fills its own samples before it can succeed and leaves every other handle's alone.
LEMMA WorkerKeepsSamples ==
  ASSUME IInv, SamplesKept, NEW h \in Handles, WorkerStep(h)
  PROVE  SamplesKept'
<1> USE CApiAssumption DEF CApiAssumption, IInv, TypeOK, SamplesKept, BorrowedSamplesStay, Publication,
        At, claimVars, runVars, fieldVars, objVars, hostVars
<1>1. CASE WorkerBegin(h) \/ WorkerTryExecution(h) \/ WorkerCheckLocks(h)
  BY <1>1 DEF WorkerBegin, WorkerTryExecution, WorkerCheckLocks
<1>2. CASE WorkerCheckpoint(h) BY <1>2 DEF WorkerCheckpoint, WorkerLeave
<1>3. CASE WorkerComplete(h) BY <1>3 DEF WorkerComplete, WorkerLeave
<1>4. CASE WorkerFail(h) BY <1>4 DEF WorkerFail, WorkerLeave
<1>5. CASE WorkerUnlock(h) \/ WorkerRelease(h) \/ WorkerFinish(h) \/ WorkerNotify(h)
  BY <1>5 DEF WorkerUnlock, WorkerRelease, WorkerFinish, WorkerNotify
<1>6. CASE WorkerPublish(h) BY <1>6 DEF WorkerPublish, CodeOf
<1>7. QED BY <1>1, <1>2, <1>3, <1>4, <1>5, <1>6 DEF WorkerStep

\* Of the host's calls only the release and the destruction of a handle take its samples away.
LEMMA CallKeepsSamples ==
  ASSUME IInv, SamplesKept, NEW t \in Threads, CallStep(t) \/ NewCall(t) \/ SpuriousWake(t)
  PROVE  SamplesKept'
<1> USE CApiAssumption DEF CApiAssumption, IInv, TypeOK, SamplesKept, BorrowedSamplesStay, claimVars,
        runVars, fieldVars, objVars, hostVars
<1>1. CASE Allocate(t) BY <1>1 DEF Allocate, WorkerLife, Publication
<1>2. CASE Spawn(t) BY <1>2 DEF Spawn, CallArguments
<1>3. CASE HandOut(t) \/ DestroyJoin(t) BY <1>3 DEF HandOut, DestroyJoin, CallArguments
<1>4. CASE \/ ExclusiveEnd(t) \/ ReusedTry(t) \/ ReusedClear(t) \/ SessionCleared(t) \/ WaitCheck(t)
           \/ WaitTimeout(t) \/ SpuriousWake(t) \/ Start(t) \/ Exclusive(t) \/ ReusedModelsClear(t)
           \/ \E s \in Sessions : SessionClear(t, s)
  BY <1>4 DEF ExclusiveEnd, ReusedTry, ReusedClear, SessionCleared, WaitCheck, WaitTimeout, SpuriousWake,
              Start, Exclusive, ReusedModelsClear, Claim, SessionClear
<1>5. ASSUME NEW h \in Handles, \/ Cancel(t, h) \/ Output(t, h) \/ ReleaseSamples(t, h) \/ Destroy(t, h)
                                \/ \E negative \in BOOLEAN : Wait(t, h, negative)
      PROVE  SamplesKept'
  <2>1. CASE Cancel(t, h) \/ \E negative \in BOOLEAN : Wait(t, h, negative) BY <2>1 DEF Cancel, Wait
  <2>2. CASE Output(t, h) BY <2>2 DEF Output, SamplesReadable
  <2>3. CASE ReleaseSamples(t, h) BY <2>3 DEF ReleaseSamples
  <2>4. CASE Destroy(t, h) BY <2>4 DEF Destroy
  <2>5. QED BY <1>5, <2>1, <2>2, <2>3, <2>4
<1>6. QED BY <1>1, <1>2, <1>3, <1>4, <1>5 DEF CallStep, NewCall

\* Sample pointers lent by slopfab_generation_output stay good until their handle's samples are
\* released or the handle is destroyed, whatever other threads and other runs do.
THEOREM LentSamplesStay == Spec => []BorrowedSamplesStay
<1>1. Init => SamplesKept BY DEF Init, SamplesKept, BorrowedSamplesStay
<1>2. IInv /\ SamplesKept /\ [Next]_vars => SamplesKept'
  <2> SUFFICES ASSUME IInv, SamplesKept, [Next]_vars PROVE SamplesKept' OBVIOUS
  <2>1. CASE Next BY <2>1, WorkerKeepsSamples, CallKeepsSamples DEF Next
  <2>2. CASE UNCHANGED vars
    BY <2>2 DEF SamplesKept, BorrowedSamplesStay, vars, claimVars, runVars, fieldVars, objVars, hostVars
  <2>3. QED BY <2>1, <2>2
<1>3. SamplesKept => BorrowedSamplesStay BY DEF SamplesKept
<1>4. QED BY <1>1, <1>2, <1>3, Invariance, PTL DEF Spec
=============================================================================
