---------------------------- MODULE MCThreadWaits ----------------------------
(* Small kernels: groups of four threads in warps of two, tiles of four    *)
(* keys and two rows, over five or six keys.  And a fourth place where     *)
(* threads wait: the calls of the C API, on one generation.                *)
EXTENDS ThreadWaits

\* Row r sees the scores rotated by r.
Rotated(v) ==
  [r \in 0 .. Len(v) - 1 |-> [k \in DOMAIN v |-> v[((k + r - 1) % Len(v)) + 1]]]

Kernel(name, v, first, count, out, group, ranges, head, keyBlock) ==
  [kernel |-> name, scores |-> Rotated(v), first |-> first, count |-> count, outputFirst |-> out,
   group |-> group, ranges |-> ranges, keyBlock |-> keyBlock, head |-> head,
   grouping |-> IF name \in {"causal", "gemm"} THEN 2 ELSE 1]

\* Scores that rise, fall and repeat, with some too small to count beside the largest.
MCScores == {<<0, 2, 5, 8, 1, 4>>, <<8, 4, 0, 1, 2, 6>>, <<0, 0, 2, 0, 4, 4>>}
MCBands == << <<0, 5, 0, 0>>, <<0, 2, 4, 6>>, <<1, 4, 5, 6>> >>

\* Among them a key block that outgrows the one before by more than what underflows, one that all but
\* does, and one that is cut short.
MCGemmCases ==
  {Kernel("gemm", v, 0, 1, 0, 0, <<>>, 2, b) :
     v \in MCScores \cup {<<5, 4, 0, 1, 3>>, <<1, 4, 8, 2, 6, 0>>}, b \in {2, 5}}

MCKernelCases ==
  {Kernel("full", v, 1, 2, 3, g, <<>>, 1, 4) : v \in MCScores, g \in 0 .. 1}
  \cup {Kernel("causal", v, f, 1, 3, 0, <<>>, 3, 4) : v \in MCScores, f \in {0, 3, 4, 5}}
  \cup MCGemmCases
  \cup {Kernel("banded", v, 1, 4, 0, g, r, 2, 4) : v \in MCScores, r \in {<<>>, MCBands}, g \in 0 .. 2}
----
(* The calls.                                                              *)

CONSTANTS Handles, Sessions, DefaultSession, Modes, Failures, Checkpoints

VARIABLES active, sessionLock, execLock, life, mode, session, wpc, ckpt, result, cancel, status, done,
          apiError, samples, tpc, targ, forever, borrowed

callsVars == <<active, sessionLock, execLock, life, mode, session, wpc, ckpt, result, cancel, status,
               done, apiError, samples, tpc, targ, forever, borrowed>>

Calls == INSTANCE CApiGeneration WITH error <- apiError

\* With the resource "calls" the three others stand still.
IsCall(step) == resource = "calls" /\ step /\ UNCHANGED vars

MCInit == Init /\ Calls!Init
MCNext == IsCall(Calls!Next) \/ (Next /\ UNCHANGED callsVars)

\* As Calls!Fairness.
CallsFairness ==
  /\ \A h \in Handles : WF_callsVars(IsCall(Calls!WorkerStep(h)))
  /\ \A t \in Threads : WF_callsVars(IsCall(Calls!CallStep(t)))

MCSpec ==
  MCInit /\ [][MCNext]_<<vars, callsVars>> /\ MediaFairness /\ SlotsFairness /\ CallsFairness

\* A started run ends, and the claim with it, so that another can start (run_worker, finish).
RunsEndAndRelease == Calls!RunsEndAndRelease

\* Every call returns: waiters are woken, joins end, claims are not waited for.
CallsReturn == Calls!CallsReturn
=============================================================================
