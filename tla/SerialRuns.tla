----------------------------- MODULE SerialRuns -----------------------------
(***************************************************************************)
(* What the C API promises about execution (include/slopfab/capi.h,        *)
(* "One at a time"): the process has a single execution slot.  A host call *)
(* that needs the process-global GPU state takes it; a call that starts a  *)
(* generation hands it to the generation's worker; a generation publishes  *)
(* exactly one outcome, and only after it has given the slot back, so that *)
(* a host that has seen the outcome can start the next run at once.        *)
(***************************************************************************)
CONSTANTS Handles,   \* generation objects
          Threads,   \* host threads that call the C API
          Outcomes,  \* terminal status codes
          NoOne      \* the free slot

VARIABLES slot,      \* NoOne, the calling thread, or the running generation
          outcome    \* per generation: "unborn", "running" or an outcome

vars == <<slot, outcome>>

Init == /\ slot = NoOne
        /\ outcome = [h \in Handles |-> "unborn"]

Take(t) == /\ slot = NoOne
           /\ slot' = t
           /\ UNCHANGED outcome

GiveBack(t) == /\ slot = t
               /\ slot' = NoOne
               /\ UNCHANGED outcome

Launch(t, h) == /\ slot = t
                /\ outcome[h] = "unborn"
                /\ slot' = h
                /\ outcome' = [outcome EXCEPT ![h] = "running"]

Retire(h) == /\ slot = h
             /\ slot' = NoOne
             /\ UNCHANGED outcome

Publish(h) == /\ outcome[h] = "running"
              /\ slot # h
              /\ \E o \in Outcomes : outcome' = [outcome EXCEPT ![h] = o]
              /\ UNCHANGED slot

Next == \/ \E t \in Threads : Take(t) \/ GiveBack(t)
        \/ \E t \in Threads, h \in Handles : Launch(t, h)
        \/ \E h \in Handles : Retire(h) \/ Publish(h)

Spec == Init /\ [][Next]_vars
=============================================================================
