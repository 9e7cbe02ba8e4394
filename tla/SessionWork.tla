---------------------------- MODULE SessionWork ----------------------------
(***************************************************************************)
(* Three parts of a generation session: the requests it accepts, what its  *)
(* runs keep for the next one, and the sequence a run packs its request    *)
(* into.  A behaviour is of one of them: a request is fixed once its run   *)
(* begins, and the modules tell requests apart by different settings.      *)
(***************************************************************************)
EXTENDS ReusedModels, GenerationRequests, SequencePacking

CONSTANT Subjects   \* which of "requests", "runs" and "packing" to look at

VARIABLE subject

vars == <<subject, sessionVars, requestVars, packingVars>>

TypeOK == subject \in Subjects /\ SessionTypeOK /\ RequestTypeOK /\ PackingTypeOK

Init ==
  /\ subject \in Subjects
  /\ SessionInit
  /\ IF subject = "requests" THEN RequestInit(Hosts, Starts)
     ELSE RequestInit({NoRequest}, {NoRequest})
  /\ IF subject = "packing" THEN PackingInit ELSE PackingIdle

Next ==
  \/ subject = "runs" /\ SessionNext /\ UNCHANGED <<subject, requestVars, packingVars>>
  \/ subject = "requests" /\ RequestNext /\ UNCHANGED <<subject, sessionVars, packingVars>>
  \/ subject = "packing" /\ PackingNext /\ UNCHANGED <<subject, sessionVars, requestVars>>

Spec == Init /\ [][Next]_vars
=============================================================================
