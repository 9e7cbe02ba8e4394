--------------------------- MODULE AtomicArchive ---------------------------
(***************************************************************************)
(* What include/slopfab/safetensors_write.h:26 promises of an archive that *)
(* is saved over: it is replaced as a whole, when the save succeeds, or    *)
(* not at all, and whoever has it open keeps what he opened.               *)
(***************************************************************************)
CONSTANTS Savers, Readers, Archives, Nothing

VARIABLES content,  \* the archive at the destination, or Nothing
          pending,  \* the archive each saver is about to save, or Nothing
          view      \* the archive each reader has open, or Nothing

vars == <<content, pending, view>>

Init == content = Nothing /\ pending = [s \in Savers |-> Nothing] /\ view = [r \in Readers |-> Nothing]

Begin(s) ==
  /\ pending[s] = Nothing
  /\ \E a \in Archives : pending' = [pending EXCEPT ![s] = a]
  /\ UNCHANGED <<content, view>>

\* The save succeeds: the one step that changes the archive.
Commit(s) ==
  /\ pending[s] # Nothing
  /\ content' = pending[s]
  /\ pending' = [pending EXCEPT ![s] = Nothing]
  /\ UNCHANGED view

Open(r) ==
  /\ view[r] = Nothing /\ content # Nothing
  /\ view' = [view EXCEPT ![r] = content]
  /\ UNCHANGED <<content, pending>>

\* Saves that fail and readers that close, together when their process dies.
Drop(savers, readers) ==
  /\ pending' = [s \in Savers |-> IF s \in savers THEN Nothing ELSE pending[s]]
  /\ view' = [r \in Readers |-> IF r \in readers THEN Nothing ELSE view[r]]
  /\ UNCHANGED content

Next == \/ \E s \in Savers : Begin(s) \/ Commit(s)
        \/ \E r \in Readers : Open(r)
        \/ \E savers \in SUBSET Savers, readers \in SUBSET Readers : Drop(savers, readers)

Spec == Init /\ [][Next]_vars
=============================================================================
