-------------------------- MODULE FingerprintCache --------------------------
(***************************************************************************)
(* LcsFingerprintCache (core/lcs_fingerprint_cache.h), the digests of VAE  *)
(* files that lcs_vae_fingerprint shares between threads.  Somebody else   *)
(* writes the files, in place or by replacing them, at any time; a digest  *)
(* reads a file piecemeal.                                                 *)
(*                                                                         *)
(* A file is two parts and a stamp; every write changes the stamp, as the  *)
(* file system's change time does between two clock ticks                  *)
(* (tests/test_lcs.cpp:470 relies on the same).  A digest is represented   *)
(* by the two parts it was computed from.                                  *)
(***************************************************************************)
EXTENDS Naturals, Sequences, FiniteSets, FiniteSetsExt

CONSTANTS Callers,    \* threads that call lcs_vae_fingerprint
          Paths,      \* canonical paths
          MaxEntries, \* digests kept
          MaxWrites,  \* bound: writes
          Missing     \* no file, no digest

ASSUME FingerprintAssumption == MaxEntries \in Nat \ {0} /\ MaxWrites \in Nat

VARIABLES
  vae,       \* the file at each path: two parts and its stamp
  digests,   \* entries_
  caller,    \* a thread's call: its step, path, stamp, the parts it has hashed and the outcome
  seen       \* history: what a caller's file has held since the call began

fingerprintVars == <<vae, digests, caller, seen>>

NoEntry == [stamp |-> Missing, digest |-> Missing]
NoCall == [at |-> "idle", path |-> Missing, stamp |-> Missing, read |-> <<>>, result |-> Missing]

Content(p) == vae[p].parts

FingerprintTypeOK ==
  /\ \A p \in Paths : vae[p].stamp \in 0 .. MaxWrites
  /\ Cardinality({p \in Paths : digests[p] # NoEntry}) <= MaxEntries
  /\ \A t \in Callers : caller[t].at \in {"idle", "waiting", "hashing", "returned", "failed"}
  /\ Cardinality({t \in Callers : caller[t].at = "hashing"}) <= 1   \* mutex_

FingerprintInit ==
  /\ vae = [p \in Paths |-> [parts |-> <<0, 0>>, stamp |-> 0]]
  /\ digests = [p \in Paths |-> NoEntry]
  /\ caller = [t \in Callers |-> NoCall]
  /\ seen = [t \in Callers |-> {}]

-----------------------------------------------------------------------------
(* The world outside.                                                      *)

\* The last stamp the file system gave.
Clock == Max({vae[p].stamp : p \in Paths})

\* Rewriting a part in place, or replacing the file, gives a new stamp.
Write(p) ==
  /\ Clock < MaxWrites
  /\ LET w == Clock + 1 IN
       \E parts \in {<<w, w>>, [Content(p) EXCEPT ![1] = w], [Content(p) EXCEPT ![2] = w]} :
         /\ vae' = [vae EXCEPT ![p] = [parts |-> parts, stamp |-> w]]
         /\ seen' = [t \in Callers |-> IF caller[t].path = p THEN seen[t] \cup {parts} ELSE seen[t]]
  /\ UNCHANGED <<digests, caller>>

-----------------------------------------------------------------------------
(* get.                                                                    *)

Call(t, p) ==
  /\ caller[t].at = "idle"
  /\ caller' = [caller EXCEPT ![t] = [NoCall EXCEPT !.at = "waiting", !.path = p]]
  /\ seen' = [seen EXCEPT ![t] = {Content(p)}]
  /\ UNCHANGED <<vae, digests>>

Locked == \E t \in Callers : caller[t].at = "hashing"

HitsAnyStamp(p) == digests[p] # NoEntry  \* mistake
Hits(p) == digests[p] # NoEntry /\ digests[p].stamp = vae[p].stamp

\* Under the lock, the stamp is taken and decides: return the digest kept, or hash the file.
Lookup(t) ==
  /\ caller[t].at = "waiting" /\ ~Locked
  /\ LET p == caller[t].path IN
       IF Hits(p)
       THEN /\ caller' = [caller EXCEPT ![t].at = "returned", ![t].result = digests[p].digest]
            /\ UNCHANGED digests
       ELSE /\ caller' = [caller EXCEPT ![t].at = "hashing", ![t].stamp = vae[p].stamp]
            /\ digests' = [digests EXCEPT ![p] = NoEntry]
  /\ UNCHANGED <<vae, seen>>

HashPart(t) ==
  /\ caller[t].at = "hashing" /\ Len(caller[t].read) < 2
  /\ caller' = [caller EXCEPT ![t].read = Append(@, Content(caller[t].path)[Len(@) + 1])]
  /\ UNCHANGED <<vae, digests, seen>>

Fails(t) == [caller EXCEPT ![t] = [NoCall EXCEPT !.at = "failed", !.path = caller[t].path]]

\* Opening or reading the file fails: the old entry is gone, nothing takes its place.
HashFails(t) ==
  /\ caller[t].at = "hashing" /\ Len(caller[t].read) < 2
  /\ caller' = Fails(t)
  /\ UNCHANGED <<vae, digests, seen>>

StillAny(t) == TRUE  \* mistake: the stamp is not taken again
Still(t) == vae[caller[t].path].stamp = caller[t].stamp

Store(t) ==
  /\ caller[t].at = "hashing" /\ Len(caller[t].read) = 2
  /\ IF Still(t)
     THEN LET p == caller[t].path
              full == Cardinality({q \in Paths : digests[q] # NoEntry}) >= MaxEntries
              kept == IF full THEN [q \in Paths |-> NoEntry] ELSE digests
          IN /\ digests' = [kept EXCEPT ![p] = [stamp |-> caller[t].stamp, digest |-> caller[t].read]]
             /\ caller' = [caller EXCEPT ![t].at = "returned", ![t].result = caller[t].read]
     ELSE caller' = Fails(t) /\ UNCHANGED digests
  /\ UNCHANGED <<vae, seen>>

Return(t) ==
  /\ caller[t].at \in {"returned", "failed"}
  /\ caller' = [caller EXCEPT ![t] = NoCall]
  /\ seen' = [seen EXCEPT ![t] = {}]
  /\ UNCHANGED <<vae, digests>>

FingerprintNext ==
  \/ \E p \in Paths : Write(p)
  \/ \E t \in Callers :
       \/ \E p \in Paths : Call(t, p)
       \/ Lookup(t) \/ HashPart(t) \/ HashFails(t) \/ Store(t) \/ Return(t)

FingerprintSpec == FingerprintInit /\ [][FingerprintNext]_fingerprintVars

-----------------------------------------------------------------------------
(* Properties.                                                             *)

\* A caller is given the digest of something the file held, as a whole, while the call ran, and
\* an entry that would be hit is the digest of what the file holds now: a file that changes while
\* it is hashed never leaves a digest of its parts under a stamp that matches.
FingerprintIsCurrent ==
  /\ \A t \in Callers : caller[t].at = "returned" => caller[t].result \in seen[t]
  /\ \A p \in Paths : Hits(p) => digests[p].digest = Content(p)
=============================================================================
