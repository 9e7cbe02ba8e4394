---------------------------- MODULE ArchiveFiles ----------------------------
(***************************************************************************)
(* Archives on disk (core/safetensors_write.cpp, LatentClip::save of       *)
(* core/continuation.cpp and SafeTensors of core/safetensors.cpp).  A save *)
(* writes a staged file beside the destination and renames it; readers map *)
(* the file and read it piecemeal.  Processes die at any point and leave   *)
(* their staged files.                                                     *)
(*                                                                         *)
(* A file is an inode with two parts, the header and the tensors; a part   *)
(* holds the archive it is of.  The disk keeps what was written: the code  *)
(* never syncs, so a power failure is outside its promise.  A staged name  *)
(* holds the process, a nanosecond clock and a serial number; the clock is *)
(* taken never to tell two names apart, except for LatentClip::save, whose *)
(* name has no process and relies on it there.                             *)
(***************************************************************************)
EXTENDS Naturals, Sequences, FiniteSets, FiniteSetsExt

CONSTANTS ArchiveSavers,   \* threads that save the archive
          ArchiveReaders,  \* threads that read it
          ProcessOf,       \* the process of each of them
          MaxSaves,        \* bound: saves begun
          Blank            \* a part not written, no archive, no file

ASSUME ArchiveAssumption ==
  /\ DOMAIN ProcessOf = ArchiveSavers \cup ArchiveReaders
  /\ IsFiniteSet(ArchiveSavers) /\ IsFiniteSet(ArchiveReaders)
  /\ MaxSaves \in Nat
  /\ Blank \notin Nat /\ \A a \in 1 .. MaxSaves : Blank # <<a, a>>   \* no number, no archive

VARIABLES
  inode,    \* the two parts of each file
  names,    \* directory: the inode behind each name, Blank where there is none
  serial,   \* the counter of each process
  saver,    \* where a saver is: its step, the archive, its staged name and its open inode
  reader,   \* the inode a reader maps and the parts it has read
  begun     \* saves begun

archiveVars == <<inode, names, serial, saver, reader, begun>>

Processes == {ProcessOf[a] : a \in ArchiveSavers \cup ArchiveReaders}
Target == <<>>
StagedNames == Processes \X (0 .. (MaxSaves - 1))
Inodes == 1 .. (Cardinality(ArchiveSavers) + Cardinality(ArchiveReaders) + MaxSaves + 1)

IdleSaver == [at |-> "idle", archive |-> Blank, name |-> Target, open |-> Blank]
IdleReader == [map |-> Blank, got |-> <<>>]

ArchiveTypeOK ==
  /\ inode \in [Inodes -> (1 .. MaxSaves \cup {Blank}) \X (1 .. MaxSaves \cup {Blank})]
  /\ names \in [StagedNames \cup {Target} -> Inodes \cup {Blank}]
  /\ \A s \in ArchiveSavers :
       /\ saver[s].at \in {"idle", "named", "opened", "half", "written", "cleanup"}
       /\ saver[s].name \in StagedNames \cup {Target}
       /\ saver[s].open \in Inodes \cup {Blank}
  /\ \A r \in ArchiveReaders : reader[r].map \in Inodes \cup {Blank} /\ Len(reader[r].got) <= 2
  /\ begun \in 0 .. MaxSaves

ArchiveInit ==
  /\ inode = [i \in Inodes |-> <<Blank, Blank>>]
  /\ names = [n \in StagedNames \cup {Target} |-> Blank]
  /\ serial = [p \in Processes |-> 0]
  /\ saver = [s \in ArchiveSavers |-> IdleSaver]
  /\ reader = [r \in ArchiveReaders |-> IdleReader]
  /\ begun = 0

InUse == {names[n] : n \in StagedNames \cup {Target}}
           \cup {saver[s].open : s \in ArchiveSavers} \cup {reader[r].map : r \in ArchiveReaders}

-----------------------------------------------------------------------------
(* write_safetensors_atomic.                                               *)

SharedName(s) == <<CHOOSE p \in Processes : TRUE, serial[ProcessOf[s]]>>  \* mistake: no process
StagedName(s) == <<ProcessOf[s], serial[ProcessOf[s]]>>

BeginSave(s) ==
  /\ saver[s].at = "idle" /\ begun < MaxSaves
  /\ begun' = begun + 1
  /\ saver' = [saver EXCEPT ![s] = [at |-> "named", archive |-> begun + 1, name |-> StagedName(s),
                                    open |-> Blank]]
  /\ serial' = [serial EXCEPT ![ProcessOf[s]] = @ + 1]
  /\ UNCHANGED <<inode, names, reader>>

\* Opening truncates what has the name already, the staged file of a process that died, or takes
\* room on the disk for a new file.
OpenStaged(s) ==
  /\ saver[s].at = "named"
  /\ names[saver[s].name] = Blank => Inodes \ InUse # {}
  /\ LET old == names[saver[s].name]
         i == IF old # Blank THEN old ELSE Min(Inodes \ InUse)
     IN /\ inode' = [inode EXCEPT ![i] = <<Blank, Blank>>]
        /\ names' = [names EXCEPT ![saver[s].name] = i]
        /\ saver' = [saver EXCEPT ![s].at = "opened", ![s].open = i]
  /\ UNCHANGED <<serial, reader, begun>>

WritePart(s, part, from, to) ==
  /\ saver[s].at = from
  /\ inode' = [inode EXCEPT ![saver[s].open][part] = saver[s].archive]
  /\ saver' = [saver EXCEPT ![s].at = to, ![s].open = IF to = "written" THEN Blank ELSE @]
  /\ UNCHANGED <<names, serial, reader, begun>>

WriteHeader(s) == WritePart(s, 1, "opened", "half")

\* The rest of the file, flushed and closed.
WriteTensors(s) == WritePart(s, 2, "half", "written")

\* The disk is full, the directory is gone: the open, a write, the flush or the close reports it.
SaveFails(s) ==
  /\ saver[s].at \in {"named", "opened", "half"}
  /\ saver' = [saver EXCEPT ![s].at = "cleanup", ![s].open = Blank]
  /\ UNCHANGED <<inode, names, serial, reader, begun>>

Rename(s) ==
  /\ saver[s].at = "written"
  /\ names[saver[s].name] # Blank
  /\ names' = [names EXCEPT ![Target] = names[saver[s].name], ![saver[s].name] = Blank]
  /\ saver' = [saver EXCEPT ![s].at = "cleanup"]
  /\ UNCHANGED <<inode, serial, reader, begun>>

\* On Windows it always does while somebody maps the destination.
RenameFails(s) ==
  /\ saver[s].at = "written"
  /\ saver' = [saver EXCEPT ![s].at = "cleanup"]
  /\ UNCHANGED <<inode, names, serial, reader, begun>>

\* ~Cleanup removes the staged file, after a success too, when it has its name no longer.
RemoveStaged(s) ==
  /\ saver[s].at = "cleanup"
  /\ names' = [names EXCEPT ![saver[s].name] = Blank]
  /\ saver' = [saver EXCEPT ![s] = IdleSaver]
  /\ UNCHANGED <<inode, serial, reader, begun>>

-----------------------------------------------------------------------------
(* SafeTensors::open, the reads through the mapping, close.                *)

OpenArchive(r) ==
  /\ reader[r].map = Blank /\ names[Target] # Blank
  /\ reader' = [reader EXCEPT ![r].map = names[Target]]
  /\ UNCHANGED <<inode, names, serial, saver, begun>>

ReadPart(r) ==
  /\ reader[r].map # Blank /\ Len(reader[r].got) < 2
  /\ reader' = [reader EXCEPT ![r].got = Append(@, inode[reader[r].map][Len(@) + 1])]
  /\ UNCHANGED <<inode, names, serial, saver, begun>>

CloseArchive(r) ==
  /\ reader[r].map # Blank
  /\ reader' = [reader EXCEPT ![r] = IdleReader]
  /\ UNCHANGED <<inode, names, serial, saver, begun>>

-----------------------------------------------------------------------------

\* The process dies and starts again: its counter too.
Dies(p) ==
  /\ saver' = [s \in ArchiveSavers |-> IF ProcessOf[s] = p THEN IdleSaver ELSE saver[s]]
  /\ reader' = [r \in ArchiveReaders |-> IF ProcessOf[r] = p THEN IdleReader ELSE reader[r]]
  /\ serial' = [serial EXCEPT ![p] = 0]
  /\ UNCHANGED <<inode, names, begun>>

ArchiveNext ==
  \/ \E s \in ArchiveSavers :
       \/ BeginSave(s) \/ OpenStaged(s) \/ WriteHeader(s) \/ WriteTensors(s) \/ SaveFails(s)
       \/ Rename(s) \/ RenameFails(s) \/ RemoveStaged(s)
  \/ \E r \in ArchiveReaders : OpenArchive(r) \/ ReadPart(r) \/ CloseArchive(r)
  \/ \E p \in Processes : Dies(p)

ArchiveSpec == ArchiveInit /\ [][ArchiveNext]_archiveVars

-----------------------------------------------------------------------------
(* Properties.                                                             *)

\* The file behind a name, and what a reader will have read when it is through.
Stored(i) == IF i = Blank THEN Blank ELSE inode[i]
Viewed(r) ==
  IF reader[r].map = Blank THEN Blank
  ELSE [k \in 1 .. 2 |-> IF k <= Len(reader[r].got) THEN reader[r].got[k] ELSE inode[reader[r].map][k]]

Whole == INSTANCE AtomicArchive WITH
  Savers <- ArchiveSavers, Readers <- ArchiveReaders,
  Archives <- {<<a, a>> : a \in 1 .. MaxSaves}, Nothing <- Blank,
  content <- Stored(names[Target]),
  pending <- [s \in ArchiveSavers |->
                IF saver[s].at \in {"idle", "cleanup"} THEN Blank ELSE <<saver[s].archive, saver[s].archive>>],
  view <- [r \in ArchiveReaders |-> Viewed(r)]

\* The destination always holds one whole archive, the last whose save succeeded, through failed
\* saves, two processes that save at once and processes that die between any two steps; a reader
\* sees the archive it opened to the end, whatever is saved meanwhile.  A process started again
\* may meet, truncate and reuse the staged file it left.
ReplacesAtomically == Whole!Spec
=============================================================================
