-------------------------------- MODULE Files --------------------------------
(***************************************************************************)
(* The open files (lib/c/stdio, fs/vfs.c): the table __iob of streams, the *)
(* list of named files, and the descriptors that tasks hold.  A stream is  *)
(* a named file or the socket that a task has allocated, which goes by the *)
(* name of its task.  Tasks interleave between calls; a call does not      *)
(* yield.                                                                  *)
(***************************************************************************)
EXTENDS Integers, Sequences, FiniteSetsExt

CONSTANTS
  Task,
  Named,       \* the files that may be in the list vfs_head
  Modes,       \* sets of the flags "rd" (__SRD) and "wr" (__SWR)
  NoFile,      \* NULL
  MaxOpen,     \* MAX_OPEN
  FileShared   \* TRUE: a named file may be opened while it is open

Slots == 3 .. MaxOpen - 1

ASSUME FilesConstants ==
  /\ Task \cap Named = {} /\ NoFile \notin Task \cup Named
  /\ Modes \subseteq SUBSET {"rd", "wr"}
  /\ MaxOpen \in Nat /\ FileShared \in BOOLEAN

VARIABLES
  iob,       \* __iob[3 .. MAX_OPEN - 1]
  fd,        \* stream->fd, for the streams that exist
  flags,     \* stream->flags
  vfs,       \* the files in the list vfs_head
  live,      \* the sockets that are allocated
  handle,    \* the descriptor each task uses, -1 without one
  opened     \* history: the stream each task got it for

filesVars == <<iob, fd, flags, vfs, live, handle, opened>>

\* vfs_init and the named files that drivers add at boot.
FilesInit ==
  /\ iob = [i \in Slots |-> NoFile]
  /\ fd = [s \in Task \cup Named |-> -1]
  /\ flags = [s \in Task \cup Named |-> {}]
  /\ vfs = Named
  /\ live = {}
  /\ handle = [t \in Task |-> -1]
  /\ opened = [t \in Task |-> NoFile]

Holds(t, i, s) ==
  /\ handle' = [handle EXCEPT ![t] = i]
  /\ opened' = [opened EXCEPT ![t] = s]

\* vfs_add and vfs_delete.
VfsAdd(f) == f \notin vfs /\ vfs' = vfs \cup {f} /\ UNCHANGED <<iob, fd, flags, live, handle, opened>>
VfsDelete(f) == f \in vfs /\ vfs' = vfs \ {f} /\ UNCHANGED <<iob, fd, flags, live, handle, opened>>

\* open: the first slot that is free, or holds the file.
Openable(f) == {i \in Slots : iob[i] \in {NoFile, f}}

Open(t, f, m) ==
  /\ handle[t] = -1 /\ f \in vfs /\ Openable(f) # {}
  /\ FileShared \/ f \notin {iob[i] : i \in Slots}
  /\ LET i == Min(Openable(f)) IN
       /\ iob' = [iob EXCEPT ![i] = f]
       /\ fd' = IF iob[i] = NoFile THEN [fd EXCEPT ![f] = i] ELSE fd
       /\ Holds(t, i, f)
  /\ flags' = [flags EXCEPT ![f] = m]
  /\ UNCHANGED <<vfs, live>>

\* FAULT: slots in use are taken.
AnySlots == Slots

\* iob_add
FreeSlots == {i \in Slots : iob[i] = NoFile}

\* A socket is allocated and added; without memory or a slot there is none.
Socket(t, m) ==
  /\ handle[t] = -1 /\ t \notin live /\ FreeSlots # {}
  /\ LET i == Min(FreeSlots) IN
       /\ iob' = [iob EXCEPT ![i] = t]
       /\ fd' = [fd EXCEPT ![t] = i]
       /\ Holds(t, i, t)
  /\ live' = live \cup {t}
  /\ flags' = [flags EXCEPT ![t] = m]
  /\ UNCHANGED vfs

\* close: the call-back frees a socket; then its slot is cleared.  With an
\* empty slot it returns -1.  The flags of a stream that is not open say
\* nothing: they are left empty.
Close(t) ==
  /\ handle[t] # -1
  /\ IF iob[handle[t]] = NoFile
     THEN UNCHANGED <<iob, fd, flags, live>>
     ELSE /\ live' = live \ {iob[handle[t]]}
          /\ fd' = [fd EXCEPT ![iob[handle[t]]] = -1]
          /\ flags' = [flags EXCEPT ![iob[handle[t]]] = {}]
          /\ iob' = [iob EXCEPT ![handle[t]] = NoFile]
  /\ Holds(t, -1, NoFile)
  /\ UNCHANGED vfs

\* mode: the flags of whatever stream is in the slot.
Mode(t, m) ==
  /\ handle[t] # -1 /\ iob[handle[t]] # NoFile
  /\ flags' = [flags EXCEPT ![iob[handle[t]]] = m]
  /\ UNCHANGED <<iob, fd, vfs, live, handle, opened>>

\* fwrite, fputc: refused without __SWR.
Writable(t) == handle[t] # -1 /\ iob[handle[t]] # NoFile /\ "wr" \in flags[iob[handle[t]]]

-----------------------------------------------------------------------------
\* States of the files.
FilesTypeOK ==
  /\ iob \in [Slots -> Task \cup Named \cup {NoFile}]
  /\ \A s \in DOMAIN fd : fd[s] \in Slots \cup {-1}
  /\ \A t \in Task : handle[t] \in Slots \cup {-1} /\ (handle[t] = -1 <=> opened[t] = NoFile)
  /\ vfs \subseteq Named /\ live \subseteq Task

(***************************************************************************)
(* open, iob_add, close: the descriptor that a task holds leads to the     *)
(* stream it opened, allocated and with this descriptor, whatever others   *)
(* open and close meanwhile, unless FileShared lets two open one file: the *)
(* one that closes it first takes the descriptor from the other.           *)
(***************************************************************************)
OwnStream ==
  \A t \in Task : handle[t] # -1 =>
    /\ iob[handle[t]] = opened[t]
    /\ fd[opened[t]] = handle[t]
    /\ opened[t] \in Task => opened[t] \in live
=============================================================================
