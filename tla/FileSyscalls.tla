---------------------------- MODULE FileSyscalls ---------------------------
(***************************************************************************)
(* The ramfs file table, kernel/ramfs.c, and the file system calls on the  *)
(* per-process descriptor tables, kernel/syscall.c.  System calls run with *)
(* interrupts off, so each is one action.                                  *)
(***************************************************************************)
EXTENDS Integers, Sequences, FiniteSets, FiniteSetsExt

CONSTANTS
  Pcbs,                  \* PCB memory; kmalloc hands it out again after a kfree
  Names,                 \* file names programs use
  BadNames,              \* those ramfs_register refuses: empty or too long
  Content(_),            \* the bytes registered under a name
  RAMFS_MAX_FILES,
  MAX_FDS_PER_PROCESS,
  Lens                   \* the lengths programs ask for

Slots == 0..(RAMFS_MAX_FILES - 1)
Fds == 0..(MAX_FDS_PER_PROCESS - 1)
Unused == "unused"
Closed == [in_use |-> FALSE, file_idx |-> 0 - 1, offset |-> 0]
Zeroed == [in_use |-> FALSE, file_idx |-> 0, offset |-> 0]

ASSUME FileAssumption ==
  /\ BadNames \subseteq Names /\ Unused \notin Names
  /\ RAMFS_MAX_FILES \in Nat /\ MAX_FDS_PER_PROCESS \in Nat
  /\ Lens \subseteq Nat
  /\ \A name \in Names : Content(name) \in Seq(0..255)

VARIABLES
  files,     \* slot -> the registered name, or Unused
  alive,     \* PCBs of live processes
  fds,       \* the descriptor table in each PCB
  ret,       \* what the last system call returned
  received   \* history: the bytes read through each open descriptor

vars == <<files, alive, fds, ret, received>>

Init ==
  /\ files = [i \in Slots |-> Unused]
  /\ alive = {}
  /\ fds = [p \in Pcbs |-> [fd \in Fds |-> Zeroed]]
  /\ ret = 0
  /\ received = [p \in Pcbs |-> [fd \in Fds |-> <<>>]]

----------------------------------------------------------------------------
(* ramfs *)

\* ramfs_lookup: the first slot with that name, or -1.
Lookup(name) ==
  LET hits == {i \in Slots : files[i] = name}
  IN  IF hits = {} THEN 0 - 1 ELSE Min(hits)

\* ramfs_register.  Kernel code may call it at any time; kernel_main does so
\* once, before the first process.
Register(name) ==
  /\ name \notin BadNames
  /\ Lookup(name) < 0
  /\ \E i \in Slots :
       /\ files[i] = Unused /\ \A j \in 0..(i - 1) : files[j] # Unused
       /\ files' = [files EXCEPT ![i] = name]
  /\ UNCHANGED <<alive, fds, ret, received>>

----------------------------------------------------------------------------
(* Processes: process_create zeroes the PCB, process_free does not. *)

Create(p) ==
  /\ p \notin alive
  /\ alive' = alive \cup {p}
  /\ fds' = [fds EXCEPT ![p] = [fd \in Fds |-> Zeroed]]
  /\ received' = [received EXCEPT ![p] = [fd \in Fds |-> <<>>]]
  /\ UNCHANGED <<files, ret>>

\* Exit closes nothing; the descriptors stay in the PCB's memory.
ExitAndFree(p) ==
  /\ p \in alive
  /\ alive' = alive \ {p}
  /\ UNCHANGED <<files, fds, ret, received>>

----------------------------------------------------------------------------
(* System calls *)

Fails == ret' = 0 - 1 /\ UNCHANGED <<files, alive, fds, received>>

\* Fault: descriptors in use are handed out.
FreeFds_InUse(p) == {fd \in Fds : fd >= 3}

\* alloc_fd takes the least of these.
FreeFds(p) == {fd \in Fds : fd >= 3 /\ ~fds[p][fd].in_use}

\* sys_open, with alloc_fd.
SysOpen(p, name) ==
  LET idx == Lookup(name)
      fd == Min(FreeFds(p))
  IN  /\ p \in alive
      /\ IF idx < 0 \/ FreeFds(p) = {}
         THEN Fails
         ELSE /\ fds' = [fds EXCEPT ![p][fd] =
                           [in_use |-> TRUE, file_idx |-> idx, offset |-> 0]]
              /\ ret' = fd
              /\ received' = [received EXCEPT ![p][fd] = <<>>]
              /\ UNCHANGED <<files, alive>>

Open(p, fd) == fd \in Fds /\ fd >= 3 /\ fds[p][fd].in_use

Min2(a, b) == IF a < b THEN a ELSE b

\* Fault: the offset stays.
ReadBytes_NoAdvance(p, fd, data, n) ==
  /\ received' = [received EXCEPT ![p][fd] =
                     @ \o SubSeq(data, fds[p][fd].offset + 1, fds[p][fd].offset + n)]
  /\ ret' = n
  /\ UNCHANGED fds

\* The copy loop of sys_read: n bytes from the offset on.
ReadBytes(p, fd, data, n) ==
  /\ received' = [received EXCEPT ![p][fd] =
                     @ \o SubSeq(data, fds[p][fd].offset + 1, fds[p][fd].offset + n)]
  /\ fds' = [fds EXCEPT ![p][fd].offset = @ + n]
  /\ ret' = n

\* sys_read, with ramfs_get.
SysRead(p, fd, len) ==
  LET e == fds[p][fd]
      data == Content(files[e.file_idx])
      to_copy == Min2(len, Len(data) - e.offset)
  IN  /\ p \in alive
      /\ IF ~Open(p, fd) \/ files[e.file_idx] = Unused
         THEN Fails
         ELSE ReadBytes(p, fd, data, to_copy) /\ UNCHANGED <<files, alive>>

SysClose(p, fd) ==
  /\ p \in alive
  /\ IF ~Open(p, fd)
     THEN Fails
     ELSE /\ fds' = [fds EXCEPT ![p][fd] = Closed]
          /\ received' = [received EXCEPT ![p][fd] = <<>>]
          /\ ret' = 0
          /\ UNCHANGED <<files, alive>>

\* sys_write prints to the screen for descriptor 1 only.
SysWrite(p, fd, len) ==
  /\ p \in alive
  /\ ret' = IF fd = 1 THEN len ELSE 0 - 1
  /\ UNCHANGED <<files, alive, fds, received>>

\* syscall_handler, default: an unknown number.
SysUnknown(p) == p \in alive /\ Fails

\* Descriptor arguments, in and out of range.
FdArgs == Fds \cup {0 - 1, MAX_FDS_PER_PROCESS}

Call(p) ==
  \/ SysUnknown(p)
  \/ \E name \in Names : SysOpen(p, name)
  \/ \E fd \in FdArgs : SysClose(p, fd)
  \/ \E fd \in FdArgs, len \in Lens : SysRead(p, fd, len) \/ SysWrite(p, fd, len)

Next ==
  \/ \E name \in Names : Register(name)
  \/ \E p \in Pcbs : Create(p) \/ ExitAndFree(p) \/ Call(p)

Spec == Init /\ [][Next]_vars

----------------------------------------------------------------------------
(* Properties *)

\* Whatever the lengths asked for and whatever else is open, the bytes read
\* through a descriptor are the file from its start, none skipped or repeated.
ReadsAreTheFile ==
  \A p \in alive : \A fd \in Fds :
    fds[p][fd].in_use =>
      received[p][fd] = SubSeq(Content(files[fds[p][fd].file_idx]), 1, fds[p][fd].offset)

\* A process starts without open files even when its PCB is the memory of one
\* that exited with files open.
StartsWithoutFiles ==
  [][\A p \in alive' \ alive : \A fd \in Fds : ~fds'[p][fd].in_use]_vars

\* What a descriptor refers to never changes under a process: only its owner's
\* open and close do, and reading only moves forward.
DescriptorsStable ==
  [][\A p \in alive \cap alive' : \A fd \in Fds :
       fds[p][fd].in_use /\ fds'[p][fd].in_use =>
         /\ files'[fds'[p][fd].file_idx] = files[fds[p][fd].file_idx]
         /\ fds'[p][fd].offset >= fds[p][fd].offset]_vars
=============================================================================
