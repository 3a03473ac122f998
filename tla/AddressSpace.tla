---------------------------- MODULE AddressSpace ---------------------------
(***************************************************************************)
(* Page directories, page tables and the frames they hold: kernel/paging.c *)
(* and the parts of kernel/process.c that build an address space and take  *)
(* it down.                                                                *)
(*                                                                         *)
(* The shell builds one address space at a time with interrupts on, so     *)
(* process exits and the reaper's process_free fall between its steps.     *)
(* Page numbers and frame numbers are naturals.  The kernel reaches a      *)
(* frame by using its number as a virtual page (the identity window); the  *)
(* CPU's page walk uses frame numbers directly.  The frame allocator is    *)
(* atomic here; module Pmm takes its steps apart.                          *)
(***************************************************************************)
EXTENDS Integers, Sequences, FiniteSets, FiniteSetsExt

CONSTANTS
  Procs,              \* PCBs
  Frames,             \* frames the PMM has to give
  ENTRIES,            \* PD_ENTRIES and PT_ENTRIES
  IDENTITY_PT_COUNT,  \* page tables of the identity window
  Images              \* sequences of the pages an ELF image and its stack fill

KernelPd == 0                 \* the frame of kernel_pd
IdentityPt(t) == t + 1        \* the frame of identity_pts[t]
Window == 0..(IDENTITY_PT_COUNT * ENTRIES - 1)
Index == 0..(ENTRIES - 1)

ASSUME AddressSpaceAssumption ==
  /\ IDENTITY_PT_COUNT \in Nat \ {0} /\ ENTRIES \in Nat /\ IDENTITY_PT_COUNT < ENTRIES
  /\ Frames \subseteq Window /\ \A f \in Frames : f > IDENTITY_PT_COUNT

\* Images lie in the address space, and not at addresses the kernel uses to
\* reach its own tables or a frame of the allocator.
ASSUME ImageAssumption ==
  \A image \in Images :
    /\ image \in Seq(Nat)
    /\ \A k \in DOMAIN image :
         /\ image[k] \div ENTRIES \in Index
         /\ image[k] \notin Frames /\ image[k] > IDENTITY_PT_COUNT

NotPresent == [frame |-> 0 - 1, user |-> FALSE]
Entry(f, u) == [frame |-> f, user |-> u]
Present(e) == e # NotPresent
NoFrame == 0

VARIABLES
  used,      \* frames marked in pmm_bitmap
  mem,       \* frames seen as arrays of entries
  phase,     \* where each process is in its life
  cr3,
  stack,     \* <<stack_frame_lo, stack_frame_hi>>
  todo,      \* pages still to be mapped
  frame,     \* the frame the loader has just allocated
  loaded,    \* history: page -> frame, as mapped for the process
  lost,      \* history: frames no page directory will give back
  machine    \* "running", or "panic" once kpanic has halted it

procVars == <<phase, cr3, stack, todo, loaded>>
vars == <<used, mem, procVars, frame, lost, machine>>

----------------------------------------------------------------------------
(* Translation *)

\* The CPU's walk of the page directory in frame pd.
Pde(pd, page) == mem[pd][page \div ENTRIES]
Walk(pd, page) ==
  IF Present(Pde(pd, page)) THEN mem[Pde(pd, page).frame][page % ENTRIES] ELSE NotPresent

\* The frame the kernel touches when it uses a frame's address as a pointer:
\* every directory shares the identity tables, so CR3 does not matter.
Deref(f) == Walk(KernelPd, f).frame

Free == Frames \ used
Alloc == IF Free = {} THEN NoFrame ELSE Min(Free)

Taken(f) == IF f = NoFrame THEN {} ELSE {f}

\* paging_init: the identity window; no other entry is present.
IdentityMap ==
  [f \in Window |->
     IF f = KernelPd
     THEN [i \in Index |-> IF i < IDENTITY_PT_COUNT THEN Entry(IdentityPt(i), FALSE) ELSE NotPresent]
     ELSE IF f \in {IdentityPt(t) : t \in 0..(IDENTITY_PT_COUNT - 1)}
     THEN [i \in Index |-> Entry((f - 1) * ENTRIES + i, FALSE)]
     ELSE [i \in Index |-> NotPresent]]

Init ==
  /\ used = {}
  /\ mem = IdentityMap
  /\ phase = [p \in Procs |-> "none"]
  /\ cr3 = [p \in Procs |-> NoFrame]
  /\ stack = [p \in Procs |-> <<NoFrame, NoFrame>>]
  /\ todo = [p \in Procs |-> <<>>]
  /\ frame = NoFrame
  /\ loaded = [p \in Procs |-> <<>>]
  /\ lost = {}
  /\ machine = "running"

----------------------------------------------------------------------------
(* process_create *)

Building == {p \in Procs : phase[p] \in {"lo", "hi", "check", "alloc", "map"}}

\* Fault: one kernel entry is not copied.
UserPd_Short ==
  [i \in Index |-> IF i < IDENTITY_PT_COUNT - 1 THEN mem[KernelPd][i] ELSE NotPresent]

\* A new directory: the kernel's entries are copied, the rest cleared.
UserPd == [i \in Index |-> IF i < IDENTITY_PT_COUNT THEN mem[KernelPd][i] ELSE NotPresent]

\* paging_create_user_pd
CreatePd(p, image) ==
  /\ phase[p] = "none" /\ Building = {} /\ Alloc # NoFrame
  /\ used' = used \cup {Alloc}
  /\ mem' = [mem EXCEPT ![Deref(Alloc)] = UserPd]
  /\ cr3' = [cr3 EXCEPT ![p] = Alloc]
  /\ todo' = [todo EXCEPT ![p] = image]
  /\ loaded' = [loaded EXCEPT ![p] = <<>>]
  /\ phase' = [phase EXCEPT ![p] = "lo"]
  /\ UNCHANGED <<stack, frame, lost, machine>>

AllocStackLo(p) ==
  /\ phase[p] = "lo"
  /\ stack' = [stack EXCEPT ![p] = <<Alloc, NoFrame>>]
  /\ used' = used \cup Taken(Alloc)
  /\ phase' = [phase EXCEPT ![p] = "hi"]
  /\ UNCHANGED <<mem, cr3, todo, frame, loaded, lost, machine>>

AllocStackHi(p) ==
  /\ phase[p] = "hi"
  /\ stack' = [stack EXCEPT ![p][2] = Alloc]
  /\ used' = used \cup Taken(Alloc)
  /\ phase' = [phase EXCEPT ![p] = "check"]
  /\ UNCHANGED <<mem, cr3, todo, frame, loaded, lost, machine>>

\* Fault: the kernel's shared tables count as private.
PrivateTables_All(p) ==
  {mem[Deref(cr3[p])][i].frame : i \in {j \in Index : Present(mem[Deref(cr3[p])][j])}}

\* The frames paging_free_pd hands back, read through the window: private
\* tables, what they map, and the directory itself.
PrivateTables(p) ==
  {mem[Deref(cr3[p])][i].frame :
     i \in {j \in IDENTITY_PT_COUNT..(ENTRIES - 1) : Present(mem[Deref(cr3[p])][j])}}
PrivatePages(p) ==
  UNION {{mem[Deref(t)][i].frame : i \in {j \in Index : Present(mem[Deref(t)][j])}} :
           t \in PrivateTables(p)}
PdFrames(p) == PrivateTables(p) \cup PrivatePages(p) \cup {cr3[p]}

StackFrames(p) == {stack[p][1], stack[p][2]} \ {NoFrame}

\* Fault: the private page tables are not given back.
Release_KeepsTables(p) ==
  /\ used' = used \ (PrivatePages(p) \cup {cr3[p]} \cup StackFrames(p))
  /\ phase' = [phase EXCEPT ![p] = "none"]
  /\ cr3' = [cr3 EXCEPT ![p] = NoFrame]
  /\ stack' = [stack EXCEPT ![p] = <<NoFrame, NoFrame>>]
  /\ todo' = [todo EXCEPT ![p] = <<>>]
  /\ loaded' = [loaded EXCEPT ![p] = <<>>]
  /\ UNCHANGED <<mem, frame, lost, machine>>

\* What is left when a process is gone: every frame it is known to hold is free.
Release(p) ==
  /\ used' = used \ (PdFrames(p) \cup StackFrames(p))
  /\ phase' = [phase EXCEPT ![p] = "none"]
  /\ cr3' = [cr3 EXCEPT ![p] = NoFrame]
  /\ stack' = [stack EXCEPT ![p] = <<NoFrame, NoFrame>>]
  /\ todo' = [todo EXCEPT ![p] = <<>>]
  /\ loaded' = [loaded EXCEPT ![p] = <<>>]
  /\ UNCHANGED <<mem, frame, lost, machine>>

\* A stack frame is missing, or the process table is full: process_create
\* undoes its work.
CreateFails(p) == phase[p] = "check" /\ Release(p)

CreateSucceeds(p) ==
  /\ phase[p] = "check"
  /\ NoFrame \notin {stack[p][1], stack[p][2]}
  /\ phase' = [phase EXCEPT ![p] = "alloc"]
  /\ UNCHANGED <<used, mem, cr3, stack, todo, frame, loaded, lost, machine>>

----------------------------------------------------------------------------
(* elf32_load and the user stack of process_create_from_elf, page by page *)

AllocPage(p) ==
  /\ phase[p] = "alloc" /\ todo[p] # <<>> /\ Alloc # NoFrame
  /\ frame' = Alloc
  /\ used' = used \cup {Alloc}
  /\ phase' = [phase EXCEPT ![p] = "map"]
  /\ UNCHANGED <<mem, cr3, stack, todo, loaded, lost, machine>>

\* Out of frames: the half-built process goes to the reaper.
LoadFails(p) ==
  /\ phase[p] = "alloc" /\ todo[p] # <<>> /\ Alloc = NoFrame
  /\ phase' = [phase EXCEPT ![p] = "zombie"]
  /\ UNCHANGED <<used, mem, cr3, stack, todo, frame, loaded, lost, machine>>

\* paging_map_into(pd, page, f, PTE_USER...) when the directory entry is
\* present: it gains PDE_USER and the table it points to gets the entry.
MapIntoTable(pd, page, f) ==
  LET d == Deref(pd)
      t == Deref(mem[d][page \div ENTRIES].frame)
  IN  mem' = [mem EXCEPT ![d][page \div ENTRIES].user = TRUE,
                         ![t][page % ENTRIES] = Entry(f, TRUE)]

\* The same when it is not: a cleared table is allocated first.
MapIntoNewTable(pd, page, f) ==
  LET d == Deref(pd)
      t == Deref(Alloc)
      fresh == [i \in Index |-> NotPresent]
  IN  /\ mem' = [mem EXCEPT ![d][page \div ENTRIES] = Entry(Alloc, TRUE),
                            ![t] = [fresh EXCEPT ![page % ENTRIES] = Entry(f, TRUE)]]
      /\ used' = used \cup {Alloc}

\* The frame paging_free_pd will not find: the new one if the page is inside the
\* window, the one it replaces if two segments of the image share a page.
Stranded(p, page) ==
  IF page \in Window THEN {frame}
  ELSE IF Present(Walk(cr3[p], page)) THEN {Walk(cr3[p], page).frame} ELSE {}

MapPage(p) ==
  LET page == Head(todo[p])
      known == Present(mem[Deref(cr3[p])][page \div ENTRIES])
  IN  /\ phase[p] = "map"
      /\ \/ known /\ MapIntoTable(cr3[p], page, frame) /\ UNCHANGED used
         \/ ~known /\ Alloc # NoFrame /\ MapIntoNewTable(cr3[p], page, frame)
      /\ loaded' = [loaded EXCEPT ![p] = Append(@, <<page, frame>>)]
      /\ lost' = lost \cup Stranded(p, page)
      /\ todo' = [todo EXCEPT ![p] = Tail(@)]
      /\ frame' = NoFrame
      /\ phase' = [phase EXCEPT ![p] = "alloc"]
      /\ UNCHANGED <<cr3, stack, machine>>

\* No frame for the table: kpanic.
MapPanics(p) ==
  /\ phase[p] = "map" /\ Alloc = NoFrame
  /\ ~Present(mem[Deref(cr3[p])][Head(todo[p]) \div ENTRIES])
  /\ machine' = "panic"
  /\ UNCHANGED <<used, mem, procVars, frame, lost>>

LoadSucceeds(p) ==
  /\ phase[p] = "alloc" /\ todo[p] = <<>>
  /\ phase' = [phase EXCEPT ![p] = "ready"]
  /\ UNCHANGED <<used, mem, cr3, stack, todo, frame, loaded, lost, machine>>

----------------------------------------------------------------------------
(* Exit and reaping *)

Exit(p) ==
  /\ phase[p] = "ready"
  /\ phase' = [phase EXCEPT ![p] = "zombie"]
  /\ UNCHANGED <<used, mem, cr3, stack, todo, frame, loaded, lost, machine>>

ProcessFree(p) == phase[p] = "zombie" /\ Release(p)

BuildStep(p) ==
  \/ \E image \in Images : CreatePd(p, image)
  \/ AllocStackLo(p) \/ AllocStackHi(p) \/ CreateFails(p) \/ CreateSucceeds(p)
  \/ AllocPage(p) \/ LoadFails(p) \/ MapPage(p) \/ MapPanics(p) \/ LoadSucceeds(p)

Next ==
  /\ machine = "running"
  /\ \E p \in Procs : BuildStep(p) \/ Exit(p) \/ ProcessFree(p)

Spec == Init /\ [][Next]_vars

----------------------------------------------------------------------------
(* Properties *)

Live == {p \in Procs : phase[p] # "none"}

\* The mappings of p that no later one has replaced: <<page, frame>>.
Loaded(p) ==
  {loaded[p][i] : i \in {j \in DOMAIN loaded[p] :
                          \A k \in (j + 1)..Len(loaded[p]) : loaded[p][k][1] # loaded[p][j][1]}}

\* process_free returns no frame that another process, the loader or the
\* kernel still uses, and none twice: what paging_free_pd and the two stack
\* frames of one process hold is disjoint from what any other holds.
OwnershipDisjoint ==
  \A p \in Live :
    /\ PdFrames(p) \cup StackFrames(p) \subseteq used \ {frame}
    /\ PdFrames(p) \cap StackFrames(p) = {}
    /\ \A q \in Live \ {p} :
         (PdFrames(p) \cup StackFrames(p)) \cap (PdFrames(q) \cup StackFrames(q)) = {}

\* After any switch of CR3 the kernel is still mapped: the CPU finds the
\* identity tables in every directory (paging_create_user_pd's copy), and the
\* pages no image has taken stay closed to ring 3.
KernelMapped ==
  \A p \in Live :
    /\ \A i \in 0..(IDENTITY_PT_COUNT - 1) : mem[cr3[p]][i].frame = IdentityPt(i)
    /\ \A v \in Window :
         Walk(cr3[p], v).user => \E image \in Images : v \in {image[i] : i \in DOMAIN image}

\* Outside the identity window an address space is private: a page stays
\* mapped to the frame that was loaded for it last, whatever else is built or freed.
PrivatePagesKept ==
  \A p \in Live : \A m \in Loaded(p) :
    m[1] \notin Window => Walk(cr3[p], m[1]).frame = m[2]

\* No frame is lost on any path of process_create, elf32_load and process_free
\* except in two ways: a frame mapped inside the identity window is out of
\* paging_free_pd's reach, and one whose page is mapped again is in no table any
\* more.  Both stay marked used for ever.
FramesAccounted ==
  used = (UNION {PdFrames(p) \cup StackFrames(p) : p \in Live}) \cup Taken(frame) \cup lost
=============================================================================
