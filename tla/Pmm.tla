-------------------------------- MODULE Pmm --------------------------------
(***************************************************************************)
(* The physical frame allocator, kernel/pmm.c.  pmm_alloc_frame and        *)
(* pmm_free_frame do not disable interrupts: the shell executes them with  *)
(* interrupts on, load by load and store by store as the compiler orders   *)
(* them, and the timer may free the frames of an exited process in between *)
(* (scheduler_reap_zombies).  Every allocation is made by the shell.       *)
(***************************************************************************)
EXTENDS Integers, FiniteSets

CONSTANTS
  MAX_FRAMES,   \* bits of the bitmap
  WORD_BITS,    \* bits of one word of it (32)
  Available,    \* frames the Multiboot memory map reports as available RAM
  KernelEnd,    \* kernel_end_frame
  MbFrame       \* frame of the Multiboot information structure

Frames == 0..(MAX_FRAMES - 1)

ASSUME PmmAssumption ==
  /\ MAX_FRAMES \in Nat \ {0}
  /\ WORD_BITS \in Nat \ {0}
  /\ Available \subseteq Frames
  /\ KernelEnd \in Frames
  /\ MbFrame \in Nat

VARIABLES
  used,         \* the bits set in pmm_bitmap
  free_frames,  \* free_frames
  owned,        \* the frames handed out and not given back
  pc,           \* where the shell is in pmm_alloc_frame or pmm_free_frame
  frame,        \* its local variable `frame'
  word,         \* the word of the bitmap it has loaded
  count,        \* the value of free_frames it has loaded
  interrupted   \* history: the timer has freed frames inside one of the shell's calls

local == <<pc, frame, word, count>>
vars == <<used, free_frames, owned, local, interrupted>>

\* The frames whose bits share a word with the bit of f.
Word(f) == {g \in Frames : g \div WORD_BITS = f \div WORD_BITS}

\* Frames pmm_init takes back: frame 0, the kernel image, the boot information.
Reserved == 0..KernelEnd \cup (Frames \cap {MbFrame})

\* pmm_init.  Step 3 sets the bit of frame 0 without counting it, so step 4
\* does not count it either.
Init ==
  /\ used = (Frames \ Available) \cup Reserved
  /\ free_frames = Cardinality(Available) - Cardinality(Available \cap (Reserved \ {0}))
  /\ owned = {}
  /\ pc = "idle"
  /\ frame = 0
  /\ word = {}
  /\ count = 0
  /\ interrupted = FALSE

----------------------------------------------------------------------------
(* pmm_alloc_frame *)

\* free_frames is 0: return 0 at once.
AllocFails ==
  /\ pc = "idle"
  /\ free_frames = 0
  /\ UNCHANGED vars

\* Load free_frames.
AllocBegin ==
  /\ pc = "idle"
  /\ free_frames # 0
  /\ count' = free_frames
  /\ frame' = 0
  /\ pc' = "scan"
  /\ UNCHANGED <<used, free_frames, owned, word>>

\* The scan has passed the last word.
ScanEnds == frame >= MAX_FRAMES

\* Where the scan goes from frame f: a full word is skipped at once.
SkipTo(f) == IF f % WORD_BITS = 0 /\ Word(f) \subseteq used THEN f + WORD_BITS ELSE f + 1

\* Skip a full word, or test one bit; a clear bit is claimed in the loaded copy
\* of its word.  After the last word, return 0.
AllocScan ==
  /\ pc = "scan"
  /\ IF ScanEnds
     THEN pc' = "idle" /\ frame' = 0 /\ count' = 0 /\ UNCHANGED word
     ELSE /\ IF frame \in used
             THEN frame' = SkipTo(frame) /\ UNCHANGED <<pc, word>>
             ELSE /\ word' = (used \cap Word(frame)) \cup {frame}
                  /\ pc' = "alloc_store"
                  /\ UNCHANGED frame
          /\ UNCHANGED count
  /\ UNCHANGED <<used, free_frames, owned>>

\* Faults: store the one bit and clear the others; set bits and never clear one.
StoreWord_BitOnly == used' = (used \ Word(frame)) \cup (word \cap {frame})
StoreWord_Or == used' = used \cup word

\* The loaded word, with one bit changed, goes back to the bitmap.
StoreWord == used' = (used \ Word(frame)) \cup word

\* frame_set: store the word.
AllocStore ==
  /\ pc = "alloc_store"
  /\ StoreWord
  /\ pc' = "alloc_count"
  /\ UNCHANGED <<free_frames, owned, frame, word, count>>

\* free_frames--, from the value loaded at entry; return the frame.
AllocReturn ==
  /\ pc = "alloc_count"
  /\ free_frames' = count - 1
  /\ owned' = owned \cup {frame}
  /\ pc' = "idle"
  /\ frame' = 0 /\ word' = {} /\ count' = 0
  /\ UNCHANGED used

----------------------------------------------------------------------------
(* pmm_free_frame, called by the shell. *)

\* Load the word; the double-free guard returns if the bit is clear.
FreeBegin(f) ==
  /\ pc = "idle"
  /\ f \in owned
  /\ owned' = owned \ {f}
  /\ IF f \in used
     THEN /\ frame' = f
          /\ word' = (used \cap Word(f)) \ {f}
          /\ pc' = "free_count"
     ELSE UNCHANGED <<pc, frame, word>>
  /\ UNCHANGED <<used, free_frames, count>>

\* free_frames++ is one instruction.
FreeCount ==
  /\ pc = "free_count"
  /\ free_frames' = free_frames + 1
  /\ pc' = "free_store"
  /\ UNCHANGED <<used, owned, frame, word, count>>

\* frame_clear: store the word.
FreeStore ==
  /\ pc = "free_store"
  /\ StoreWord
  /\ pc' = "idle"
  /\ frame' = 0 /\ word' = {}
  /\ UNCHANGED <<free_frames, owned, count>>

----------------------------------------------------------------------------
(* The timer interrupt: process_free gives back the frames S of a zombie.   *)

Reap(S) ==
  /\ S # {}
  /\ owned' = owned \ S
  /\ used' = used \ S
  /\ free_frames' = free_frames + Cardinality(S \cap used)
  /\ interrupted' = (interrupted \/ pc # "idle")
  /\ UNCHANGED local

ShellStep ==
  \/ AllocFails \/ AllocBegin \/ AllocScan \/ AllocStore \/ AllocReturn
  \/ \E f \in owned : FreeBegin(f)
  \/ FreeCount \/ FreeStore

Next ==
  \/ ShellStep /\ UNCHANGED interrupted
  \/ \E S \in SUBSET owned : Reap(S)

Spec == Init /\ [][Next]_vars

----------------------------------------------------------------------------
(* Properties. *)

\* Where the scan may be, the end of the bitmap included.
ScanRange == 0..(MAX_FRAMES + WORD_BITS - 1)

\* Every variable has the shape of the C object it stands for.
TypeOK ==
  /\ used \subseteq Frames
  /\ free_frames \in Int
  /\ owned \subseteq Frames
  /\ pc \in {"idle", "scan", "alloc_store", "alloc_count", "free_count", "free_store"}
  /\ frame \in ScanRange
  /\ word \subseteq Frames
  /\ count \in Int
  /\ interrupted \in BOOLEAN

\* A frame that is in use is marked used, whatever the timer freed while a
\* word of the bitmap was in a register: so no frame is handed out twice.
OwnedAreUsed == owned \subseteq used

\* The frame an allocation is about to return belongs to nobody and is not
\* frame 0, part of the kernel or the boot information.
FreshFrame ==
  pc \in {"alloc_store", "alloc_count"} => frame \in Available \ (owned \cup Reserved)

\* As long as frames are reaped between the shell's calls and never inside one,
\* free_frames is the number of clear bits, plus one if the memory map made
\* frame 0 available (pmm_init takes that frame back without counting it), and
\* every available frame is free or in somebody's hands.  A reap inside a call
\* may be undone by the word that call stores, and the frame is lost.
BooksExact ==
  pc = "idle" /\ ~interrupted =>
    /\ free_frames = Cardinality(Frames \ used) + Cardinality(Available \cap {0})
    /\ Available \cap used \subseteq owned \cup Reserved
=============================================================================
