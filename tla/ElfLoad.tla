------------------------------ MODULE ElfLoad ------------------------------
(***************************************************************************)
(* The ELF loader, kernel/elf.c: elf32_validate, then elf32_load one page  *)
(* at a time.  Addresses wrap at WORD, as uint32_t does.  A page is a      *)
(* mapping from its offsets to bytes, and mapping a page that is already   *)
(* mapped replaces it (paging_map_into).                                   *)
(***************************************************************************)
EXTENDS Integers, Sequences, FiniteSets

CONSTANTS
  PAGE_SIZE,
  WORD,       \* 2^32
  Images,     \* records [bad, phdrs]: the header checks it fails, its segments
  Data(_)     \* the byte at an offset of the file

VARIABLES
  image, i, va, pages, result

vars == <<image, i, va, pages, result>>

Offsets == 0..(PAGE_SIZE - 1)

\* vaddr & ~0xFFF, and the end rounded up, both in WORD arithmetic.
PageOf(a) == a - (a % PAGE_SIZE)

\* Faults: the start is rounded up; the end does not wrap.
SegStart_RoundedUp(ph) == PageOf(ph.vaddr + PAGE_SIZE - 1)
SegEnd_NoWrap(ph) == PageOf(ph.vaddr + ph.memsz + PAGE_SIZE - 1)

SegStart(ph) == PageOf(ph.vaddr)
SegEnd(ph) == PageOf((ph.vaddr + ph.memsz + PAGE_SIZE - 1) % WORD)

Init ==
  /\ image \in Images
  /\ i = 1
  /\ va = 0 - 1
  /\ pages = <<>>
  /\ result = "validate"

\* elf32_validate; process_create_from_elf gives up on a bad header.
Validate ==
  /\ result = "validate"
  /\ result' = IF image.bad = {} /\ image.phdrs # <<>> THEN "loading" ELSE "rejected"
  /\ UNCHANGED <<image, i, va, pages>>

Loading == result = "loading" /\ i <= Len(image.phdrs)

SkipSegment ==
  /\ Loading /\ va < 0
  /\ ~image.phdrs[i].load \/ image.phdrs[i].memsz = 0
  /\ i' = i + 1
  /\ UNCHANGED <<image, va, pages, result>>

EnterSegment ==
  /\ Loading /\ va < 0
  /\ image.phdrs[i].load /\ image.phdrs[i].memsz > 0
  /\ va' = SegStart(image.phdrs[i])
  /\ UNCHANGED <<image, i, pages, result>>

\* A zeroed frame, with the part of the file that falls into this page.
PageContent(ph, a) ==
  LET copy_start == IF a > ph.vaddr THEN a ELSE ph.vaddr
      seg_va_end == (ph.vaddr + ph.filesz) % WORD
      page_va_end == (a + PAGE_SIZE) % WORD
      copy_end == IF page_va_end < seg_va_end THEN page_va_end ELSE seg_va_end
  IN  [o \in Offsets |->
         IF copy_start <= a + o /\ a + o < copy_end
         THEN Data(ph.offset + (a + o - ph.vaddr)) ELSE 0]

LoadPage ==
  /\ Loading /\ va >= 0 /\ va < SegEnd(image.phdrs[i])
  /\ pages' = [a \in DOMAIN pages \cup {va} |->
                 IF a = va THEN PageContent(image.phdrs[i], va) ELSE pages[a]]
  /\ va' = (va + PAGE_SIZE) % WORD
  /\ UNCHANGED <<image, i, result>>

LeaveSegment ==
  /\ Loading /\ va >= 0 /\ va >= SegEnd(image.phdrs[i])
  /\ va' = 0 - 1
  /\ i' = i + 1
  /\ UNCHANGED <<image, pages, result>>

OutOfFrames ==
  /\ Loading /\ va >= 0 /\ va < SegEnd(image.phdrs[i])
  /\ result' = "oom"
  /\ UNCHANGED <<image, i, va, pages>>

Finish ==
  /\ result = "loading" /\ i > Len(image.phdrs)
  /\ result' = "loaded"
  /\ UNCHANGED <<image, i, va, pages>>

Next == Validate \/ SkipSegment \/ EnterSegment \/ LoadPage \/ LeaveSegment
          \/ OutOfFrames \/ Finish

Spec == Init /\ [][Next]_vars /\ WF_vars(Next)

----------------------------------------------------------------------------
(* Properties *)

Segments == {s \in DOMAIN image.phdrs : image.phdrs[s].load /\ image.phdrs[s].memsz > 0}
Fits(ph) == ph.vaddr + ph.memsz + PAGE_SIZE - 1 < WORD

\* Byte a of the segment: from the file, or zero beyond filesz (.bss).
Promised(ph, a) == IF a < ph.vaddr + ph.filesz THEN Data(ph.offset + a - ph.vaddr) ELSE 0

SegmentInMemory(ph) ==
  \A a \in ph.vaddr..(ph.vaddr + ph.memsz - 1) :
    PageOf(a) \in DOMAIN pages /\ pages[PageOf(a)][a % PAGE_SIZE] = Promised(ph, a)

SharePage(g, h) == SegStart(g) < SegEnd(h) /\ SegStart(h) < SegEnd(g)

\* elf.h:71-73 for segments that do not reach the top of the address space: every
\* byte is in memory, file bytes and zero fill, however the segment lies across
\* page boundaries, unless a later segment has a page in common with it, which
\* elf32_load then gives a fresh frame.
SegmentsLoaded ==
  result = "loaded" =>
    \A s \in Segments :
      Fits(image.phdrs[s])
        /\ (\A t \in Segments : t > s => ~SharePage(image.phdrs[s], image.phdrs[t]))
      => SegmentInMemory(image.phdrs[s])

\* Loading ends, for every image: the page loop does not run away when the end
\* of a segment wraps around the address space.
LoadingEnds == <>(result \in {"loaded", "oom", "rejected"})
=============================================================================
