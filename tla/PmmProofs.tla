----------------------------- MODULE PmmProofs -----------------------------
(***************************************************************************)
(* No frame is handed out twice, and no reserved frame at all, for every    *)
(* size of the bitmap, memory map and interleaving with the reaper.        *)
(***************************************************************************)
EXTENDS Pmm, FiniteSetTheorems, TLAPS

\* The frames that are never handed out.
Fixed == (Frames \ Available) \cup Reserved

Storing == pc \in {"alloc_store", "free_count", "free_store"}

\* The word in the register still covers every frame that is in use, because
\* only the timer changes the bitmap meanwhile and it only clears bits of
\* frames it takes out of `owned'.
RegisterCovers ==
  Storing => /\ frame \in Frames \ (owned \cup Fixed)
             /\ (owned \cup Fixed) \cap Word(frame) \subseteq word
             /\ pc = "alloc_store" => frame \in word

IInv ==
  /\ TypeOK
  /\ OwnedAreUsed
  /\ Fixed \subseteq used
  /\ owned \cap Fixed = {}
  /\ RegisterCovers
  /\ pc = "alloc_count" => frame \in (Frames \cap used) \ (owned \cup Fixed)

\* Reserved frames are frames of the bitmap.
LEMMA ReservedFrames == Reserved \subseteq Frames /\ Fixed \subseteq Frames
BY PmmAssumption DEF Reserved, Frames, Fixed

\* One step of the scan from a frame of the bitmap stays in its range.
LEMMA ScanStays ==
  /\ 0 \in ScanRange
  /\ Frames \subseteq ScanRange
  /\ \A f \in ScanRange : f < MAX_FRAMES => f \in Frames
  /\ \A f \in Frames : SkipTo(f) \in ScanRange
BY PmmAssumption DEF ScanRange, Frames, SkipTo

\* Storing the word loses no frame that is in use.
LEMMA StoreKeeps ==
  ASSUME IInv, Storing, StoreWord
  PROVE  owned \cup Fixed \subseteq used' /\ used' \subseteq Frames
BY DEF IInv, RegisterCovers, StoreWord, OwnedAreUsed, TypeOK

\* The invariant holds after pmm_init.
LEMMA InitIInv == Init => IInv
<1> SUFFICES ASSUME Init PROVE IInv
  OBVIOUS
<1>1. free_frames \in Int
  <2>1. IsFiniteSet(Frames)
    BY FS_Interval, PmmAssumption DEF Frames
  <2>2. IsFiniteSet(Available) /\ IsFiniteSet(Available \cap (Reserved \ {0}))
    BY <2>1, FS_Subset, PmmAssumption
  <2>3. Cardinality(Available) \in Nat /\ Cardinality(Available \cap (Reserved \ {0})) \in Nat
    BY <2>2, FS_CardinalityType
  <2>4. QED BY <2>3 DEF Init
<1>2. TypeOK
  <2>1. interrupted \in BOOLEAN
    BY Zenon DEF Init
  <2>2. QED BY <1>1, <2>1, ReservedFrames, ScanStays DEF Init, TypeOK, Fixed
<1>3. QED BY <1>2 DEF Init, IInv, OwnedAreUsed, Fixed, RegisterCovers, Storing

\* Every step of the shell and of the reaper preserves the invariant.
LEMMA NextIInv == IInv /\ [Next]_vars => IInv'
<1> SUFFICES ASSUME IInv, [Next]_vars PROVE IInv'
  OBVIOUS
<1> USE DEF IInv
<1>0. interrupted' \in BOOLEAN
  BY DEF TypeOK, Next, Reap, vars
<1>1. CASE AllocFails \/ UNCHANGED vars
  BY <1>0, <1>1 DEF AllocFails, vars, local, TypeOK, OwnedAreUsed, RegisterCovers, Storing
<1>2. CASE AllocBegin
  BY <1>0, <1>2, ScanStays DEF AllocBegin, TypeOK, OwnedAreUsed, RegisterCovers, Storing
<1>3. CASE AllocScan
  <2>1. CASE pc' = "alloc_store"
    <3>1. frame' = frame /\ frame < MAX_FRAMES /\ frame \notin used
          /\ word' = (used \cap Word(frame)) \cup {frame}
          /\ count' = count /\ UNCHANGED <<used, free_frames, owned>>
      BY <1>3, <2>1, ScanStays, PmmAssumption DEF ScanEnds, AllocScan, TypeOK, ScanRange
    <3>2. frame \in Frames
      BY <3>1, ScanStays DEF TypeOK
    <3>3. QED BY <1>0, <2>1, <3>1, <3>2 DEF TypeOK, OwnedAreUsed, RegisterCovers, Storing
  <2>2. CASE pc' # "alloc_store"
    <3>1. pc' \in {"idle", "scan"} /\ word' = word
          /\ count' \in Int /\ UNCHANGED <<used, free_frames, owned>>
      BY <1>3, <2>2 DEF AllocScan, TypeOK
    <3>2. frame' \in ScanRange
      <4>1. CASE ScanEnds
        BY <1>3, <4>1, ScanStays DEF AllocScan
      <4>2. CASE ~ScanEnds
        <5>1. frame \in Frames
          BY <4>2, ScanStays, PmmAssumption DEF ScanEnds, TypeOK, ScanRange
        <5>2. frame' = SkipTo(frame)
          BY <1>3, <2>2, <4>2 DEF AllocScan
        <5>3. QED BY <5>1, <5>2, ScanStays
      <4>3. QED BY <4>1, <4>2
    <3>3. QED BY <1>0, <3>1, <3>2 DEF TypeOK, OwnedAreUsed, RegisterCovers, Storing
  <2>3. QED BY <2>1, <2>2
<1>4. CASE AllocStore
  <2>1. owned \cup Fixed \subseteq used' /\ used' \subseteq Frames /\ frame \in used'
    BY <1>4, StoreKeeps DEF AllocStore, Storing, StoreWord, RegisterCovers
  <2>2. QED BY <1>0, <1>4, <2>1 DEF AllocStore, TypeOK, OwnedAreUsed, RegisterCovers, Storing
<1>5. CASE AllocReturn
  BY <1>0, <1>5, ScanStays DEF AllocReturn, TypeOK, OwnedAreUsed, RegisterCovers, Storing
<1>6. CASE \E f \in owned : FreeBegin(f)
  <2>1. PICK f \in owned : FreeBegin(f)
    BY <1>6
  <2>2. f \in Frames
    BY DEF TypeOK
  <2>3. owned' = owned \ {f} /\ UNCHANGED <<used, free_frames, count>>
        /\ frame' = f /\ word' = (used \cap Word(f)) \ {f} /\ pc' = "free_count"
    BY <2>1 DEF FreeBegin, OwnedAreUsed
  <2>4. frame' \in ScanRange /\ frame' \in Frames
    BY <2>2, <2>3, ScanStays
  <2>5. RegisterCovers'
    <3>1. f \notin Fixed
      OBVIOUS
    <3>2. (owned' \cup Fixed) \cap Word(f) \subseteq word'
      BY <2>3, <3>1 DEF OwnedAreUsed
    <3>3. QED BY <2>3, <2>4, <3>1, <3>2 DEF RegisterCovers, Storing
  <2>6. QED BY <1>0, <2>3, <2>4, <2>5 DEF TypeOK, OwnedAreUsed
<1>7. CASE FreeCount
  BY <1>0, <1>7 DEF FreeCount, TypeOK, OwnedAreUsed, RegisterCovers, Storing
<1>8. CASE FreeStore
  <2>1. owned \cup Fixed \subseteq used' /\ used' \subseteq Frames
    BY <1>8, StoreKeeps DEF FreeStore, Storing
  <2>2. QED BY <1>0, <1>8, <2>1, ScanStays DEF FreeStore, TypeOK, OwnedAreUsed, RegisterCovers, Storing
<1>9. CASE \E S \in SUBSET owned : Reap(S)
  <2>1. PICK S \in SUBSET owned : Reap(S)
    BY <1>9
  <2>2. Cardinality(S \cap used) \in Nat
    <3>1. IsFiniteSet(Frames)
      BY FS_Interval, PmmAssumption DEF Frames
    <3>2. IsFiniteSet(S \cap used)
      BY <3>1, FS_Subset DEF TypeOK
    <3>3. QED BY <3>2, FS_CardinalityType
  <2>3. QED BY <1>0, <2>1, <2>2 DEF Reap, local, TypeOK, OwnedAreUsed, RegisterCovers, Storing
<1>10. QED BY <1>1, <1>2, <1>3, <1>4, <1>5, <1>6, <1>7, <1>8, <1>9 DEF Next, ShellStep

\* The inductive invariant holds in every reachable state.
THEOREM Invariance == Spec => []IInv
BY InitIInv, NextIInv, PTL DEF Spec

\* Every variable keeps its type.
THEOREM TypeCorrect == Spec => []TypeOK
BY Invariance, PTL DEF IInv

\* A frame in use is never marked free, so it cannot be handed out again.
THEOREM NoDoubleAllocation == Spec => []OwnedAreUsed
BY Invariance, PTL DEF IInv

----------------------------------------------------------------------------
(* The books *)

InFlight == IF pc \in {"alloc_count", "free_count", "free_store"} THEN {frame} ELSE {}
Uncounted == Cardinality(Available \cap {0})

\* What free_frames, the register and the bitmap say to each other in the middle
\* of a call nobody interrupts.
Books ==
  /\ free_frames = Cardinality(Frames \ used) + Uncounted
                   + (IF pc \in {"alloc_count", "free_store"} THEN 1 ELSE 0)
  /\ pc \in {"scan", "alloc_store", "alloc_count"} => count = free_frames
  /\ pc = "alloc_store" => word = (used \cap Word(frame)) \cup {frame} /\ frame \notin used
  /\ pc \in {"free_count", "free_store"} =>
       word = (used \cap Word(frame)) \ {frame} /\ frame \in used
  /\ Available \cap used \subseteq owned \cup Reserved \cup InFlight

\* Sets of frames are finite.
LEMMA FrameSets ==
  ASSUME NEW S, S \subseteq Frames
  PROVE  IsFiniteSet(S) /\ Cardinality(S) \in Nat
<1>1. IsFiniteSet(Frames)
  BY FS_Interval, PmmAssumption DEF Frames
<1>2. IsFiniteSet(S)
  BY <1>1, FS_Subset
<1>3. QED BY <1>2, FS_CardinalityType

\* pmm_init counts every clear bit, and frame 0 if it is available.
LEMMA InitBooks == Init => Books
<1> SUFFICES ASSUME Init PROVE Books
  OBVIOUS
<1> DEFINE A == Available
           R == Reserved
           P == A \cap (R \ {0})
           Z == A \cap {0}
<1>1. /\ A \subseteq Frames /\ Frames \ used = A \ R
      /\ A \cap R = P \cup Z /\ P \cap Z = {}
  <2>1. 0 \in R
    BY PmmAssumption DEF Reserved, Frames
  <2>2. A \subseteq Frames
    BY PmmAssumption
  <2>3. Frames \ used = A \ R
    BY <2>2 DEF Init
  <2> HIDE DEF A, R
  <2>4. A \cap R = P \cup Z /\ P \cap Z = {}
    BY <2>1
  <2>5. QED BY <2>2, <2>3, <2>4
<1>2. IsFiniteSet(A) /\ IsFiniteSet(P) /\ IsFiniteSet(Z)
  BY <1>1, FrameSets
<1>3. /\ Cardinality(A) \in Nat /\ Cardinality(P) \in Nat /\ Cardinality(Z) \in Nat
      /\ Cardinality({}) = 0
  BY <1>2, FS_CardinalityType, FS_EmptySet
<1>4. Cardinality(A \ R) = Cardinality(A) - Cardinality(A \cap R)
  BY <1>2, FS_Difference
<1>5. Cardinality(P \cup Z) = Cardinality(P) + Cardinality(Z) - Cardinality(P \cap Z)
  BY <1>2, FS_Union
<1>6. Cardinality(Frames \ used) + Cardinality(Z) = Cardinality(A) - Cardinality(P)
  <2> HIDE DEF A, R, P, Z
  <2>1. /\ Cardinality(Frames \ used) = Cardinality(A \ R)
        /\ Cardinality(A \cap R) = Cardinality(P \cup Z)
        /\ Cardinality(P \cap Z) = 0
    BY <1>1, <1>3, Zenon
  <2>2. QED BY <1>3, <1>4, <1>5, <2>1
<1>7. free_frames = Cardinality(Frames \ used) + Uncounted
  BY <1>3, <1>6 DEF Init, Uncounted
<1>8. Available \cap used \subseteq Reserved
  BY DEF Init
<1>9. QED BY <1>7, <1>8 DEF Init, Books, InFlight

\* A step of the shell, or a reap between its calls, keeps the books.
LEMMA NextBooks ==
  ASSUME IInv, Books, [Next]_vars, ~interrupted'
  PROVE  Books'
<1> DEFINE clear == Cardinality(Frames \ used)
<1>0. /\ IsFiniteSet(Frames \ used) /\ clear \in Nat /\ Uncounted \in Nat
      /\ free_frames \in Int
  <2>1. Available \cap {0} \subseteq Frames
    BY PmmAssumption
  <2>2. QED BY <2>1, FrameSets DEF IInv, TypeOK, Uncounted
<1> USE DEF IInv, Books
<1>1. CASE AllocFails \/ UNCHANGED vars
  BY <1>1 DEF AllocFails, vars, local, InFlight
<1>2. CASE AllocBegin
  BY <1>2 DEF AllocBegin, InFlight
<1>3. CASE AllocScan
  BY <1>3 DEF AllocScan, InFlight
<1>4. CASE AllocStore
  <2>1. frame \in Frames /\ frame \notin used /\ frame \in Word(frame)
    BY <1>4 DEF AllocStore, RegisterCovers, Storing, Word
  <2>2. used' = used \cup {frame}
    BY <1>4, <2>1 DEF AllocStore, StoreWord
  <2>3. Frames \ used' = (Frames \ used) \ {frame}
    BY <2>2
  <2>4. Cardinality(Frames \ used') = clear - 1
    <3>1. frame \in Frames \ used
      BY <2>1
    <3>2. Cardinality((Frames \ used) \ {frame}) = clear - 1
      BY <1>0, <3>1, FS_RemoveElement
    <3>3. QED BY <2>3, <3>2
  <2>5. free_frames' = Cardinality(Frames \ used') + Uncounted + 1
    BY <1>0, <1>4, <2>4 DEF AllocStore
  <2>6. Available \cap used' \subseteq owned \cup Reserved \cup {frame}
    BY <1>4, <2>2 DEF AllocStore, InFlight
  <2>7. QED BY <1>4, <2>5, <2>6 DEF AllocStore, InFlight
<1>5. CASE AllocReturn
  <2>1. free_frames' = clear + Uncounted
    BY <1>0, <1>5 DEF AllocReturn
  <2>2. QED BY <1>5, <2>1 DEF AllocReturn, InFlight
<1>6. CASE \E f \in owned : FreeBegin(f)
  <2>1. PICK f \in owned : FreeBegin(f)
    BY <1>6
  <2>2. f \in used
    BY DEF OwnedAreUsed
  <2>3. QED BY <2>1, <2>2 DEF FreeBegin, InFlight
<1>7. CASE FreeCount
  <2>1. free_frames' = clear + Uncounted + 1
    BY <1>0, <1>7 DEF FreeCount
  <2>2. QED BY <1>7, <2>1 DEF FreeCount, InFlight
<1>8. CASE FreeStore
  <2>1. frame \in Frames /\ frame \in used
    BY <1>8 DEF FreeStore, RegisterCovers, Storing
  <2>2. used' = used \ {frame}
    BY <1>8, <2>1 DEF FreeStore, StoreWord, Word
  <2>3. Frames \ used' = (Frames \ used) \cup {frame}
    BY <2>1, <2>2
  <2>4. Cardinality(Frames \ used') = clear + 1
    BY <1>0, <2>1, <2>3, FS_AddElement
  <2>5. free_frames' = Cardinality(Frames \ used') + Uncounted
    BY <1>0, <1>8, <2>4 DEF FreeStore
  <2>6. Available \cap used' \subseteq owned \cup Reserved
    BY <1>8, <2>2 DEF FreeStore, InFlight
  <2>7. QED BY <1>8, <2>5, <2>6 DEF FreeStore, InFlight
<1>9. CASE \E S \in SUBSET owned : Reap(S)
  <2>1. PICK S \in SUBSET owned : Reap(S)
    BY <1>9
  <2>2. pc = "idle" /\ pc' = "idle" /\ used' = used \ S /\ owned' = owned \ S
    BY <2>1 DEF Reap, local
  <2>3. S \subseteq used /\ S \subseteq Frames /\ S \cap used = S
    BY DEF OwnedAreUsed, TypeOK
  <2>4. Frames \ used' = (Frames \ used) \cup S /\ (Frames \ used) \cap S = {}
    BY <2>2, <2>3
  <2>5. IsFiniteSet(S) /\ Cardinality(S) \in Nat /\ Cardinality({}) = 0
    BY <2>3, FrameSets, FS_EmptySet
  <2>6. Cardinality(Frames \ used') = clear + Cardinality(S)
    <3>1. Cardinality((Frames \ used) \cup S)
            = clear + Cardinality(S) - Cardinality((Frames \ used) \cap S)
      BY <1>0, <2>5, FS_Union
    <3>2. /\ Cardinality(Frames \ used') = Cardinality((Frames \ used) \cup S)
          /\ Cardinality((Frames \ used) \cap S) = 0
      BY <2>4, <2>5, Zenon
    <3>3. QED BY <1>0, <2>5, <3>1, <3>2
  <2>7. free_frames' = Cardinality(Frames \ used') + Uncounted
    <3>1. free_frames' = free_frames + Cardinality(S)
      BY <2>1, <2>3 DEF Reap
    <3>2. QED BY <1>0, <2>2, <2>5, <2>6, <3>1
  <2>8. Available \cap used' \subseteq owned' \cup Reserved
    BY <2>2 DEF InFlight
  <2>9. QED BY <2>2, <2>7, <2>8 DEF InFlight
<1>10. QED BY <1>1, <1>2, <1>3, <1>4, <1>5, <1>6, <1>7, <1>8, <1>9 DEF Next, ShellStep

\* Without a reap inside a call, free_frames and the bitmap are exact.
THEOREM BooksKept == Spec => []BooksExact
<1> DEFINE Kept == ~interrupted => Books
<1>1. Init => Kept
  BY InitBooks
<1>2. IInv /\ Kept /\ [Next]_vars => Kept'
  <2> SUFFICES ASSUME IInv, Kept, [Next]_vars, ~interrupted' PROVE Books'
    OBVIOUS
  <2>1. ~interrupted
    BY DEF Next, Reap, vars
  <2>2. QED BY <2>1, NextBooks
<1>3. IInv /\ Kept => BooksExact
  <2> SUFFICES ASSUME Books, pc = "idle"
               PROVE  /\ free_frames = Cardinality(Frames \ used) + Uncounted
                      /\ Available \cap used \subseteq owned \cup Reserved
    BY DEF BooksExact, Uncounted
  <2>1. Cardinality(Frames \ used) \in Nat /\ Uncounted \in Nat
    BY PmmAssumption, FrameSets DEF Uncounted
  <2>2. QED BY <2>1 DEF Books, InFlight
<1>4. QED BY <1>1, <1>2, <1>3, Invariance, PTL DEF Spec

\* Every frame about to be returned is available, unreserved and unowned.
THEOREM AllocatesFreshFrames == Spec => []FreshFrame
<1>1. IInv => FreshFrame
  BY DEF IInv, FreshFrame, RegisterCovers, Storing, Fixed
<1>2. QED BY <1>1, Invariance, PTL
=============================================================================
