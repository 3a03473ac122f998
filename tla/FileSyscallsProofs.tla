------------------------- MODULE FileSyscallsProofs ------------------------
(***************************************************************************)
(* Reading through a descriptor yields the file, for any number of         *)
(* processes, descriptors, files and lengths.                              *)
(*                                                                         *)
(* The inductive invariant adds to the property that the descriptors of a  *)
(* live process name registered files and point into them, which holds     *)
(* because ramfs never removes a file and process_create clears the PCB.   *)
(***************************************************************************)
EXTENDS FileSyscalls, SequenceTheorems, WellFoundedInduction, TLAPS

\* Time for the leaves that unfold the larger actions.
USE SMTT(30), ZenonT(30)

\* A non-empty set of naturals has a least element.
LEMMA LeastNatural ==
  ASSUME NEW T \in SUBSET Nat, T # {}
  PROVE  \E n \in T : \A m \in T : n <= m
<1>1. \E n \in T : \A m \in T : ~(<<m, n>> \in OpToRel(<, Nat))
  BY NatLessThanWellFounded, WFMin, Zenon
<1>2. PICK n \in T : \A m \in T : ~(<<m, n>> \in OpToRel(<, Nat))
  BY <1>1, Zenon
<1>3. ASSUME NEW m \in T PROVE n <= m
  <2>1. ~(m < n)
    BY <1>2, Zenon DEF OpToRel
  <2>2. QED BY <2>1
<1>4. QED BY <1>3

Bytes == 0..255
Entries == [in_use : BOOLEAN, file_idx : Int, offset : Nat]

TypeOK ==
  /\ files \in [Slots -> Names \cup {Unused}]
  /\ alive \subseteq Pcbs
  /\ fds \in [Pcbs -> [Fds -> Entries]]
  /\ received \in [Pcbs -> [Fds -> Seq(Bytes)]]

\* Descriptor entry e, through which r has been read, refers to a file of table f.
Consistent(e, r, f) ==
  e.in_use =>
    /\ e.file_idx \in Slots /\ f[e.file_idx] \in Names
    /\ e.offset <= Len(Content(f[e.file_idx]))
    /\ r = SubSeq(Content(f[e.file_idx]), 1, e.offset)

AllConsistent ==
  \A p \in alive : \A fd \in Fds : Consistent(fds[p][fd], received[p][fd], files)

IInv == TypeOK /\ AllConsistent

----------------------------------------------------------------------------

\* The least element of a non-empty set of naturals is one of its members.
LEMMA MinMember ==
  ASSUME NEW S \in SUBSET Nat, S # {}
  PROVE  Min(S) \in S
BY LeastNatural, Zenon DEF Min

\* Two reads in a row are one longer read.
LEMMA ReadOn ==
  ASSUME NEW S, NEW s \in Seq(S), NEW k \in 0..Len(s), NEW n \in 0..(Len(s) - k)
  PROVE  SubSeq(s, 1, k) \o SubSeq(s, k + 1, k + n) = SubSeq(s, 1, k + n)
<1> DEFINE l == SubSeq(s, 1, k) \o SubSeq(s, k + 1, k + n)
           r == SubSeq(s, 1, k + n)
<1>1. /\ SubSeq(s, 1, k) \in Seq(S) /\ Len(SubSeq(s, 1, k)) = k
      /\ \A i \in 1..k : SubSeq(s, 1, k)[i] = s[i]
  OBVIOUS
<1>2. /\ SubSeq(s, k + 1, k + n) \in Seq(S) /\ Len(SubSeq(s, k + 1, k + n)) = n
      /\ \A i \in 1..n : SubSeq(s, k + 1, k + n)[i] = s[k + i]
  OBVIOUS
<1>3. r \in Seq(S) /\ Len(r) = k + n /\ \A i \in 1..(k + n) : r[i] = s[i]
  OBVIOUS
<1>4. l \in Seq(S) /\ Len(l) = k + n /\ \A i \in 1..(k + n) : l[i] = s[i]
  <2>1. /\ l \in Seq(S) /\ Len(l) = k + n
        /\ \A i \in 1..(k + n) : l[i] = IF i <= k THEN SubSeq(s, 1, k)[i]
                                        ELSE SubSeq(s, k + 1, k + n)[i - k]
    BY <1>1, <1>2, ConcatProperties
  <2> QED BY <1>1, <1>2, <2>1
<1> HIDE DEF l, r
<1>5. l = r
  BY <1>3, <1>4, SeqEqual
<1> QED BY <1>5 DEF l, r

\* ramfs_lookup returns -1 or the slot of the file.
LEMMA LookupFinds ==
  ASSUME NEW name \in Names, ~(Lookup(name) < 0)
  PROVE  Lookup(name) \in Slots /\ files[Lookup(name)] = name
<1> DEFINE hits == {i \in Slots : files[i] = name}
<1>1. hits # {} /\ Lookup(name) = Min(hits)
  BY DEF Lookup
<1>2. hits \in SUBSET Nat
  BY FileAssumption DEF Slots
<1>3. Min(hits) \in hits
  BY <1>1, <1>2, MinMember
<1> QED BY <1>1, <1>3

\* The invariant holds at first.
LEMMA InitIInv == Init => IInv
<1> SUFFICES ASSUME Init PROVE IInv
  OBVIOUS
<1>1. Zeroed \in Entries /\ <<>> \in Seq(Bytes)
  BY DEF Zeroed, Entries
<1>2. TypeOK
  BY <1>1 DEF Init, TypeOK
<1> QED BY <1>2 DEF IInv, AllConsistent, Init

\* Registering a file leaves every registered one in its slot.
LEMMA RegisterIInv ==
  ASSUME IInv, NEW name \in Names, Register(name)
  PROVE  IInv'
<1>1. PICK i \in Slots : files[i] = Unused /\ files' = [files EXCEPT ![i] = name]
  BY Zenon DEF Register
<1>2. TypeOK'
  BY <1>1 DEF IInv, TypeOK, Register
<1>3. ASSUME NEW p \in alive, NEW fd \in Fds
      PROVE  Consistent(fds[p][fd], received[p][fd], files')
  <2>1. Consistent(fds[p][fd], received[p][fd], files)
    BY DEF IInv, AllConsistent
  <2>2. \A j \in Slots : files[j] \in Names => files'[j] = files[j]
    BY <1>1, FileAssumption DEF IInv, TypeOK
  <2> QED BY <2>1, <2>2 DEF Consistent
<1> QED BY <1>2, <1>3, Zenon DEF IInv, AllConsistent, Register

\* A new process has no descriptor in use.
LEMMA CreateIInv ==
  ASSUME IInv, NEW p \in Pcbs, Create(p)
  PROVE  IInv'
<1>1. Zeroed \in Entries /\ <<>> \in Seq(Bytes) /\ ~Zeroed.in_use
  BY DEF Zeroed, Entries
<1>2. TypeOK'
  BY <1>1 DEF IInv, TypeOK, Create
<1>3. ASSUME NEW q \in alive', NEW fd \in Fds
      PROVE  Consistent(fds'[q][fd], received'[q][fd], files)
  <2>1. CASE q = p
    <3>1. fds'[q][fd] = Zeroed
      BY <2>1 DEF Create, IInv, TypeOK
    <3> QED BY <1>1, <3>1 DEF Consistent
  <2>2. CASE q # p
    BY <2>2 DEF Create, IInv, TypeOK, AllConsistent
  <2> QED BY <2>1, <2>2
<1> QED BY <1>2, <1>3 DEF IInv, AllConsistent, Create

\* A system call that changes one entry of one descriptor table.
LEMMA EntryIInv ==
  ASSUME IInv, NEW p \in Pcbs, NEW fd \in Fds, NEW e \in Entries, NEW r \in Seq(Bytes),
         Consistent(e, r, files),
         fds' = [fds EXCEPT ![p][fd] = e],
         received' = [received EXCEPT ![p][fd] = r],
         UNCHANGED <<files, alive>>
  PROVE  IInv'
<1>1. TypeOK'
  BY DEF IInv, TypeOK
<1>2. ASSUME NEW q \in alive, NEW g \in Fds
      PROVE  Consistent(fds'[q][g], received'[q][g], files)
  <2>1. Consistent(fds[q][g], received[q][g], files)
    BY DEF IInv, AllConsistent
  <2>2. CASE q = p /\ g = fd
    <3>1. fds'[q][g] = e /\ received'[q][g] = r
      BY <2>2 DEF IInv, TypeOK
    <3> QED BY <3>1
  <2>3. CASE ~(q = p /\ g = fd)
    <3>1. fds'[q][g] = fds[q][g] /\ received'[q][g] = received[q][g]
      BY <2>3 DEF IInv, TypeOK
    <3> QED BY <2>1, <3>1
  <2> QED BY <2>2, <2>3
<1> QED BY <1>1, <1>2 DEF IInv, AllConsistent

LEMMA FailsIInv ==
  ASSUME IInv, Fails \/ (UNCHANGED <<files, alive, fds, received>>)
  PROVE  IInv'
BY DEF IInv, TypeOK, AllConsistent, Fails

\* What sys_open does when it succeeds.
LEMMA SysOpenFacts ==
  ASSUME IInv, NEW p \in Pcbs, NEW name \in Names, SysOpen(p, name), ~Fails
  PROVE  \E fd \in Fds, idx \in Slots :
           /\ files[idx] = name /\ ~fds[p][fd].in_use
           /\ fds' = [fds EXCEPT ![p][fd] = [in_use |-> TRUE, file_idx |-> idx, offset |-> 0]]
           /\ received' = [received EXCEPT ![p][fd] = <<>>]
           /\ UNCHANGED <<files, alive>>
<1> DEFINE fd == Min(FreeFds(p))
           idx == Lookup(name)
<1>1. ~(idx < 0) /\ FreeFds(p) # {}
  BY DEF SysOpen
<1>2. idx \in Slots /\ files[idx] = name
  BY <1>1, LookupFinds
<1>3. fd \in FreeFds(p)
  <2>1. FreeFds(p) \in SUBSET Nat
    BY FileAssumption DEF FreeFds, Fds
  <2> QED BY <1>1, <2>1, MinMember
<1>4. fd \in Fds /\ ~fds[p][fd].in_use
  BY <1>3 DEF FreeFds
<1> QED BY <1>1, <1>2, <1>4 DEF SysOpen

LEMMA SysOpenIInv ==
  ASSUME IInv, NEW p \in Pcbs, NEW name \in Names, SysOpen(p, name)
  PROVE  IInv'
<1>1. CASE Fails
  BY <1>1, FailsIInv
<1>2. CASE ~Fails
  <2>1. PICK fd \in Fds, idx \in Slots :
           /\ files[idx] = name /\ ~fds[p][fd].in_use
           /\ fds' = [fds EXCEPT ![p][fd] = [in_use |-> TRUE, file_idx |-> idx, offset |-> 0]]
           /\ received' = [received EXCEPT ![p][fd] = <<>>]
           /\ UNCHANGED <<files, alive>>
    BY <1>2, SysOpenFacts
  <2> DEFINE e == [in_use |-> TRUE, file_idx |-> idx, offset |-> 0]
  <2>2. e \in Entries /\ e.in_use /\ e.file_idx = idx /\ e.offset = 0
    BY FileAssumption DEF Entries, Slots
  <2>3. Content(name) \in Seq(Bytes)
    BY FileAssumption DEF Bytes
  <2>4. SubSeq(Content(name), 1, 0) = <<>> /\ 0 <= Len(Content(name))
    BY <2>3
  <2>5. Consistent(e, <<>>, files)
    BY <2>1, <2>2, <2>4 DEF Consistent
  <2> HIDE DEF e
  <2>6. <<>> \in Seq(Bytes)
    OBVIOUS
  <2> QED BY <2>1, <2>2, <2>5, <2>6, EntryIInv, Zenon DEF e
<1> QED BY <1>1, <1>2

\* What sys_read does when it succeeds: the entry moves on by what was copied.
LEMMA SysReadFacts ==
  ASSUME IInv, NEW p \in Pcbs, NEW fd, NEW len \in Lens, SysRead(p, fd, len), ~Fails
  PROVE  \E n \in Nat :
           /\ fd \in Fds /\ p \in alive /\ fds[p][fd].in_use
           /\ fds[p][fd].offset + n <= Len(Content(files[fds[p][fd].file_idx]))
           /\ fds' = [fds EXCEPT ![p][fd] = [fds[p][fd] EXCEPT !.offset = fds[p][fd].offset + n]]
           /\ received' = [received EXCEPT ![p][fd] =
                received[p][fd] \o SubSeq(Content(files[fds[p][fd].file_idx]),
                                          fds[p][fd].offset + 1, fds[p][fd].offset + n)]
           /\ UNCHANGED <<files, alive>>
<1> DEFINE e == fds[p][fd]
           data == Content(files[e.file_idx])
           n == Min2(len, Len(data) - e.offset)
<1>1. /\ p \in alive /\ fd \in Fds /\ e.in_use
      /\ ReadBytes(p, fd, data, n) /\ UNCHANGED <<files, alive>>
  BY DEF SysRead, Open
<1>2. Consistent(e, received[p][fd], files) /\ e \in Entries
  BY <1>1 DEF IInv, AllConsistent, TypeOK
<1>3. data \in Seq(Bytes) /\ e.offset \in Nat /\ e.offset <= Len(data)
  BY <1>1, <1>2, FileAssumption DEF Consistent, Entries, Bytes
<1>4. n \in Nat /\ e.offset + n <= Len(data)
  <2>1. len \in Nat /\ Len(data) \in Nat
    BY <1>3, FileAssumption
  <2> HIDE DEF e, data
  <2> QED BY <1>3, <2>1 DEF Min2
<1> HIDE DEF n
<1>5. fds' = [fds EXCEPT ![p][fd] = [e EXCEPT !.offset = e.offset + n]]
  BY <1>1 DEF ReadBytes
<1>6. received' = [received EXCEPT ![p][fd] =
                     received[p][fd] \o SubSeq(data, e.offset + 1, e.offset + n)]
  BY <1>1 DEF ReadBytes
<1> QED BY <1>1, <1>4, <1>5, <1>6, Zenon

LEMMA SysReadIInv ==
  ASSUME IInv, NEW p \in Pcbs, NEW fd, NEW len \in Lens, SysRead(p, fd, len)
  PROVE  IInv'
<1>1. CASE Fails
  BY <1>1, FailsIInv
<1>2. CASE ~Fails
  <2> DEFINE e == fds[p][fd]
             data == Content(files[e.file_idx])
  <2>1. PICK n \in Nat :
           /\ fd \in Fds /\ p \in alive /\ e.in_use
           /\ e.offset + n <= Len(data)
           /\ fds' = [fds EXCEPT ![p][fd] = [e EXCEPT !.offset = e.offset + n]]
           /\ received' = [received EXCEPT ![p][fd] =
                             received[p][fd] \o SubSeq(data, e.offset + 1, e.offset + n)]
           /\ UNCHANGED <<files, alive>>
    BY <1>2, SysReadFacts, Zenon
  <2> DEFINE m == [e EXCEPT !.offset = e.offset + n]
             r == received[p][fd] \o SubSeq(data, e.offset + 1, e.offset + n)
  <2>2. Consistent(e, received[p][fd], files) /\ e \in Entries
    BY <2>1 DEF IInv, AllConsistent, TypeOK
  <2>3. data \in Seq(Bytes) /\ e.offset \in Nat /\ received[p][fd] = SubSeq(data, 1, e.offset)
    BY <2>1, <2>2, FileAssumption DEF Consistent, Entries, Bytes
  <2>0. e.in_use /\ e.offset + n <= Len(data)
    BY <2>1
  <2> HIDE DEF e, data
  <2>4. /\ m \in Entries /\ m.in_use /\ m.file_idx = e.file_idx
        /\ m.offset = e.offset + n
    <3>1. e.offset + n \in Nat
      BY <2>3
    <3> QED BY <2>0, <2>2, <3>1 DEF Entries
  <2>5. r = SubSeq(data, 1, e.offset + n) /\ r \in Seq(Bytes)
    <3>1. e.offset \in 0..Len(data) /\ n \in 0..(Len(data) - e.offset)
      <4>1. Len(data) \in Nat
        BY <2>3
      <4> QED BY <2>0, <2>3, <4>1
    <3>2. r = SubSeq(data, 1, e.offset + n)
      BY <2>3, <3>1, ReadOn, Zenon
    <3>3. SubSeq(data, 1, e.offset + n) \in Seq(Bytes)
      BY <2>3, <3>1
    <3> QED BY <3>2, <3>3, Zenon
  <2>6. Consistent(m, r, files)
    <3>1. e.file_idx \in Slots /\ files[e.file_idx] \in Names
      BY <2>0, <2>2 DEF Consistent
    <3> HIDE DEF m, r
    <3> QED BY <2>0, <2>4, <2>5, <3>1 DEF Consistent, data
  <2> HIDE DEF m, r
  <2>7. fds' = [fds EXCEPT ![p][fd] = m] /\ received' = [received EXCEPT ![p][fd] = r]
    BY <2>1 DEF m, r
  <2>8. fd \in Fds /\ UNCHANGED <<files, alive>>
    BY <2>1
  <2> QED BY <2>4, <2>5, <2>6, <2>7, <2>8, EntryIInv, Zenon
<1> QED BY <1>1, <1>2

LEMMA SysCloseIInv ==
  ASSUME IInv, NEW p \in Pcbs, NEW fd, SysClose(p, fd)
  PROVE  IInv'
<1>1. CASE ~Open(p, fd)
  BY <1>1, FailsIInv DEF SysClose
<1>2. CASE Open(p, fd)
  <2>1. /\ fd \in Fds /\ fds' = [fds EXCEPT ![p][fd] = Closed]
        /\ received' = [received EXCEPT ![p][fd] = <<>>] /\ UNCHANGED <<files, alive>>
    BY <1>2 DEF SysClose, Open
  <2>2. Closed \in Entries /\ ~Closed.in_use /\ <<>> \in Seq(Bytes)
    BY DEF Closed, Entries
  <2>3. Consistent(Closed, <<>>, files)
    BY <2>2 DEF Consistent
  <2> QED BY <2>1, <2>2, <2>3, EntryIInv, Zenon
<1> QED BY <1>1, <1>2

----------------------------------------------------------------------------

\* Every step keeps the invariant.
LEMMA NextIInv == IInv /\ [Next]_vars => IInv'
<1> SUFFICES ASSUME IInv, [Next]_vars PROVE IInv'
  OBVIOUS
<1>1. CASE \E name \in Names : Register(name)
  BY <1>1, RegisterIInv
<1>2. ASSUME NEW p \in Pcbs, Create(p) \/ ExitAndFree(p) PROVE IInv'
  <2>1. CASE Create(p)
    BY <2>1, CreateIInv
  <2>2. CASE ExitAndFree(p)
    BY <2>2 DEF ExitAndFree, IInv, TypeOK, AllConsistent
  <2> QED BY <1>2, <2>1, <2>2
<1>3. ASSUME NEW p \in Pcbs, Call(p) PROVE IInv'
  <2>1. CASE SysUnknown(p)
    BY <2>1, FailsIInv DEF SysUnknown
  <2>2. CASE \E name \in Names : SysOpen(p, name)
    BY <2>2, SysOpenIInv
  <2>3. CASE \E fd \in FdArgs : SysClose(p, fd)
    BY <2>3, SysCloseIInv
  <2>4. ASSUME NEW fd \in FdArgs, NEW len \in Lens, SysRead(p, fd, len) \/ SysWrite(p, fd, len)
        PROVE  IInv'
    BY <2>4, SysReadIInv, FailsIInv DEF SysWrite
  <2> QED BY <1>3, <2>1, <2>2, <2>3, <2>4 DEF Call
<1>4. CASE UNCHANGED vars
  BY <1>4, FailsIInv DEF vars
<1> QED BY <1>1, <1>2, <1>3, <1>4 DEF Next

\* Descriptors of live processes always refer to registered files.
LEMMA Invariance == Spec => []IInv
BY InitIInv, NextIInv, PTL DEF Spec

\* Whatever was read through a descriptor is the beginning of its file.
THEOREM ReadsExact == Spec => []ReadsAreTheFile
<1>1. IInv => ReadsAreTheFile
  BY DEF IInv, AllConsistent, Consistent, ReadsAreTheFile
<1> QED BY <1>1, Invariance, PTL

\* A new process never inherits a descriptor from the PCB's last owner.
THEOREM NothingInherited == Spec => StartsWithoutFiles
<1> DEFINE Fresh == \A p \in alive' \ alive : \A fd \in Fds : ~fds'[p][fd].in_use
<1>1. IInv /\ [Next]_vars => [Fresh]_vars
  <2> SUFFICES ASSUME IInv, Next, NEW p \in alive' \ alive, NEW fd \in Fds
               PROVE  ~fds'[p][fd].in_use
    OBVIOUS
  <2>1. p \in Pcbs /\ Create(p)
    BY DEF Next, Register, Create, ExitAndFree, Call, SysUnknown, SysOpen, SysClose, SysRead,
           SysWrite, Fails
  <2>2. fds'[p][fd] = Zeroed
    BY <2>1 DEF Create, IInv, TypeOK
  <2> QED BY <2>2 DEF Zeroed
<1> QED BY <1>1, Invariance, PTL DEF Spec, StartsWithoutFiles

\* While a descriptor is open it stays on its file and only moves forward.
THEOREM DescriptorsKept == Spec => DescriptorsStable
<1> DEFINE Kept(e, d) == e.in_use /\ d.in_use =>
                           /\ files'[d.file_idx] = files[e.file_idx]
                           /\ d.offset >= e.offset
           Stable == \A p \in alive \cap alive' : \A fd \in Fds :
             fds[p][fd].in_use /\ fds'[p][fd].in_use =>
               /\ files'[fds'[p][fd].file_idx] = files[fds[p][fd].file_idx]
               /\ fds'[p][fd].offset >= fds[p][fd].offset
<1>1. IInv /\ [Next]_vars => [Stable]_vars
  <2> SUFFICES ASSUME IInv, Next, NEW p \in alive, NEW g \in Fds
               PROVE  Kept(fds[p][g], fds'[p][g])
    OBVIOUS
  <2>0. p \in Pcbs /\ fds[p][g] \in Entries /\ fds[p][g].offset \in Nat
    BY DEF IInv, TypeOK, Entries
  <2>1. ASSUME fds'[p][g] = fds[p][g], UNCHANGED files PROVE Kept(fds[p][g], fds'[p][g])
    BY <2>0, <2>1
  <2>2. ASSUME NEW name \in Names, Register(name) PROVE Kept(fds[p][g], fds'[p][g])
    <3>1. PICK i \in Slots : files[i] = Unused /\ files' = [files EXCEPT ![i] = name]
      BY <2>2, Zenon DEF Register
    <3>2. fds' = fds
      BY <2>2 DEF Register
    <3>3. fds[p][g].in_use =>
            /\ fds[p][g].file_idx \in Slots /\ files[fds[p][g].file_idx] \in Names
      BY DEF IInv, AllConsistent, Consistent
    <3>4. fds[p][g].in_use => files'[fds[p][g].file_idx] = files[fds[p][g].file_idx]
      BY <3>1, <3>3, FileAssumption DEF IInv, TypeOK
    <3> QED BY <2>0, <3>2, <3>4
  <2>3. ASSUME NEW q \in Pcbs, Create(q) \/ ExitAndFree(q)
        PROVE  Kept(fds[p][g], fds'[p][g])
    <3>1. fds'[p][g] = fds[p][g] /\ UNCHANGED files
      BY <2>0, <2>3, Zenon DEF Create, ExitAndFree, IInv, TypeOK
    <3> QED BY <2>1, <3>1
  <2>4. ASSUME NEW q \in Pcbs, Call(q)
        PROVE  Kept(fds[p][g], fds'[p][g])
    <3>1. CASE UNCHANGED <<files, fds>>
      BY <2>1, <3>1
    <3>2. ASSUME NEW name \in Names, SysOpen(q, name), ~Fails
          PROVE  Kept(fds[p][g], fds'[p][g])
      <4>1. PICK fd \in Fds, idx \in Slots :
               /\ files[idx] = name /\ ~fds[q][fd].in_use
               /\ fds' = [fds EXCEPT ![q][fd] = [in_use |-> TRUE, file_idx |-> idx, offset |-> 0]]
               /\ received' = [received EXCEPT ![q][fd] = <<>>]
               /\ UNCHANGED <<files, alive>>
        BY <3>2, SysOpenFacts
      <4>2. CASE p = q /\ g = fd
        BY <4>1, <4>2
      <4>3. CASE ~(p = q /\ g = fd)
        <5>1. fds'[p][g] = fds[p][g]
          BY <2>0, <4>1, <4>3 DEF IInv, TypeOK
        <5> QED BY <2>1, <4>1, <5>1
      <4> QED BY <4>2, <4>3
    <3>3. ASSUME NEW fd, NEW len \in Lens, SysRead(q, fd, len), ~Fails
          PROVE  Kept(fds[p][g], fds'[p][g])
      <4>1. PICK n \in Nat :
               /\ fd \in Fds
               /\ fds' = [fds EXCEPT ![q][fd] = [fds[q][fd] EXCEPT !.offset = fds[q][fd].offset + n]]
               /\ UNCHANGED <<files, alive>>
        <5>1. \E n \in Nat :
               /\ fd \in Fds /\ q \in alive /\ fds[q][fd].in_use
               /\ fds[q][fd].offset + n <= Len(Content(files[fds[q][fd].file_idx]))
               /\ fds' = [fds EXCEPT ![q][fd] = [fds[q][fd] EXCEPT !.offset = fds[q][fd].offset + n]]
               /\ received' = [received EXCEPT ![q][fd] =
                    received[q][fd] \o SubSeq(Content(files[fds[q][fd].file_idx]),
                                              fds[q][fd].offset + 1, fds[q][fd].offset + n)]
               /\ UNCHANGED <<files, alive>>
          BY <3>3, SysReadFacts, Zenon
        <5> QED BY <5>1, Zenon
      <4>2. CASE p = q /\ g = fd
        <5>1. fds'[p][g] = [fds[p][g] EXCEPT !.offset = fds[p][g].offset + n]
          BY <2>0, <4>1, <4>2, Zenon DEF IInv, TypeOK
        <5>2. /\ fds'[p][g].file_idx = fds[p][g].file_idx
              /\ fds'[p][g].offset = fds[p][g].offset + n
          BY <2>0, <5>1 DEF Entries
        <5> QED BY <2>0, <4>1, <5>2
      <4>3. CASE ~(p = q /\ g = fd)
        <5>1. fds'[p][g] = fds[p][g]
          BY <2>0, <4>1, <4>3 DEF IInv, TypeOK
        <5> QED BY <2>1, <4>1, <5>1
      <4> QED BY <4>2, <4>3
    <3>4. ASSUME NEW fd, SysClose(q, fd), ~Fails
          PROVE  Kept(fds[p][g], fds'[p][g])
      <4>1. /\ fd \in Fds /\ fds' = [fds EXCEPT ![q][fd] = Closed] /\ UNCHANGED files
        BY <3>4 DEF SysClose, Open
      <4>2. CASE p = q /\ g = fd
        <5>1. fds'[p][g] = Closed
          BY <2>0, <4>1, <4>2 DEF IInv, TypeOK
        <5> QED BY <5>1 DEF Closed
      <4>3. CASE ~(p = q /\ g = fd)
        <5>1. fds'[p][g] = fds[p][g]
          BY <2>0, <4>1, <4>3 DEF IInv, TypeOK
        <5> QED BY <2>1, <4>1, <5>1
      <4> QED BY <4>2, <4>3
    <3>5. CASE Fails \/ SysUnknown(q) \/ (\E fd \in FdArgs, len \in Lens : SysWrite(q, fd, len))
      BY <3>1, <3>5 DEF Fails, SysUnknown, SysWrite
    <3> QED BY <2>4, <3>2, <3>3, <3>4, <3>5 DEF Call
  <2> QED BY <2>2, <2>3, <2>4 DEF Next
<1> QED BY <1>1, Invariance, PTL DEF Spec, DescriptorsStable
=============================================================================
