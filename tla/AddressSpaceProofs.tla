------------------------ MODULE AddressSpaceProofs -------------------------
(***************************************************************************)
(* A frame has one owner, every directory maps the kernel, and the pages   *)
(* above the identity window are private.                                  *)
(*                                                                         *)
(* The inductive invariant assigns to every frame in use a process and a   *)
(* role.  Page directories and tables, stacks and the loader only name     *)
(* frames that have the role their place demands, so that no two of them   *)
(* name the same frame; a write to one of them then leaves the others      *)
(* alone.                                                                  *)
(***************************************************************************)
EXTENDS AddressSpace, WellFoundedInduction, TLAPS

\* Time for the leaves that unfold page tables.
USE SMTT(30), ZenonT(30)

\* A non-empty set of naturals has a least element.
LEMMA LeastNatural ==
  ASSUME NEW T \in SUBSET Nat, T # {}
  PROVE  \E n \in T : \A m \in T : n <= m
<1>1. \E n \in T : \A m \in T : ~(<<m, n>> \in OpToRel(<, Nat))
  BY NatLessThanWellFounded, WFMin, Zenon
<1>2. PICK n \in T : \A m \in T : ~(<<m, n>> \in OpToRel(<, Nat))
  BY <1>1, Zenon
<1>3. ASSUME NEW m \in T PROVE n <= m
  <2>1. ~(m < n)
    BY <1>2, Zenon DEF OpToRel
  <2>2. QED BY <2>1
<1>4. QED BY <1>3

Phases == {"none", "lo", "hi", "check", "alloc", "map", "ready", "zombie"}
Entries == [frame : Int, user : BOOLEAN]
Tables == 0..(IDENTITY_PT_COUNT - 1)
Private == IDENTITY_PT_COUNT..(ENTRIES - 1)
Roles == {"pd", "table", "page", "stack", "loader", "lost"}

\* The pages of the images.
Pages == {v \in Nat : \E image \in Images : \E k \in DOMAIN image : v = image[k]}

TypeOK ==
  /\ used \in SUBSET Frames
  /\ mem \in [Window -> [Index -> Entries]]
  /\ phase \in [Procs -> Phases]
  /\ cr3 \in [Procs -> Nat]
  /\ stack \in [Procs -> Nat \X Nat]
  /\ todo \in [Procs -> Seq(Pages)]
  /\ frame \in Nat

\* The kernel reaches every frame at its own address: the pages of images apart,
\* the identity tables are as paging_init made them.
Identity ==
  /\ \A t \in Tables : mem[KernelPd][t].frame = IdentityPt(t)
  /\ \A t \in Tables, i \in Index :
       t * ENTRIES + i \notin Pages => mem[IdentityPt(t)][i] = Entry(t * ENTRIES + i, FALSE)

\* The shell builds one process at a time, with a frame and a page at hand when it
\* maps one.
OneBuilder ==
  /\ \A p, q \in Building : p = q
  /\ \A p \in Procs :
       /\ phase[p] = "none" => stack[p] = <<NoFrame, NoFrame>>
       /\ phase[p] = "map" => frame # NoFrame /\ todo[p] # <<>>

Has(owner, role, f, p, r) == f \in used /\ owner[f] = p /\ role[f] = r

\* What a process names.
Names(owner, role, p) ==
  /\ Has(owner, role, cr3[p], p, "pd")
  /\ \A t \in Tables : mem[cr3[p]][t].frame = IdentityPt(t)
  /\ \A i \in Private :
       Present(mem[cr3[p]][i]) => Has(owner, role, mem[cr3[p]][i].frame, p, "table")
  /\ \A i, k \in Private :
       i # k /\ Present(mem[cr3[p]][i]) /\ Present(mem[cr3[p]][k])
         => mem[cr3[p]][i].frame # mem[cr3[p]][k].frame
  /\ \A k \in {1, 2} : stack[p][k] # NoFrame => Has(owner, role, stack[p][k], p, "stack")

\* What a private table maps.
Maps(owner, role, t) ==
  \A j \in Index :
    Present(mem[t][j]) => Has(owner, role, mem[t][j].frame, owner[t], "page")

Owned(owner, role) ==
  /\ \A p \in Live : Names(owner, role, p)
  /\ \A t \in used : role[t] = "table" => Maps(owner, role, t)
  /\ frame # NoFrame => frame \in used /\ role[frame] = "loader"

Ownership ==
  \E owner \in [Frames -> Procs \cup {"nobody"}], role \in [Frames -> Roles] : Owned(owner, role)

IInv == TypeOK /\ Identity /\ OneBuilder /\ Ownership

----------------------------------------------------------------------------
(* Pages and frames. *)

\* A page number is its table and its place in it.
LEMMA DivMod ==
  ASSUME NEW E \in Nat \ {0}, NEW v \in Nat
  PROVE  /\ v \div E \in Nat /\ v % E \in 0..(E - 1)
         /\ v = (v \div E) * E + (v % E)
  OBVIOUS

\* The two parts of a directory.
LEMMA Parts ==
  /\ \A k \in Tables : k \in Index
  /\ \A k \in Private : k \in Index
  /\ \A k \in Index : k \in Tables \/ k \in Private
  BY AddressSpaceAssumption DEF Tables, Private, Index

\* A page of the window belongs to one of its tables.
LEMMA DivBound ==
  ASSUME NEW E \in Nat \ {0}, NEW n \in Nat, NEW v \in 0..(n * E - 1)
  PROVE  v \div E \in 0..(n - 1)
<1> v \in Nat
  OBVIOUS
<1>1. v \div E \in Nat /\ v % E \in 0..(E - 1) /\ v = (v \div E) * E + (v % E)
  BY DivMod, Zenon
<1>2. CASE v \div E >= n
  <2>1. (v \div E) * E >= n * E
    BY <1>1, <1>2
  <2> QED BY <2>1, <1>1
<1> QED BY <1>1, <1>2

\* The kernel's own frames lie in the window.
LEMMA KernelFrames ==
  /\ 0..IDENTITY_PT_COUNT \subseteq Window
  /\ Window \subseteq Nat
  /\ \A t \in Tables : IdentityPt(t) \in Window /\ IdentityPt(t) \in 0..IDENTITY_PT_COUNT
  /\ KernelPd \in 0..IDENTITY_PT_COUNT
<1>1. IDENTITY_PT_COUNT * ENTRIES - 1 >= IDENTITY_PT_COUNT
  <2>1. ENTRIES >= 2
    BY AddressSpaceAssumption
  <2>2. IDENTITY_PT_COUNT * ENTRIES >= IDENTITY_PT_COUNT * 2
    BY <2>1, AddressSpaceAssumption
  <2> QED BY <2>2, AddressSpaceAssumption
<1> QED BY <1>1, AddressSpaceAssumption DEF Window, Tables, IdentityPt, KernelPd

\* Images use neither the kernel's frames nor the allocator's.
LEMMA PagesElsewhere ==
  /\ \A f \in Frames : f \notin Pages
  /\ \A f \in 0..IDENTITY_PT_COUNT : f \notin Pages
  /\ \A v \in Pages : v \in Nat /\ v \div ENTRIES \in Index /\ v % ENTRIES \in Index
  /\ \A image \in Images : image \in Seq(Pages)
<1>1. \A v \in Pages : v \in Nat /\ v \div ENTRIES \in Index /\ v \notin Frames /\ v > IDENTITY_PT_COUNT
  BY ImageAssumption DEF Pages
<1>2. \A v \in Pages : v % ENTRIES \in Index
  <2> TAKE v \in Pages
  <2> ENTRIES \in Nat \ {0} /\ v \in Nat
    BY <1>1, AddressSpaceAssumption
  <2>1. v % ENTRIES \in 0..(ENTRIES - 1)
    BY DivMod
  <2> QED BY <2>1 DEF Index
<1>3. ASSUME NEW image \in Images PROVE image \in Seq(Pages)
  <2>1. image \in Seq(Nat)
    BY ImageAssumption
  <2>2. \A k \in DOMAIN image : image[k] \in Pages
    BY <2>1 DEF Pages
  <2> QED BY <2>1, <2>2
<1>4. \A f \in 0..IDENTITY_PT_COUNT : ~(f > IDENTITY_PT_COUNT)
  BY AddressSpaceAssumption
<1> QED BY <1>1, <1>2, <1>3, <1>4

\* The table of a page of the window, and its place there.
LEMMA WindowPlace ==
  ASSUME NEW v \in Window
  PROVE  /\ v \div ENTRIES \in Tables /\ v % ENTRIES \in Index
         /\ v = (v \div ENTRIES) * ENTRIES + (v % ENTRIES)
<1>1. v \in 0..(IDENTITY_PT_COUNT * ENTRIES - 1) /\ v \in Nat
  BY KernelFrames DEF Window
<1>2. ENTRIES \in Nat \ {0} /\ IDENTITY_PT_COUNT \in Nat
  BY AddressSpaceAssumption
<1>3. v \div ENTRIES \in Tables
  BY <1>1, <1>2, DivBound, Zenon DEF Tables
<1> QED BY <1>1, <1>2, <1>3, DivMod DEF Index

\* A frame outside the images is reached at its own address.
LEMMA DerefSame ==
  ASSUME TypeOK, Identity, NEW f \in Window, f \notin Pages
  PROVE  Deref(f) = f
<1> DEFINE t == f \div ENTRIES
           i == f % ENTRIES
<1>1. t \in Tables /\ i \in Index /\ f = t * ENTRIES + i
  BY WindowPlace
<1> HIDE DEF t, i
<1>2. mem[KernelPd][t].frame = IdentityPt(t) /\ mem[IdentityPt(t)][i] = Entry(f, FALSE)
  BY <1>1, Zenon DEF Identity
<1>3. Present(mem[KernelPd][t])
  <2>1. IdentityPt(t) # 0 - 1
    BY <1>1 DEF IdentityPt, Tables
  <2> QED BY <2>1, <1>2 DEF Present, NotPresent
<1> QED BY <1>2, <1>3 DEF Deref, Walk, Pde, Entry, t, i

\* So are the frames of the allocator and those of the kernel's tables.
LEMMA DerefFrame ==
  ASSUME TypeOK, Identity
  PROVE  /\ \A f \in Frames : Deref(f) = f
         /\ \A t \in Tables : Deref(IdentityPt(t)) = IdentityPt(t)
  BY DerefSame, PagesElsewhere, KernelFrames, AddressSpaceAssumption

\* pmm_alloc_frame returns a free frame, or none.
LEMMA AllocFree ==
  ASSUME TypeOK
  PROVE  Alloc = NoFrame \/ (Alloc \in Frames /\ Alloc \notin used)
<1>1. CASE Free # {}
  <2>1. Free \in SUBSET Nat
    BY AddressSpaceAssumption, KernelFrames, Zenon DEF Free
  <2>2. \E n \in Free : \A m \in Free : n <= m
    BY <1>1, <2>1, LeastNatural
  <2>3. Min(Free) \in Free
    BY <2>2 DEF Min
  <2> QED BY <2>3 DEF Alloc, Free
<1> QED BY <1>1 DEF Alloc

\* No frame of the allocator is the kernel's, or frame 0.
LEMMA FramesApart ==
  /\ Frames \subseteq Window
  /\ \A f \in Frames : f \in Nat /\ f # NoFrame /\ f # KernelPd /\ (\A t \in Tables : f # IdentityPt(t))
  BY AddressSpaceAssumption, KernelFrames DEF NoFrame, KernelPd, Tables, IdentityPt
----------------------------------------------------------------------------
(* Initially nobody owns anything. *)

LEMMA InitIInv == Init => IInv
<1> SUFFICES ASSUME Init PROVE IInv
  OBVIOUS
<1> USE DEF Init
<1>1. TypeOK
  <2>1. mem \in [Window -> [Index -> Entries]]
    <3>1. \A i \in Index : Entry(IdentityPt(i), FALSE) \in Entries
      BY DEF Entry, Entries, IdentityPt, Index
    <3>2. \A f \in Window, i \in Index : Entry((f - 1) * ENTRIES + i, FALSE) \in Entries
      BY KernelFrames, AddressSpaceAssumption DEF Entry, Entries, Index
    <3>3. NotPresent \in Entries
      BY DEF NotPresent, Entries
    <3> QED BY <3>1, <3>2, <3>3, Zenon DEF IdentityMap
  <2> QED BY <2>1 DEF TypeOK, Phases, NoFrame
<1>2. Identity
  <2> SUFFICES ASSUME NEW t \in Tables
               PROVE  /\ mem[KernelPd][t].frame = IdentityPt(t)
                      /\ \A i \in Index : mem[IdentityPt(t)][i] = Entry(t * ENTRIES + i, FALSE)
    BY Zenon DEF Identity
  <2>1. t \in Index /\ t < IDENTITY_PT_COUNT
    BY AddressSpaceAssumption DEF Tables, Index
  <2>2. KernelPd \in Window /\ IdentityPt(t) \in Window /\ IdentityPt(t) # KernelPd
    BY KernelFrames DEF IdentityPt, Tables, KernelPd
  <2>3. mem[KernelPd][t].frame = IdentityPt(t)
    BY <2>1, <2>2 DEF IdentityMap, Entry
  <2>4. \A i \in Index : mem[IdentityPt(t)][i] = Entry((IdentityPt(t) - 1) * ENTRIES + i, FALSE)
    BY <2>2, Zenon DEF IdentityMap, Tables
  <2>5. IdentityPt(t) - 1 = t
    BY DEF IdentityPt, Tables
  <2> QED BY <2>3, <2>4, <2>5, Zenon
<1>3. OneBuilder
  BY DEF OneBuilder, Building
<1>4. Ownership
  <2>1. Live = {}
    BY DEF Live
  <2> DEFINE nobody == [f \in Frames |-> "nobody"]
             nothing == [f \in Frames |-> "lost"]
  <2>2. nobody \in [Frames -> Procs \cup {"nobody"}] /\ nothing \in [Frames -> Roles]
    BY DEF Roles
  <2>3. Owned(nobody, nothing)
    BY <2>1 DEF Owned
  <2> QED BY <2>2, <2>3 DEF Ownership
<1> QED BY <1>1, <1>2, <1>3, <1>4 DEF IInv
----------------------------------------------------------------------------
(* Steps that leave memory alone. *)

\* Frames, directories and stacks stay: so do their owners.
LEMMA Unmoved ==
  ASSUME IInv, UNCHANGED <<used, mem, cr3, stack, frame>>, Live' = Live
  PROVE  Identity' /\ Ownership'
<1>1. Identity'
  BY Zenon DEF IInv, Identity
<1>2. PICK owner \in [Frames -> Procs \cup {"nobody"}], role \in [Frames -> Roles] : Owned(owner, role)
  BY DEF IInv, Ownership
<1>3. Owned(owner, role)'
  BY <1>2 DEF Owned, Names, Maps, Has
<1> QED BY <1>1, <1>3 DEF Ownership

\* A process moves on in its life.
LEMMA PhaseIInv ==
  ASSUME IInv, NEW p \in Procs, NEW ph \in Phases,
         phase[p] # "none", ph # "none", ph # "map",
         phase[p] \notin {"lo", "hi", "check", "alloc", "map"} => ph \notin {"lo", "hi", "check", "alloc", "map"},
         phase' = [phase EXCEPT ![p] = ph],
         UNCHANGED <<used, mem, cr3, stack, todo, frame>>
  PROVE  IInv'
<1> USE DEF IInv
<1>1. TypeOK'
  BY DEF TypeOK
<1>2. Live' = Live
  BY DEF Live, TypeOK
<1>3. Building' \subseteq Building
  BY DEF Building, TypeOK
<1>4. OneBuilder'
  BY <1>3 DEF OneBuilder, TypeOK
<1>5. Identity' /\ Ownership'
  BY <1>2, Unmoved
<1> QED BY <1>1, <1>4, <1>5

\* The frames process_free gives back are frames in use that p owns.
LEMMA HeldOwn ==
  ASSUME TypeOK, Identity,
         NEW owner, owner \in [Frames -> Procs \cup {"nobody"}],
         NEW role, role \in [Frames -> Roles], Owned(owner, role),
         NEW p \in Live
  PROVE  /\ \A f \in PdFrames(p) : f \in used /\ owner[f] = p /\ role[f] \in {"pd", "table", "page"}
         /\ \A f \in StackFrames(p) : f \in used /\ owner[f] = p /\ role[f] = "stack"
<1>1. Names(owner, role, p)
  BY DEF Owned
<1>2. cr3[p] \in Frames /\ Deref(cr3[p]) = cr3[p]
  BY <1>1, DerefFrame DEF Names, Has, TypeOK
<1>3. \A f \in PrivateTables(p) : Has(owner, role, f, p, "table")
  BY <1>1, <1>2 DEF PrivateTables, Names, Private
<1>4. ASSUME NEW f \in PrivatePages(p) PROVE Has(owner, role, f, p, "page")
  <2>1. PICK t \in PrivateTables(p) :
          f \in {mem[Deref(t)][i].frame : i \in {j \in Index : Present(mem[Deref(t)][j])}}
    BY DEF PrivatePages
  <2>2. Has(owner, role, t, p, "table")
    BY <1>3
  <2>3. Deref(t) = t
    BY <2>2, DerefFrame DEF Has, TypeOK
  <2>4. Maps(owner, role, t)
    BY <2>2 DEF Owned, Has
  <2> QED BY <2>1, <2>2, <2>3, <2>4 DEF Maps, Has
<1>5. \A f \in StackFrames(p) : Has(owner, role, f, p, "stack")
  BY <1>1 DEF StackFrames, Names
<1>6. Has(owner, role, cr3[p], p, "pd")
  BY <1>1 DEF Names
<1> QED BY <1>3, <1>4, <1>5, <1>6 DEF PdFrames, Has

\* process_free: what p owned is free or lost, what others own is untouched.
LEMMA ReleaseIInv ==
  ASSUME IInv, NEW p \in Procs, phase[p] # "none", Release(p)
  PROVE  IInv'
<1> USE DEF IInv, Release
<1>1. TypeOK'
  BY DEF TypeOK, Phases, NoFrame
<1>2. Identity'
  BY Zenon DEF Identity
<1>3. OneBuilder'
  <2>1. Building' \subseteq Building
    BY DEF Building, TypeOK
  <2> QED BY <2>1 DEF OneBuilder, TypeOK
<1>4. PICK owner \in [Frames -> Procs \cup {"nobody"}], role \in [Frames -> Roles] : Owned(owner, role)
  BY DEF Ownership
<1> DEFINE left == [f \in Frames |-> IF owner[f] = p /\ role[f] # "loader" THEN "lost" ELSE role[f]]
<1>5. left \in [Frames -> Roles]
  BY <1>4 DEF Roles
<1>6. \A f \in PdFrames(p) \cup StackFrames(p) :
        f \in used /\ owner[f] = p /\ role[f] # "loader"
  BY <1>4, HeldOwn DEF Live
<1>7. \A f \in Frames : left[f] = IF owner[f] = p /\ role[f] # "loader" THEN "lost" ELSE role[f]
  OBVIOUS
<1> HIDE DEF left
<1>8. \A g, q, s : q # p /\ Has(owner, role, g, q, s) => Has(owner, left, g, q, s)'
  BY <1>6, <1>7 DEF Has, TypeOK
<1>9. Owned(owner, left)'
  <2>1. ASSUME NEW q \in Live' PROVE Names(owner, left, q)'
    <3>1. q # p /\ q \in Live /\ cr3'[q] = cr3[q] /\ stack'[q] = stack[q] /\ mem' = mem
      BY DEF Live, TypeOK
    <3>2. Names(owner, role, q)
      BY <3>1, <1>4 DEF Owned
    <3> QED BY <3>1, <3>2, <1>8 DEF Names
  <2>2. ASSUME NEW t \in used', left[t] = "table" PROVE Maps(owner, left, t)'
    <3>1. t \in used /\ t \in Frames /\ role[t] = "table" /\ owner[t] # p /\ mem' = mem
      BY <1>7, <2>2 DEF TypeOK
    <3>2. Maps(owner, role, t)
      BY <3>1, <1>4 DEF Owned
    <3> QED BY <3>1, <3>2, <1>8 DEF Maps
  <2>3. frame' # NoFrame => frame' \in used' /\ left[frame'] = "loader"
    BY <1>4, <1>6, <1>7 DEF Owned, TypeOK
  <2> QED BY <2>1, <2>2, <2>3 DEF Owned
<1>10. Ownership'
  BY <1>5, <1>9 DEF Ownership
<1> QED BY <1>1, <1>2, <1>3, <1>10
----------------------------------------------------------------------------
(* Steps that take a frame. *)

\* A directory, table or page that keeps its frame and its contents keeps its owner.
LEMMA OthersKept ==
  ASSUME NEW owner, NEW role, Owned(owner, role),
         NEW owner2, NEW role2,
         \A g, q, s : s # "loader" /\ Has(owner, role, g, q, s) => Has(owner2, role2, g, q, s)'
  PROVE  /\ \A q \in Live : cr3'[q] = cr3[q] /\ mem'[cr3[q]] = mem[cr3[q]] /\ stack'[q] = stack[q]
              => Names(owner2, role2, q)'
         /\ \A t \in used : role[t] = "table" /\ mem'[t] = mem[t] /\ owner2[t] = owner[t]
              => Maps(owner2, role2, t)'
  BY DEF Owned, Names, Maps

\* The identity tables are untouched.
LEMMA IdentityKept ==
  ASSUME Identity, mem'[KernelPd] = mem[KernelPd],
         \A t \in Tables : mem'[IdentityPt(t)] = mem[IdentityPt(t)]
  PROVE  Identity'
  BY Zenon DEF Identity

LEMMA CreatePdIInv ==
  ASSUME IInv, NEW p \in Procs, NEW image \in Images, CreatePd(p, image)
  PROVE  IInv'
<1> USE DEF IInv, CreatePd
<1>1. PICK f \in Frames : f = Alloc /\ f \notin used /\ Deref(f) = f /\ f \in Window
  BY AllocFree, DerefFrame, FramesApart
<1>2. mem' = [mem EXCEPT ![f] = UserPd]
  BY <1>1
<1>3. UserPd \in [Index -> Entries]
  <2>1. KernelPd \in Window /\ NotPresent \in Entries
    BY KernelFrames DEF NotPresent, Entries
  <2> QED BY <2>1 DEF UserPd, TypeOK
<1>4. /\ used' = used \cup {f} /\ cr3' = [cr3 EXCEPT ![p] = f]
      /\ mem'[f] = UserPd /\ \A g \in Window : g # f => mem'[g] = mem[g]
  BY <1>1, <1>2 DEF TypeOK
<1>5. TypeOK'
  <2>1. todo' \in [Procs -> Seq(Pages)]
    BY PagesElsewhere DEF TypeOK
  <2>2. mem' \in [Window -> [Index -> Entries]]
    BY <1>2, <1>3, Zenon DEF TypeOK
  <2> QED BY <1>1, <1>4, <2>1, <2>2, FramesApart DEF TypeOK, Phases
<1>6. Identity'
  BY <1>1, <1>4, IdentityKept, FramesApart, KernelFrames
<1>7. OneBuilder'
  <2>1. Building' = {p}
    BY DEF Building, TypeOK
  <2> QED BY <2>1 DEF OneBuilder, TypeOK
<1>8. PICK owner \in [Frames -> Procs \cup {"nobody"}], role \in [Frames -> Roles] : Owned(owner, role)
  BY DEF Ownership
<1> DEFINE owner2 == [owner EXCEPT ![f] = p]
           role2 == [role EXCEPT ![f] = "pd"]
<1>9. /\ owner2 \in [Frames -> Procs \cup {"nobody"}] /\ role2 \in [Frames -> Roles]
      /\ owner2[f] = p /\ role2[f] = "pd"
      /\ \A g \in Frames : g # f => owner2[g] = owner[g] /\ role2[g] = role[g]
  BY <1>1, <1>8 DEF Roles
<1>10. \A g, q, s : Has(owner, role, g, q, s) => Has(owner2, role2, g, q, s)'
  BY <1>1, <1>4, <1>9 DEF Has, TypeOK
<1> HIDE DEF owner2, role2
<1>11. Owned(owner2, role2)'
  <2>1. ASSUME NEW q \in Live' PROVE Names(owner2, role2, q)'
    <3>1. CASE q = p
      <4>1. cr3'[p] = f /\ stack'[p] = <<NoFrame, NoFrame>>
        BY <1>4 DEF TypeOK, OneBuilder
      <4>2. \A t \in Tables : mem'[f][t].frame = IdentityPt(t)
        BY <1>4, AddressSpaceAssumption DEF UserPd, Identity, Tables, Index
      <4>3. \A i \in Private : mem'[f][i] = NotPresent
        BY <1>4, AddressSpaceAssumption DEF UserPd, Private, Index
      <4> QED BY <3>1, <4>1, <4>2, <4>3, <1>4, <1>9 DEF Names, Has, Present
    <3>2. CASE q # p
      <4>1. q \in Live /\ cr3'[q] = cr3[q] /\ stack'[q] = stack[q]
        BY <3>2, <1>4 DEF Live, TypeOK
      <4>2. cr3[q] \in used
        BY <4>1, <1>8 DEF Owned, Names, Has
      <4>3. mem'[cr3[q]] = mem[cr3[q]]
        BY <4>2, <1>1, <1>4, FramesApart DEF TypeOK
      <4> QED BY <4>1, <4>3, <1>8, <1>10, OthersKept, Zenon
    <3> QED BY <3>1, <3>2
  <2>2. ASSUME NEW t \in used', role2[t] = "table" PROVE Maps(owner2, role2, t)'
    <3>1. t # f /\ t \in used /\ t \in Frames
      BY <1>4, <1>9, <2>2 DEF TypeOK
    <3>2. role[t] = "table" /\ owner2[t] = owner[t] /\ mem'[t] = mem[t]
      BY <3>1, <1>4, <1>9, <2>2, FramesApart
    <3> QED BY <3>1, <3>2, <1>8, <1>10, OthersKept, Zenon
  <2>3. frame' # NoFrame => frame' \in used' /\ role2[frame'] = "loader"
    BY <1>1, <1>4, <1>8, <1>9 DEF Owned, TypeOK
  <2> QED BY <2>1, <2>2, <2>3 DEF Owned
<1>12. Ownership'
  BY <1>9, <1>11 DEF Ownership
<1> QED BY <1>5, <1>6, <1>7, <1>12

\* A frame of the kernel stack, if there is one.
LEMMA StackIInv ==
  ASSUME IInv, NEW p \in Procs, AllocStackLo(p) \/ AllocStackHi(p)
  PROVE  IInv'
<1> USE DEF IInv
<1>1. /\ Alloc = NoFrame \/ (Alloc \in Frames /\ Alloc \notin used)
      /\ Alloc \in Nat
  BY AllocFree, FramesApart DEF NoFrame
<1>2. /\ used' = used \cup Taken(Alloc)
      /\ UNCHANGED <<mem, cr3, todo, frame>>
      /\ phase[p] \in {"lo", "hi"} /\ phase'[p] \in {"hi", "check"}
      /\ phase' \in [Procs -> Phases] /\ \A q \in Procs : q # p => phase'[q] = phase[q]
      /\ stack' \in [Procs -> Nat \X Nat] /\ \A q \in Procs : q # p => stack'[q] = stack[q]
      /\ stack'[p][1] \in {stack[p][1], Alloc} /\ stack'[p][2] \in {NoFrame, Alloc}
  <2>1. CASE AllocStackLo(p)
    BY <1>1, <2>1 DEF AllocStackLo, TypeOK, NoFrame, Phases
  <2>2. CASE AllocStackHi(p)
    <3>1. stack' = [stack EXCEPT ![p] = [@ EXCEPT ![2] = Alloc]] /\ stack[p] \in Nat \X Nat
      BY <2>2 DEF AllocStackHi, TypeOK
    <3>2. [stack[p] EXCEPT ![2] = Alloc] = <<stack[p][1], Alloc>>
      BY <3>1
    <3>3. stack' = [stack EXCEPT ![p] = <<stack[p][1], Alloc>>]
      BY <3>1, <3>2, Zenon
    <3> QED BY <1>1, <2>2, <3>1, <3>3 DEF AllocStackHi, TypeOK, NoFrame, Phases
  <2> QED BY <2>1, <2>2
<1>3. TypeOK'
  BY <1>1, <1>2 DEF TypeOK, Taken
<1>4. Identity'
  BY <1>2, Zenon DEF Identity
<1>5. OneBuilder'
  <2>1. Building' = Building
    BY <1>2 DEF Building
  <2> QED BY <2>1, <1>2 DEF OneBuilder
<1>6. Live' = Live /\ p \in Live
  BY <1>2 DEF Live
<1>7. PICK owner \in [Frames -> Procs \cup {"nobody"}], role \in [Frames -> Roles] : Owned(owner, role)
  BY DEF Ownership
<1>8. CASE Alloc = NoFrame
  <2>1. used' = used
    BY <1>2, <1>8 DEF Taken
  <2>2. ASSUME NEW q \in Live PROVE Names(owner, role, q)'
    <3>1. Names(owner, role, q)
      BY <1>7 DEF Owned
    <3>0. q \in Procs
      BY DEF Live
    <3>2. \A k \in {1, 2} : stack'[q][k] \in {NoFrame, stack[q][k]}
      BY <1>2, <1>8, <3>0
    <3>3. \A g, r : Has(owner, role, g, q, r) => Has(owner, role, g, q, r)'
      BY <2>1, Zenon DEF Has
    <3>4. \A k \in {1, 2} : \A g : g = stack'[q][k] /\ g # NoFrame => Has(owner, role, g, q, "stack")'
      BY <3>1, <3>2, <3>3, Zenon DEF Names
    <3> QED BY <3>1, <3>3, <3>4, <1>2, Zenon DEF Names, Has
  <2>3. Owned(owner, role)'
    BY <1>2, <1>6, <1>7, <2>1, <2>2 DEF Owned, Maps, Has
  <2> QED BY <1>3, <1>4, <1>5, <2>3 DEF Ownership
<1>9. CASE Alloc \in Frames /\ Alloc \notin used
  <2>1. PICK f \in Frames : f = Alloc /\ f \notin used
    BY <1>9
  <2>2. used' = used \cup {f}
    BY <1>2, <2>1, FramesApart, Zenon DEF Taken
  <2> DEFINE owner2 == [owner EXCEPT ![f] = p]
             role2 == [role EXCEPT ![f] = "stack"]
  <2>3. /\ owner2 \in [Frames -> Procs \cup {"nobody"}] /\ role2 \in [Frames -> Roles]
        /\ owner2[f] = p /\ role2[f] = "stack"
        /\ \A g \in Frames : g # f => owner2[g] = owner[g] /\ role2[g] = role[g]
    BY <1>7 DEF Roles
  <2> HIDE DEF owner2, role2
  <2>4. \A g, q, s : Has(owner, role, g, q, s) => Has(owner2, role2, g, q, s)'
    BY <2>1, <2>2, <2>3 DEF Has, TypeOK
  <2>5. ASSUME NEW q \in Live PROVE Names(owner2, role2, q)'
    <3>1. Names(owner, role, q)
      BY <1>7 DEF Owned
    <3>2. CASE q # p
      BY <3>1, <3>2, <1>2, <2>4, Zenon DEF Names, Live
    <3>3. CASE q = p
      <4>1. \A k \in {1, 2} : stack'[q][k] \in {NoFrame, stack[q][k], f}
        BY <3>3, <1>2, <2>1
      <4>2. Has(owner2, role2, f, p, "stack")'
        BY <2>2, <2>3 DEF Has
      <4>3. \A k \in {1, 2} : stack'[q][k] # NoFrame => Has(owner2, role2, stack[q][k], q, "stack")'
        <5> TAKE k \in {1, 2}
        <5>1. CASE stack'[q][k] = f
          BY <5>1, <4>2, <3>3, Zenon DEF Has
        <5>2. CASE stack'[q][k] = stack[q][k] /\ stack[q][k] # NoFrame
          <6>1. Has(owner, role, stack[q][k], q, "stack")
            BY <5>2, <3>1, Zenon DEF Names
          <6>2. PICK g : g = stack[q][k] /\ Has(owner2, role2, g, q, "stack")'
            BY <6>1, <2>4, Zenon
          <6> QED BY <5>2, <6>2, Zenon DEF Has
        <5> QED BY <5>1, <5>2, <4>1, Zenon
      <4> QED BY <3>1, <4>3, <1>2, <2>4, Zenon DEF Names
    <3> QED BY <3>2, <3>3
  <2>6. ASSUME NEW t \in used', role2[t] = "table" PROVE Maps(owner2, role2, t)'
    <3>1. t # f /\ t \in used /\ t \in Frames
      BY <2>2, <2>3, <2>6 DEF TypeOK
    <3>2. role[t] = "table" /\ owner2[t] = owner[t]
      BY <3>1, <2>3, <2>6
    <3> QED BY <3>1, <3>2, <1>2, <1>7, <2>4, OthersKept, Zenon
  <2>7. frame' # NoFrame => frame' \in used' /\ role2[frame'] = "loader"
    BY <1>2, <1>7, <2>1, <2>2, <2>3 DEF Owned, TypeOK
  <2>8. Owned(owner2, role2)'
    BY <1>6, <2>5, <2>6, <2>7 DEF Owned
  <2> QED BY <1>3, <1>4, <1>5, <2>3, <2>8 DEF Ownership
<1> QED BY <1>1, <1>8, <1>9

\* The loader takes a frame for the next page.
LEMMA AllocPageIInv ==
  ASSUME IInv, NEW p \in Procs, AllocPage(p)
  PROVE  IInv'
<1> USE DEF IInv, AllocPage
<1>1. PICK f \in Frames : f = Alloc /\ f \notin used
  BY AllocFree
<1>2. used' = used \cup {f} /\ frame' = f
  BY <1>1
<1>3. TypeOK'
  BY <1>2, FramesApart DEF TypeOK, Phases
<1>4. Identity'
  BY Zenon DEF Identity
<1>5. OneBuilder'
  <2>1. Building' = Building /\ p \in Building
    BY DEF Building, TypeOK
  <2>2. frame' # NoFrame
    BY <1>2, FramesApart
  <2> QED BY <2>1, <2>2 DEF OneBuilder, TypeOK, Building
<1>6. Live' = Live
  BY DEF Live, TypeOK
<1>7. PICK owner \in [Frames -> Procs \cup {"nobody"}], role \in [Frames -> Roles] : Owned(owner, role)
  BY DEF Ownership
<1> DEFINE role2 == [role EXCEPT ![f] = "loader"]
<1>8. /\ role2 \in [Frames -> Roles] /\ role2[f] = "loader"
      /\ \A g \in Frames : g # f => role2[g] = role[g]
  BY <1>7 DEF Roles
<1> HIDE DEF role2
<1>9. \A g, q, s : Has(owner, role, g, q, s) => Has(owner, role2, g, q, s)'
  BY <1>1, <1>2, <1>8 DEF Has, TypeOK
<1>10. Owned(owner, role2)'
  <2>1. ASSUME NEW q \in Live' PROVE Names(owner, role2, q)'
    BY <1>6, <1>7, <1>9, OthersKept, Zenon
  <2>2. ASSUME NEW t \in used', role2[t] = "table" PROVE Maps(owner, role2, t)'
    <3>1. t # f /\ t \in used /\ t \in Frames
      BY <1>2, <1>8, <2>2 DEF TypeOK
    <3>2. role[t] = "table"
      BY <3>1, <1>8, <2>2
    <3> QED BY <3>1, <3>2, <1>7, <1>9, OthersKept, Zenon
  <2> QED BY <2>1, <2>2, <1>2, <1>8 DEF Owned
<1> QED BY <1>3, <1>4, <1>5, <1>8, <1>10 DEF Ownership
----------------------------------------------------------------------------
(* paging_map_into *)

\* An entry of p's directory, and one of the table it points to.
TableAt(p, i) == mem[cr3[p]][i]
EntryAt(p, i, j) == mem[mem[cr3[p]][i].frame][j]

\* Above the window the step changes entry b of p's table a and no other entry.
Moves(p, a, b, f) ==
  /\ \A q \in Live, i \in Private : q # p \/ i # a => TableAt(q, i)' = TableAt(q, i)
  /\ \A q \in Live, i \in Private, j \in Index :
       Present(TableAt(q, i)) /\ (q # p \/ i # a \/ j # b) => EntryAt(q, i, j)' = EntryAt(q, i, j)
  /\ a \in Private => Present(TableAt(p, a))' /\ EntryAt(p, a, b)' = Entry(f, TRUE)

\* Table a of p was there, and stays.
OldTable(p, a) ==
  a \in Private => Present(TableAt(p, a)) /\ TableAt(p, a)'.frame = TableAt(p, a).frame

\* Table a of p is new, and empty but for entry b.
NewTable(p, a, b) ==
  /\ a \in Private /\ ~Present(TableAt(p, a))
  /\ Alloc \in Frames \ used /\ used' = used \cup {Alloc} /\ TableAt(p, a)'.frame = Alloc
  /\ \A j \in Index : j # b => EntryAt(p, a, j)' = NotPresent

\* The directory entry of a page above the window is a private one.
LEMMA AboveWindow ==
  ASSUME NEW v \in Pages, v \notin Window
  PROVE  /\ v \div ENTRIES \in Private /\ v % ENTRIES \in Index
         /\ v = (v \div ENTRIES) * ENTRIES + (v % ENTRIES)
<1> DEFINE i == v \div ENTRIES
<1>1. v \in Nat /\ i \in Index /\ v % ENTRIES \in Index
  BY PagesElsewhere
<1>2. ENTRIES \in Nat \ {0} /\ IDENTITY_PT_COUNT \in Nat
  BY AddressSpaceAssumption
<1>3. v % ENTRIES \in 0..(ENTRIES - 1) /\ v = i * ENTRIES + (v % ENTRIES)
  BY <1>1, <1>2, DivMod
<1> HIDE DEF i
<1>4. i \in 0..(ENTRIES - 1)
  BY <1>1 DEF Index
<1>5. ASSUME i < IDENTITY_PT_COUNT PROVE FALSE
  <2>1. (i + 1) * ENTRIES <= IDENTITY_PT_COUNT * ENTRIES
    BY <1>2, <1>4, <1>5
  <2>2. (i + 1) * ENTRIES = i * ENTRIES + ENTRIES /\ i * ENTRIES \in Nat
    BY <1>2, <1>4
  <2>3. v \in 0..(IDENTITY_PT_COUNT * ENTRIES - 1)
    BY <1>1, <1>2, <1>3, <2>1, <2>2
  <2> QED BY <2>3 DEF Window
<1>6. i \in Private
  BY <1>2, <1>4, <1>5 DEF Private
<1> QED BY <1>1, <1>3, <1>6 DEF i

\* What both cases share: the loader's frame and the page at hand are used up.
LEMMA MapPageCommon ==
  ASSUME IInv, NEW p \in Procs, MapPage(p), used' \in SUBSET Frames,
         mem' \in [Window -> [Index -> Entries]]
  PROVE  TypeOK' /\ OneBuilder' /\ Live' = Live /\ p \in Live
<1> USE DEF IInv, MapPage
<1>1. todo[p] # <<>> /\ todo[p] \in Seq(Pages)
  BY DEF OneBuilder, TypeOK
<1>2. todo' \in [Procs -> Seq(Pages)]
  BY <1>1 DEF TypeOK
<1>3. TypeOK'
  BY <1>2 DEF TypeOK, Phases, NoFrame
<1>4. Building' = Building /\ p \in Building
  BY DEF Building, TypeOK
<1>5. OneBuilder'
  BY <1>4 DEF OneBuilder, TypeOK, Building
<1>6. Live' = Live /\ p \in Live
  BY DEF Live, TypeOK
<1> QED BY <1>3, <1>5, <1>6

\* The page, its place, and the frames involved.
LEMMA MapPageFacts ==
  ASSUME IInv, NEW p \in Procs, MapPage(p),
         NEW owner, NEW role, Owned(owner, role)
  PROVE  /\ Head(todo[p]) \in Pages
         /\ Head(todo[p]) \div ENTRIES \in Index /\ Head(todo[p]) % ENTRIES \in Index
         /\ cr3[p] \in used /\ owner[cr3[p]] = p /\ role[cr3[p]] = "pd" /\ Deref(cr3[p]) = cr3[p]
         /\ frame \in used /\ role[frame] = "loader"
<1> USE DEF IInv
<1>1. todo[p] # <<>> /\ todo[p] \in Seq(Pages) /\ frame # NoFrame
  BY DEF MapPage, OneBuilder, TypeOK
<1>2. Head(todo[p]) \in Pages
  BY <1>1
<1>3. Names(owner, role, p)
  BY Zenon DEF MapPage, Owned, Live
<1>4. cr3[p] \in used /\ owner[cr3[p]] = p /\ role[cr3[p]] = "pd"
  BY <1>3 DEF Names, Has
<1>5. Deref(cr3[p]) = cr3[p]
  BY <1>4, DerefFrame DEF TypeOK
<1>6. frame \in used /\ role[frame] = "loader"
  BY <1>1 DEF Owned
<1> QED BY <1>2, <1>4, <1>5, <1>6, PagesElsewhere

\* The two cases of paging_map_into.
Known(p) ==
  /\ Present(mem[Deref(cr3[p])][Head(todo[p]) \div ENTRIES])
  /\ MapIntoTable(cr3[p], Head(todo[p]), frame) /\ UNCHANGED used
Unknown(p) ==
  /\ ~Present(mem[Deref(cr3[p])][Head(todo[p]) \div ENTRIES]) /\ Alloc # NoFrame
  /\ MapIntoNewTable(cr3[p], Head(todo[p]), frame)

\* A page in a table the directory already has.
LEMMA MapIntoTableIInv ==
  ASSUME IInv, NEW p \in Procs, MapPage(p), Known(p)
  PROVE  /\ IInv' /\ Moves(p, Head(todo[p]) \div ENTRIES, Head(todo[p]) % ENTRIES, frame)
         /\ OldTable(p, Head(todo[p]) \div ENTRIES) /\ used' = used
<1> USE DEF IInv
<1>1. PICK owner \in [Frames -> Procs \cup {"nobody"}], role \in [Frames -> Roles] : Owned(owner, role)
  BY DEF Ownership
<1>0. PICK page \in Pages, i \in Index, j \in Index, d \in Frames, f \in Frames :
        /\ page = Head(todo[p]) /\ i = page \div ENTRIES /\ j = page % ENTRIES
        /\ d = cr3[p] /\ d \in used /\ owner[d] = p /\ role[d] = "pd" /\ Deref(d) = d
        /\ f = frame /\ f \in used /\ role[f] = "loader"
  BY <1>1, MapPageFacts DEF TypeOK
<1>2. /\ d = cr3[p] /\ d \in used /\ owner[d] = p /\ role[d] = "pd"
      /\ f = frame /\ f \in used /\ role[f] = "loader"
  BY <1>0
<1>3. Names(owner, role, p) /\ Present(mem[d][i])
  BY <1>0, <1>1, Zenon DEF Owned, Live, MapPage, Known
<1>4. PICK t \in Window :
        /\ t = mem[d][i].frame /\ Deref(t) = t /\ t # d /\ t # KernelPd
        /\ i \in Tables => t = IdentityPt(i)
        /\ i \notin Tables => t \in Frames /\ Has(owner, role, t, p, "table")
  <2>1. CASE i \in Tables
    <3>1. mem[d][i].frame = IdentityPt(i)
      BY <2>1, <1>2, <1>3 DEF Names
    <3>2. IdentityPt(i) \in Window /\ Deref(IdentityPt(i)) = IdentityPt(i) /\ IdentityPt(i) # d
      BY <2>1, DerefFrame, KernelFrames, FramesApart
    <3>3. IdentityPt(i) # KernelPd
      BY <2>1 DEF IdentityPt, KernelPd, Tables
    <3> QED BY <2>1, <3>1, <3>2, <3>3
  <2>2. CASE i \notin Tables
    <3>1. i \in Private
      BY <2>2, Parts
    <3>2. Has(owner, role, mem[d][i].frame, p, "table")
      BY <3>1, <1>2, <1>3 DEF Names
    <3> QED BY <2>2, <3>2, <1>2, DerefFrame, FramesApart, ZenonT(30) DEF Has, TypeOK
  <2> QED BY <2>1, <2>2
<1>5. d \in Window
  BY FramesApart
<1>6. mem' = [mem EXCEPT ![d][i].user = TRUE, ![t][j] = Entry(f, TRUE)]
  BY <1>0, <1>4, Zenon DEF MapIntoTable, Known
<1>19. used' = used
  BY Zenon DEF Known
<1>7. /\ mem' \in [Window -> [Index -> Entries]]
      /\ \A g \in Window : g # d /\ g # t => mem'[g] = mem[g]
      /\ \A k \in Index : mem'[d][k].frame = mem[d][k].frame /\ (k # i => mem'[d][k] = mem[d][k])
      /\ mem'[t][j] = Entry(f, TRUE)
      /\ \A k \in Index : k # j => mem'[t][k] = mem[t][k]
  <2>1. Entry(f, TRUE) \in Entries
    BY FramesApart DEF Entry, Entries
  <2>2. [mem[d][i] EXCEPT !.user = TRUE] \in Entries /\ [mem[d][i] EXCEPT !.user = TRUE].frame = mem[d][i].frame
    <3>1. mem[d][i] \in Entries
      BY <1>5 DEF TypeOK
    <3> QED BY <3>1, Zenon DEF Entries
  <2>3. mem' = [mem EXCEPT ![d] = [mem[d] EXCEPT ![i] = [mem[d][i] EXCEPT !.user = TRUE]],
                           ![t] = [mem[t] EXCEPT ![j] = Entry(f, TRUE)]]
    BY <1>4, <1>5, <1>6 DEF TypeOK
  <2> QED BY <1>4, <1>5, <2>1, <2>2, <2>3, Zenon DEF TypeOK
<1>8. TypeOK' /\ OneBuilder' /\ Live' = Live /\ p \in Live
  BY <1>7, <1>19, MapPageCommon, Zenon DEF TypeOK
<1>9. Identity'
  <2>1. CASE i \notin Tables
    BY <2>1, <1>2, <1>4, <1>7, IdentityKept, FramesApart, KernelFrames, ZenonT(30)
  <2>2. CASE i \in Tables
    <3>1. i * ENTRIES + j = page
      <4>1. ENTRIES \in Nat \ {0} /\ page \in Nat
        BY AddressSpaceAssumption, PagesElsewhere
      <4> QED BY <4>1, <1>0, DivMod, Zenon
    <3>2. mem'[KernelPd] = mem[KernelPd]
      BY <1>4, <1>7, FramesApart, KernelFrames
    <3>3. ASSUME NEW u \in Tables, NEW k \in Index, u * ENTRIES + k \notin Pages
          PROVE  mem'[IdentityPt(u)][k] = mem[IdentityPt(u)][k]
      <4>1. CASE u = i
        <5>1. k # j
          BY <3>1, <3>3, <4>1
        <5> QED BY <5>1, <4>1, <2>2, <1>4, <1>7
      <4>2. CASE u # i
        <5>1. IdentityPt(u) # t /\ IdentityPt(u) # d /\ IdentityPt(u) \in Window
          BY <4>2, <2>2, <1>4, FramesApart, KernelFrames DEF IdentityPt, Tables
        <5> QED BY <5>1, <1>7
      <4> QED BY <4>1, <4>2
    <3> QED BY <3>2, <3>3, Zenon DEF Identity
  <2> QED BY <2>1, <2>2
<1> DEFINE owner2 == [owner EXCEPT ![f] = p]
           role2 == [role EXCEPT ![f] = "page"]
<1>10. /\ owner2 \in [Frames -> Procs \cup {"nobody"}] /\ role2 \in [Frames -> Roles]
       /\ owner2[f] = p /\ role2[f] = "page"
       /\ \A g \in Frames : g # f => owner2[g] = owner[g] /\ role2[g] = role[g]
  BY <1>1 DEF Roles
<1> HIDE DEF owner2, role2
<1>11. \A g, q, s : s # "loader" /\ Has(owner, role, g, q, s) => Has(owner2, role2, g, q, s)'
  BY <1>2, <1>10, <1>19 DEF Has, TypeOK
<1>12. Has(owner2, role2, f, p, "page")'
  BY <1>2, <1>10, <1>19 DEF Has
<1>13. ASSUME NEW q \in Live PROVE Names(owner2, role2, q)'
  <2>1. cr3'[q] = cr3[q] /\ stack'[q] = stack[q] /\ Names(owner, role, q)
    BY <1>1, Zenon DEF MapPage, Owned
  <2>2. CASE q = p
    <3>2. \A k \in Private : Present(mem'[d][k]) => Present(mem[d][k]) /\ mem'[d][k].frame = mem[d][k].frame
      BY <1>3, <1>7, Parts, Zenon
    <3>3. \A k \in Tables : mem'[d][k].frame = mem[d][k].frame
      BY <1>7, Parts
    <3>4. /\ Has(owner, role, d, p, "pd")
          /\ \A k \in Tables : mem[d][k].frame = IdentityPt(k)
          /\ \A k \in Private : Present(mem[d][k]) => Has(owner, role, mem[d][k].frame, p, "table")
          /\ \A k, n \in Private :
               k # n /\ Present(mem[d][k]) /\ Present(mem[d][n]) => mem[d][k].frame # mem[d][n].frame
          /\ \A k \in {1, 2} : stack[p][k] # NoFrame => Has(owner, role, stack[p][k], p, "stack")
      BY <1>2, <1>3, Zenon DEF Names
    <3>5. \A k \in Private : \A g :
            Present(mem'[d][k]) /\ g = mem'[d][k].frame => Has(owner2, role2, g, p, "table")'
      BY <3>2, <3>4, <1>11, Zenon
    <3>6. \A k, n \in Private :
            k # n /\ Present(mem'[d][k]) /\ Present(mem'[d][n]) => mem'[d][k].frame # mem'[d][n].frame
      BY <3>2, <3>4
    <3>7. \A k \in Tables : mem'[d][k].frame = IdentityPt(k)
      BY <3>3, <3>4
    <3>8. cr3'[p] = d /\ stack'[p] = stack[p]
      BY <2>1, <2>2, <1>2
    <3>9. /\ Has(owner2, role2, d, p, "pd")'
          /\ \A k \in {1, 2} : \A g :
               g = stack'[p][k] /\ g # NoFrame => Has(owner2, role2, g, p, "stack")'
      BY <3>4, <3>8, <1>11, Zenon
    <3> QED BY <2>2, <3>5, <3>6, <3>7, <3>8, <3>9, Zenon DEF Names, Has
  <2>3. CASE q # p
    <3>1. cr3[q] \in used /\ owner[cr3[q]] = q /\ role[cr3[q]] = "pd"
      BY <2>1, Zenon DEF Names, Has
    <3>2. cr3[q] # d /\ cr3[q] # t /\ cr3[q] \in Window
      BY <3>1, <2>3, <1>2, <1>4, FramesApart, ZenonT(30) DEF Has, TypeOK
    <3> QED BY <3>2, <2>1, <1>1, <1>7, <1>11, OthersKept, Zenon
  <2> QED BY <2>2, <2>3
<1>14. ASSUME NEW u \in used', role2[u] = "table" PROVE Maps(owner2, role2, u)'
  <2>1. u \in used /\ u \in Frames /\ u # f /\ role[u] = "table" /\ owner2[u] = owner[u] /\ u # d
    BY <1>2, <1>10, <1>14, <1>19 DEF TypeOK
  <2>2. CASE u # t
    BY <2>1, <2>2, <1>1, <1>7, <1>11, OthersKept, FramesApart, Zenon
  <2>3. CASE u = t
    <3>1. owner[u] = p /\ Maps(owner, role, u)
      BY <2>1, <2>3, <1>1, <1>4, FramesApart, Zenon DEF Has, Owned
    <3>2. mem'[u][j].frame = f
      BY <2>3, <1>7 DEF Entry
    <3> QED BY <3>1, <3>2, <2>1, <2>3, <1>7, <1>11, <1>12, Zenon DEF Maps
  <2> QED BY <2>2, <2>3
<1>15. Owned(owner2, role2)'
  BY <1>8, <1>13, <1>14, Zenon DEF Owned, MapPage, NoFrame
<1>16. ASSUME NEW q \in Live, NEW vi \in Private
       PROVE  q # p \/ vi # i => TableAt(q, vi)' = TableAt(q, vi)
  <2>1. cr3'[q] = cr3[q] /\ Names(owner, role, q) /\ vi \in Index
    BY <1>1, Parts, Zenon DEF MapPage, Owned
  <2>2. CASE q # p
    <3>1. cr3[q] \in used /\ owner[cr3[q]] = q /\ role[cr3[q]] = "pd"
      BY <2>1, Zenon DEF Names, Has
    <3>2. cr3[q] # d /\ cr3[q] # t /\ cr3[q] \in Window
      BY <3>1, <2>2, <1>2, <1>4, FramesApart, ZenonT(30) DEF Has, TypeOK
    <3> QED BY <3>2, <2>1, <1>7, Zenon DEF TableAt
  <2>3. CASE q = p /\ vi # i
    BY <2>1, <2>3, <1>2, <1>7, Zenon DEF TableAt
  <2> QED BY <2>2, <2>3
<1>17. ASSUME NEW q \in Live, NEW vi \in Private, NEW vj \in Index,
               Present(TableAt(q, vi)), q # p \/ vi # i \/ vj # j
       PROVE  EntryAt(q, vi, vj)' = EntryAt(q, vi, vj)
  <2>1. cr3'[q] = cr3[q] /\ Names(owner, role, q) /\ vi \in Index
    BY <1>1, Parts, Zenon DEF MapPage, Owned
  <2>2. PICK u \in Frames : u = mem[cr3[q]][vi].frame /\ Has(owner, role, u, q, "table")
    BY <1>17, <2>1, Zenon DEF TableAt, Names, Has, TypeOK
  <2>3. u # d /\ u \in Window
    BY <2>2, <1>2, FramesApart DEF Has
  <2>4. mem'[cr3[q]][vi].frame = u
    <3>1. CASE q = p /\ vi = i
      BY <2>1, <2>2, <3>1, <1>2, <1>7, Zenon
    <3>2. CASE q # p \/ vi # i
      BY <2>1, <2>2, <3>2, <1>16, Zenon DEF TableAt
    <3> QED BY <3>1, <3>2
  <2>5. mem'[u][vj] = mem[u][vj]
    <3>1. CASE u # t
      BY <2>3, <3>1, <1>7, Zenon
    <3>2. CASE u = t
      <4>1. i \in Private
        BY <3>2, <1>4, FramesApart, Parts
      <4>2. q = p
        BY <2>2, <3>2, <1>4, <4>1, FramesApart, Zenon DEF Has
      <4>3. Present(mem[d][i]) /\ Present(mem[d][vi]) /\ mem[d][vi].frame = u /\ mem[d][i].frame = t
        BY <4>2, <2>2, <1>2, <1>3, <1>4, <1>17, Zenon DEF TableAt
      <4>4. vi = i
        BY <4>1, <4>3, <3>2, <1>2, <1>3, Zenon DEF Names
      <4> QED BY <4>2, <4>4, <3>2, <1>7, <1>17, Zenon
    <3> QED BY <3>1, <3>2
  <2> QED BY <2>1, <2>2, <2>4, <2>5, Zenon DEF EntryAt
<1>18. /\ i \in Private => Present(TableAt(p, i))' /\ EntryAt(p, i, j)' = Entry(f, TRUE)
       /\ OldTable(p, i)
  <2>1. cr3'[p] = d /\ mem'[d][i].frame = t
    BY <1>2, <1>4, <1>7, Zenon DEF MapPage
  <2>2. Present(mem'[d][i])
    BY <2>1, KernelFrames DEF Present, NotPresent
  <2>3. TableAt(p, i)' = mem'[d][i] /\ EntryAt(p, i, j)' = mem'[t][j]
    BY <2>1, Zenon DEF TableAt, EntryAt
  <2>4. TableAt(p, i) = mem[d][i]
    BY <1>2, Zenon DEF TableAt
  <2> QED BY <2>1, <2>2, <2>3, <2>4, <1>3, <1>4, <1>7, Zenon DEF OldTable
<1>20. Moves(p, i, j, f)
  BY <1>16, <1>17, <1>18, Zenon DEF Moves
<1> QED BY <1>0, <1>8, <1>9, <1>10, <1>15, <1>18, <1>19, <1>20, Zenon DEF Ownership

\* A page whose table is allocated first.
LEMMA MapIntoNewTableIInv ==
  ASSUME IInv, NEW p \in Procs, MapPage(p), Unknown(p)
  PROVE  /\ IInv' /\ Moves(p, Head(todo[p]) \div ENTRIES, Head(todo[p]) % ENTRIES, frame)
         /\ NewTable(p, Head(todo[p]) \div ENTRIES, Head(todo[p]) % ENTRIES)
<1> USE DEF IInv
<1>1. PICK owner \in [Frames -> Procs \cup {"nobody"}], role \in [Frames -> Roles] : Owned(owner, role)
  BY DEF Ownership
<1>0. PICK page \in Pages, i \in Index, j \in Index, d \in Frames, f \in Frames :
        /\ page = Head(todo[p]) /\ i = page \div ENTRIES /\ j = page % ENTRIES
        /\ d = cr3[p] /\ d \in used /\ owner[d] = p /\ role[d] = "pd" /\ Deref(d) = d
        /\ f = frame /\ f \in used /\ role[f] = "loader"
  BY <1>1, MapPageFacts DEF TypeOK
<1>2. /\ d = cr3[p] /\ d \in used /\ owner[d] = p /\ role[d] = "pd"
      /\ f = frame /\ f \in used /\ role[f] = "loader"
  BY <1>0
<1>3. Names(owner, role, p) /\ mem[d][i] = NotPresent
  BY <1>0, <1>1, Zenon DEF Owned, Live, MapPage, Present, Unknown
<1>4. PICK t \in Frames : t = Alloc /\ t \notin used /\ Deref(t) = t /\ t # d /\ t # f
  BY <1>2, AllocFree, DerefFrame DEF Unknown
<1>5. d \in Window /\ t \in Window
  BY FramesApart
<1> DEFINE fresh == [k \in Index |-> NotPresent]
<1>6. /\ mem' = [mem EXCEPT ![d][i] = Entry(t, TRUE), ![t] = [fresh EXCEPT ![j] = Entry(f, TRUE)]]
      /\ used' = used \cup {t}
  BY <1>0, <1>4 DEF MapIntoNewTable, Unknown
<1>7. /\ mem' \in [Window -> [Index -> Entries]]
      /\ \A g \in Window : g # d /\ g # t => mem'[g] = mem[g]
      /\ mem'[d][i] = Entry(t, TRUE)
      /\ \A k \in Index : k # i => mem'[d][k] = mem[d][k]
      /\ mem'[t][j] = Entry(f, TRUE)
      /\ \A k \in Index : k # j => mem'[t][k] = NotPresent
  <2>1. Entry(f, TRUE) \in Entries /\ Entry(t, TRUE) \in Entries /\ NotPresent \in Entries
    BY FramesApart DEF Entry, Entries, NotPresent
  <2>2. mem' = [mem EXCEPT ![d] = [mem[d] EXCEPT ![i] = Entry(t, TRUE)],
                           ![t] = [fresh EXCEPT ![j] = Entry(f, TRUE)]]
    BY <1>4, <1>5, <1>6 DEF TypeOK
  <2> QED BY <1>4, <1>5, <2>1, <2>2, Zenon DEF TypeOK
<1>8. TypeOK' /\ OneBuilder' /\ Live' = Live /\ p \in Live
  BY <1>6, <1>7, MapPageCommon, Zenon DEF TypeOK
<1>9. Identity'
  BY <1>7, IdentityKept, FramesApart, KernelFrames, Zenon
<1> DEFINE owner2 == [owner EXCEPT ![f] = p, ![t] = p]
           role2 == [role EXCEPT ![f] = "page", ![t] = "table"]
<1>10. /\ owner2 \in [Frames -> Procs \cup {"nobody"}] /\ role2 \in [Frames -> Roles]
       /\ owner2[f] = p /\ role2[f] = "page"
       /\ owner2[t] = p /\ role2[t] = "table"
       /\ \A g \in Frames : g # f /\ g # t => owner2[g] = owner[g] /\ role2[g] = role[g]
  BY <1>1, <1>4 DEF Roles
<1> HIDE DEF owner2, role2
<1>11. \A g, q, s : s # "loader" /\ Has(owner, role, g, q, s) => Has(owner2, role2, g, q, s)'
  BY <1>2, <1>4, <1>6, <1>10 DEF Has, TypeOK
<1>12. Has(owner2, role2, f, p, "page")' /\ Has(owner2, role2, t, p, "table")'
  BY <1>2, <1>6, <1>10 DEF Has
<1>13. ASSUME NEW q \in Live PROVE Names(owner2, role2, q)'
  <2>1. cr3'[q] = cr3[q] /\ stack'[q] = stack[q] /\ Names(owner, role, q)
    BY <1>1, Zenon DEF MapPage, Owned
  <2>2. CASE q = p
    <3>2. i \notin Tables
      <4>1. \A k \in Tables : mem[d][k].frame \in Nat
        BY <1>2, <1>3, KernelFrames, Zenon DEF Names
      <4> QED BY <4>1, <1>3 DEF NotPresent
    <3>3. \A k \in Tables : mem'[d][k] = mem[d][k]
      BY <3>2, <1>7, Parts
    <3>4. mem'[d][i].frame = t
      BY <1>7 DEF Entry
    <3>5. \A k \in Private : k = i \/ mem'[d][k] = mem[d][k]
      BY <1>7, Parts
    <3>6. \A k \in Private : Present(mem[d][k]) => mem[d][k].frame # t
      BY <1>2, <1>3, <1>4, Zenon DEF Names, Has
    <3>7. /\ Has(owner, role, d, p, "pd")
          /\ \A k \in Tables : mem[d][k].frame = IdentityPt(k)
          /\ \A k \in Private : Present(mem[d][k]) => Has(owner, role, mem[d][k].frame, p, "table")
          /\ \A k, n \in Private :
               k # n /\ Present(mem[d][k]) /\ Present(mem[d][n]) => mem[d][k].frame # mem[d][n].frame
          /\ \A k \in {1, 2} : stack[p][k] # NoFrame => Has(owner, role, stack[p][k], p, "stack")
      BY <1>2, <1>3, Zenon DEF Names
    <3>8. \A k \in Private : \A g :
            Present(mem'[d][k]) /\ g = mem'[d][k].frame => Has(owner2, role2, g, p, "table")'
      BY <3>4, <3>5, <3>7, <1>11, <1>12, Zenon
    <3>9. \A k, n \in Private :
            k # n /\ Present(mem'[d][k]) /\ Present(mem'[d][n]) => mem'[d][k].frame # mem'[d][n].frame
      BY <3>4, <3>5, <3>6, <3>7
    <3>10. \A k \in Tables : mem'[d][k].frame = IdentityPt(k)
      BY <3>3, <3>7
    <3>11. cr3'[p] = d /\ stack'[p] = stack[p]
      BY <2>1, <2>2, <1>2
    <3>12. /\ Has(owner2, role2, d, p, "pd")'
           /\ \A k \in {1, 2} : \A g :
                g = stack'[p][k] /\ g # NoFrame => Has(owner2, role2, g, p, "stack")'
      BY <3>7, <3>11, <1>11, Zenon
    <3> QED BY <2>2, <3>8, <3>9, <3>10, <3>11, <3>12 DEF Names, Has
  <2>3. CASE q # p
    <3>1. cr3[q] \in used /\ owner[cr3[q]] = q
      BY <2>1, Zenon DEF Names, Has
    <3>2. cr3[q] # d /\ cr3[q] # t /\ cr3[q] \in Window
      BY <3>1, <2>3, <1>2, <1>4, FramesApart, Zenon DEF TypeOK
    <3> QED BY <3>2, <2>1, <1>1, <1>7, <1>11, OthersKept, Zenon
  <2> QED BY <2>2, <2>3
<1>14. ASSUME NEW u \in used', role2[u] = "table" PROVE Maps(owner2, role2, u)'
  <2>1. CASE u = t
    <3>1. \A k \in Index : Present(mem'[t][k]) => mem'[t][k].frame = f
      BY <1>7 DEF Entry, Present
    <3> QED BY <2>1, <3>1, <1>10, <1>12 DEF Maps
  <2>2. CASE u # t
    <3>1. u \in used /\ u \in Frames /\ u # f
      BY <2>2, <1>6, <1>10, <1>14 DEF TypeOK
    <3>2. role[u] = "table" /\ owner2[u] = owner[u] /\ u # d
      BY <3>1, <2>2, <1>2, <1>10, <1>14
    <3> QED BY <3>1, <3>2, <2>2, <1>1, <1>7, <1>11, OthersKept, FramesApart, Zenon
  <2> QED BY <2>1, <2>2
<1>15. Owned(owner2, role2)'
  BY <1>8, <1>13, <1>14, Zenon DEF Owned, MapPage
<1>16. ASSUME NEW q \in Live, NEW vi \in Private
       PROVE  q # p \/ vi # i => TableAt(q, vi)' = TableAt(q, vi)
  <2>1. cr3'[q] = cr3[q] /\ Names(owner, role, q) /\ vi \in Index
    BY <1>1, Parts, Zenon DEF MapPage, Owned
  <2>2. CASE q # p
    <3>1. cr3[q] \in used /\ owner[cr3[q]] = q
      BY <2>1, Zenon DEF Names, Has
    <3>2. cr3[q] # d /\ cr3[q] # t /\ cr3[q] \in Window
      BY <3>1, <2>2, <1>2, <1>4, FramesApart, Zenon DEF TypeOK
    <3> QED BY <3>2, <2>1, <1>7, Zenon DEF TableAt
  <2>3. CASE q = p /\ vi # i
    BY <2>1, <2>3, <1>2, <1>7, Zenon DEF TableAt
  <2> QED BY <2>2, <2>3
<1>17. ASSUME NEW q \in Live, NEW vi \in Private, NEW vj \in Index, Present(TableAt(q, vi))
       PROVE  EntryAt(q, vi, vj)' = EntryAt(q, vi, vj)
  <2>1. cr3'[q] = cr3[q] /\ Names(owner, role, q)
    BY <1>1, Zenon DEF MapPage, Owned
  <2>2. PICK u \in Frames : u = mem[cr3[q]][vi].frame /\ Has(owner, role, u, q, "table")
    BY <1>17, <2>1, Zenon DEF TableAt, Names, Has, TypeOK
  <2>3. u # d /\ u # t /\ u \in Window
    BY <2>2, <1>2, <1>4, FramesApart DEF Has
  <2>4. q # p \/ vi # i
    BY <1>2, <1>3, <1>17, Zenon DEF TableAt, Present
  <2>5. mem'[cr3[q]][vi].frame = u /\ mem'[u] = mem[u]
    BY <2>1, <2>2, <2>3, <2>4, <1>7, <1>16, Zenon DEF TableAt
  <2> QED BY <2>1, <2>2, <2>5, Zenon DEF EntryAt
<1>18. /\ Present(TableAt(p, i))' /\ EntryAt(p, i, j)' = Entry(f, TRUE) /\ TableAt(p, i)'.frame = t
       /\ \A k \in Index : k # j => EntryAt(p, i, k)' = NotPresent
  <2>1. cr3'[p] = d
    BY <1>2, Zenon DEF MapPage
  <2>2. mem'[d][i].frame = t /\ Present(mem'[d][i])
    <3>1. Entry(t, TRUE).frame = t /\ Present(Entry(t, TRUE))
      BY DEF Entry, Present, NotPresent
    <3> QED BY <1>7, <3>1, Zenon
  <2>4. TableAt(p, i)' = mem'[d][i] /\ \A k \in Index : EntryAt(p, i, k)' = mem'[t][k]
    BY <2>1, <2>2, Zenon DEF TableAt, EntryAt
  <2> QED BY <2>2, <2>4, <1>7, Zenon DEF Present
<1>19. i \in Private
  <2>1. \A k \in Tables : mem[d][k].frame \in Nat
    BY <1>2, <1>3, KernelFrames, Zenon DEF Names
  <2>2. i \notin Tables
    <3>1. mem[d][i].frame = NotPresent.frame
      BY <1>3, Zenon
    <3>2. NotPresent.frame \notin Nat
      BY DEF NotPresent
    <3> QED BY <2>1, <3>1, <3>2, Zenon
  <2> QED BY <2>2, Parts
<1>20. ~Present(TableAt(p, i))
  BY <1>2, <1>3, Zenon DEF TableAt, Present
<1>21. NewTable(p, i, j)
  BY <1>4, <1>6, <1>18, <1>19, <1>20, Zenon DEF NewTable
<1>22. Moves(p, i, j, f)
  BY <1>16, <1>17, <1>18, Zenon DEF Moves
<1> QED BY <1>0, <1>8, <1>9, <1>10, <1>15, <1>21, <1>22, Zenon DEF Ownership

----------------------------------------------------------------------------
(* Every step *)

LEMMA StepIInv ==
  ASSUME IInv, [Next]_vars
  PROVE  IInv'
<1>1. CASE UNCHANGED vars
  <2>1. Identity' /\ Ownership'
    BY <1>1, Unmoved DEF vars, procVars, Live
  <2> QED BY <1>1, <2>1 DEF vars, procVars, IInv, TypeOK, OneBuilder, Building
<1>2. ASSUME NEW p \in Procs, BuildStep(p) \/ Exit(p) \/ ProcessFree(p)
      PROVE  IInv'
  <2>1. ASSUME NEW image \in Images, CreatePd(p, image) PROVE IInv'
    BY <2>1, CreatePdIInv
  <2>2. CASE AllocStackLo(p) \/ AllocStackHi(p)
    BY <2>2, StackIInv
  <2>3. CASE CreateFails(p) \/ ProcessFree(p)
    BY <2>3, ReleaseIInv DEF CreateFails, ProcessFree
  <2>4. CASE CreateSucceeds(p)
    BY <2>4, PhaseIInv, Zenon DEF CreateSucceeds, Phases
  <2>5. CASE AllocPage(p)
    BY <2>5, AllocPageIInv
  <2>6. CASE LoadFails(p)
    BY <2>6, PhaseIInv, Zenon DEF LoadFails, Phases
  <2>7. CASE MapPage(p)
    BY <2>7, MapIntoTableIInv, MapIntoNewTableIInv, Zenon DEF MapPage, Known, Unknown
  <2>8. CASE MapPanics(p)
    <3>1. Identity' /\ Ownership'
      BY <2>8, Unmoved DEF MapPanics, procVars, Live
    <3> QED BY <2>8, <3>1 DEF MapPanics, procVars, IInv, TypeOK, OneBuilder, Building
  <2>9. CASE LoadSucceeds(p)
    BY <2>9, PhaseIInv, Zenon DEF LoadSucceeds, Phases
  <2>10. CASE Exit(p)
    BY <2>10, PhaseIInv, Zenon DEF Exit, Phases
  <2> QED BY <1>2, <2>1, <2>2, <2>3, <2>4, <2>5, <2>6, <2>7, <2>8, <2>9, <2>10 DEF BuildStep
<1> QED BY <1>1, <1>2 DEF Next

LEMMA Invariance == Spec => []IInv
  BY InitIInv, StepIInv, PTL DEF Spec

\* No frame has two owners: whenever process_free runs, what it gives back
\* belongs to that process alone, for any number of processes, frames and pages.
THEOREM FramesHaveOneOwner == Spec => []OwnershipDisjoint
<1>1. IInv => OwnershipDisjoint
  <2> SUFFICES ASSUME IInv, NEW p \in Live
               PROVE  /\ PdFrames(p) \cup StackFrames(p) \subseteq used \ {frame}
                      /\ PdFrames(p) \cap StackFrames(p) = {}
                      /\ \A q \in Live \ {p} :
                           (PdFrames(p) \cup StackFrames(p)) \cap (PdFrames(q) \cup StackFrames(q)) = {}
    BY DEF OwnershipDisjoint
  <2> USE DEF IInv
  <2>1. PICK owner \in [Frames -> Procs \cup {"nobody"}], role \in [Frames -> Roles] : Owned(owner, role)
    BY DEF Ownership
  <2>2. /\ \A f \in PdFrames(p) : f \in used /\ owner[f] = p /\ role[f] \in {"pd", "table", "page"}
        /\ \A f \in StackFrames(p) : f \in used /\ owner[f] = p /\ role[f] = "stack"
    BY <2>1, HeldOwn
  <2>3. \A f \in used : f = frame => role[f] = "loader"
    BY <2>1, FramesApart DEF Owned, TypeOK
  <2>4. \A q \in Live \ {p} : \A f \in PdFrames(q) \cup StackFrames(q) : owner[f] = q
    BY <2>1, HeldOwn
  <2> QED BY <2>2, <2>3, <2>4
<1> QED BY <1>1, Invariance, PTL

\* Whatever is built, loaded and freed, every page directory maps the kernel, and
\* lets ring 3 into no page of the window that no image has.
THEOREM KernelAlwaysMapped == Spec => []KernelMapped
<1>1. IInv => KernelMapped
  <2> SUFFICES ASSUME IInv, NEW p \in Live
               PROVE  /\ \A i \in 0..(IDENTITY_PT_COUNT - 1) : mem[cr3[p]][i].frame = IdentityPt(i)
                      /\ \A v \in Window :
                           Walk(cr3[p], v).user => \E image \in Images : v \in {image[i] : i \in DOMAIN image}
    BY DEF KernelMapped
  <2> USE DEF IInv
  <2>1. \A i \in Tables : mem[cr3[p]][i].frame = IdentityPt(i)
    BY DEF Ownership, Owned, Names
  <2>2. ASSUME NEW v \in Window, v \notin Pages PROVE ~Walk(cr3[p], v).user
    <3> DEFINE t == v \div ENTRIES
               i == v % ENTRIES
    <3>1. t \in Tables /\ i \in Index /\ v = t * ENTRIES + i
      BY WindowPlace
    <3> HIDE DEF t, i
    <3>2. mem[cr3[p]][t].frame = IdentityPt(t) /\ mem[IdentityPt(t)][i] = Entry(v, FALSE)
      BY <3>1, <2>1, <2>2, Zenon DEF Identity
    <3> QED BY <3>2 DEF Walk, Pde, Entry, NotPresent, t, i
  <2>3. \A v \in Pages : \E image \in Images : v \in {image[i] : i \in DOMAIN image}
    BY DEF Pages
  <2> QED BY <2>1, <2>2, <2>3 DEF Tables
<1> QED BY <1>1, Invariance, PTL
----------------------------------------------------------------------------
(* Pages above the window *)

\* The frame the CPU finds, for pages whose table is there.
FrameAt(p, v) == mem[mem[cr3[p]][v \div ENTRIES].frame][v % ENTRIES].frame
HasTable(p, v) == Present(mem[cr3[p]][v \div ENTRIES])

\* Above the window the step maps one page of p to f and moves no other page.
MovesOnly(p, page, f) ==
  /\ \A q \in Live, v \in Pages :
       v \notin Window /\ HasTable(q, v) /\ (q # p \/ v # page)
         => HasTable(q, v)' /\ FrameAt(q, v)' = FrameAt(q, v)
  /\ page \notin Window => HasTable(p, page)' /\ FrameAt(p, page)' = f

LEMMA MapPageMoves ==
  ASSUME NEW p \in Live, NEW page \in Pages, NEW f,
         Moves(p, page \div ENTRIES, page % ENTRIES, f)
  PROVE  MovesOnly(p, page, f)
<1>1. PICK a, b : a = page \div ENTRIES /\ b = page % ENTRIES /\ Moves(p, a, b, f)
  OBVIOUS
<1>2. page = a * ENTRIES + b
  <2>1. ENTRIES \in Nat \ {0} /\ page \in Nat
    BY AddressSpaceAssumption, PagesElsewhere
  <2> QED BY <1>1, <2>1, DivMod, Zenon
<1>3. ASSUME NEW q \in Live, NEW v \in Pages,
             v \notin Window, HasTable(q, v), q # p \/ v # page
      PROVE  HasTable(q, v)' /\ FrameAt(q, v)' = FrameAt(q, v)
  <2>1. PICK vi \in Private, vj \in Index :
          vi = v \div ENTRIES /\ vj = v % ENTRIES /\ v = vi * ENTRIES + vj
    BY <1>3, AboveWindow
  <2>2. q # p \/ vi # a \/ vj # b
    BY <1>2, <1>3, <2>1, Zenon
  <2>3. /\ HasTable(q, v) = Present(TableAt(q, vi)) /\ HasTable(q, v)' = Present(TableAt(q, vi))'
        /\ FrameAt(q, v) = EntryAt(q, vi, vj).frame /\ FrameAt(q, v)' = EntryAt(q, vi, vj)'.frame
    BY <2>1, Zenon DEF HasTable, FrameAt, TableAt, EntryAt
  <2>4. EntryAt(q, vi, vj)' = EntryAt(q, vi, vj)
    BY <1>1, <1>3, <2>2, <2>3, Zenon DEF Moves
  <2>5. CASE q = p /\ vi = a
    <3>1. Present(TableAt(p, a))'
      BY <1>1, <2>5, Zenon DEF Moves
    <3> QED BY <2>3, <2>4, <2>5, <3>1, Zenon DEF TableAt
  <2>6. CASE q # p \/ vi # a
    <3>1. TableAt(q, vi)' = TableAt(q, vi)
      BY <1>1, <2>6, Zenon DEF Moves
    <3> QED BY <1>3, <2>3, <2>4, <3>1, Zenon DEF Present
  <2> QED BY <2>5, <2>6
<1>4. ASSUME page \notin Window PROVE HasTable(p, page)' /\ FrameAt(p, page)' = f
  <2>1. a \in Private
    BY <1>1, <1>4, AboveWindow
  <2>2. Present(TableAt(p, a))' /\ EntryAt(p, a, b)' = Entry(f, TRUE)
    BY <1>1, <2>1, Zenon DEF Moves
  <2>3. HasTable(p, page)' = Present(TableAt(p, a))' /\ FrameAt(p, page)' = EntryAt(p, a, b)'.frame
    BY <1>1, Zenon DEF HasTable, FrameAt, TableAt, EntryAt
  <2>4. Entry(f, TRUE).frame = f
    BY DEF Entry
  <2> QED BY <2>2, <2>3, <2>4, Zenon
<1> QED BY <1>3, <1>4 DEF MovesOnly

\* What was loaded last is what the CPU finds.
Kept ==
  /\ loaded \in [Procs -> Seq(Pages \X Nat)]
  /\ \A p \in Live : \A m \in Loaded(p) :
       m[1] \notin Window => HasTable(p, m[1]) /\ FrameAt(p, m[1]) = m[2]

\* A mapping replaces those of the same page, and no others.
LEMMA LoadedAppend ==
  ASSUME NEW p \in Procs, loaded \in [Procs -> Seq(Pages \X Nat)],
         NEW e \in Pages \X Nat, loaded' = [loaded EXCEPT ![p] = Append(@, e)],
         NEW m \in Loaded(p)'
  PROVE  m = e \/ (m \in Loaded(p) /\ m[1] # e[1])
<1> DEFINE L == loaded[p]
           A == Append(L, e)
<1>1. L \in Seq(Pages \X Nat) /\ loaded'[p] = A
  OBVIOUS
<1>2. PICK i \in DOMAIN A : m = A[i] /\ \A k \in (i + 1)..Len(A) : A[k][1] # A[i][1]
  BY <1>1 DEF Loaded
<1>3. /\ Len(A) = Len(L) + 1 /\ DOMAIN A = 1..(Len(L) + 1) /\ DOMAIN L = 1..Len(L)
      /\ A[Len(L) + 1] = e /\ \A k \in 1..Len(L) : A[k] = L[k]
  BY <1>1
<1>4. Len(L) \in Nat
  BY <1>1
<1> HIDE DEF A, L
<1>5. CASE i = Len(L) + 1
  BY <1>2, <1>3, <1>5
<1>6. CASE i # Len(L) + 1
  <2>1. i \in 1..Len(L) /\ m = L[i]
    BY <1>2, <1>3, <1>4, <1>6
  <2>2. \A k \in (i + 1)..Len(L) : L[k][1] # L[i][1]
    <3> SUFFICES ASSUME NEW k \in (i + 1)..Len(L) PROVE L[k][1] # L[i][1]
      OBVIOUS
    <3>1. k \in (i + 1)..Len(A) /\ k \in 1..Len(L)
      BY <2>1, <1>3, <1>4
    <3> QED BY <3>1, <2>1, <1>2, <1>3
  <2>3. e[1] # m[1]
    <3>1. Len(L) + 1 \in (i + 1)..Len(A)
      BY <2>1, <1>3, <1>4
    <3> QED BY <3>1, <1>2, <1>3
  <2>4. m \in {L[j] : j \in {k \in DOMAIN L : \A n \in (k + 1)..Len(L) : L[n][1] # L[k][1]}}
    BY <2>1, <2>2, <1>3
  <2> QED BY <2>3, <2>4 DEF Loaded, L
<1> QED BY <1>5, <1>6

\* Every mapping is one of an image's pages.
LEMMA LoadedPages ==
  ASSUME NEW p \in Procs, loaded \in [Procs -> Seq(Pages \X Nat)]
  PROVE  \A m \in Loaded(p) : m \in Pages \X Nat
  BY DEF Loaded

\* A process whose directory and tables stay keeps its pages.
LEMMA KeptUnmoved ==
  ASSUME IInv, Kept, NEW q \in Live, cr3'[q] = cr3[q], loaded'[q] = loaded[q],
         \A g \in used : mem'[g] = mem[g]
  PROVE  \A m \in Loaded(q)' :
           m[1] \notin Window => HasTable(q, m[1])' /\ FrameAt(q, m[1])' = m[2]
<1> SUFFICES ASSUME NEW m \in Loaded(q)', m[1] \notin Window
             PROVE  HasTable(q, m[1])' /\ FrameAt(q, m[1])' = m[2]
  OBVIOUS
<1> USE DEF IInv
<1>1. m \in Loaded(q) /\ q \in Procs
  BY DEF Loaded, Live
<1>2. m[1] \in Pages /\ HasTable(q, m[1]) /\ FrameAt(q, m[1]) = m[2]
  BY <1>1, LoadedPages DEF Kept
<1>3. m[1] \div ENTRIES \in Private
  BY <1>2, AboveWindow
<1>4. PICK owner \in [Frames -> Procs \cup {"nobody"}], role \in [Frames -> Roles] : Owned(owner, role)
  BY DEF Ownership
<1>5. cr3[q] \in used /\ mem[cr3[q]][m[1] \div ENTRIES].frame \in used
  BY <1>2, <1>3, <1>4, Zenon DEF Owned, Names, Has, HasTable
<1> QED BY <1>2, <1>5, Zenon DEF HasTable, FrameAt

LEMMA KeptStep ==
  ASSUME IInv, Kept, [Next]_vars
  PROVE  Kept'
<1> USE DEF IInv
<1>1. ASSUME UNCHANGED <<mem, cr3, loaded>>, Live' = Live
      PROVE  Kept'
  <2>1. \A p, v : /\ Loaded(p)' = Loaded(p) /\ HasTable(p, v)' = HasTable(p, v)
                  /\ FrameAt(p, v)' = FrameAt(p, v)
    BY <1>1 DEF Loaded, HasTable, FrameAt
  <2> QED BY <1>1, <2>1 DEF Kept
<1>2. CASE UNCHANGED vars
  BY <1>1, <1>2 DEF vars, procVars, Live
<1>3. ASSUME NEW p \in Procs, BuildStep(p) \/ Exit(p) \/ ProcessFree(p)
      PROVE  Kept'
  <2>1. ASSUME NEW image \in Images, CreatePd(p, image) PROVE Kept'
    <3>1. PICK f \in Frames : f = Alloc /\ f \notin used /\ Deref(f) = f /\ f \in Window
      BY <2>1, AllocFree, DerefFrame, FramesApart DEF CreatePd
    <3>2. \A g \in used : mem'[g] = mem[g]
      BY <2>1, <3>1, FramesApart DEF CreatePd, TypeOK
    <3>3. loaded' \in [Procs -> Seq(Pages \X Nat)] /\ loaded'[p] = <<>>
      BY <2>1 DEF CreatePd, Kept
    <3>4. ASSUME NEW q \in Live', q # p
          PROVE  q \in Live /\ cr3'[q] = cr3[q] /\ loaded'[q] = loaded[q]
      BY <2>1, <3>4 DEF CreatePd, Live, TypeOK, Kept
    <3>5. Loaded(p)' = {}
      BY <3>3 DEF Loaded
    <3> QED BY <3>2, <3>3, <3>4, <3>5, KeptUnmoved, Zenon DEF Kept
  <2>2. CASE Release(p)
    <3>1. loaded' \in [Procs -> Seq(Pages \X Nat)]
      BY <2>2 DEF Release, Kept
    <3>2. ASSUME NEW q \in Live'
          PROVE  q \in Live /\ cr3'[q] = cr3[q] /\ loaded'[q] = loaded[q] /\ mem' = mem
      BY <2>2, <3>2 DEF Release, Live, TypeOK, Kept
    <3> QED BY <3>1, <3>2, KeptUnmoved, Zenon DEF Kept
  <2>3. CASE MapPage(p)
    <3>1. PICK page \in Pages, f \in Nat :
            page = Head(todo[p]) /\ f = frame /\ p \in Live /\ Live' = Live
      <4>1. todo[p] # <<>> /\ todo[p] \in Seq(Pages)
        BY <2>3 DEF MapPage, OneBuilder, TypeOK
      <4> QED BY <2>3, <4>1 DEF MapPage, TypeOK, Live
    <3>2. MovesOnly(p, page, f)
      <4>1. Moves(p, page \div ENTRIES, page % ENTRIES, f)
        BY <2>3, <3>1, MapIntoTableIInv, MapIntoNewTableIInv, Zenon DEF MapPage, Known, Unknown
      <4> QED BY <3>1, <4>1, MapPageMoves
    <3>3. loaded' = [loaded EXCEPT ![p] = Append(@, <<page, f>>)]
      BY <2>3, <3>1, Zenon DEF MapPage
    <3>4. loaded' \in [Procs -> Seq(Pages \X Nat)]
      BY <3>3 DEF Kept
    <3>5. ASSUME NEW q \in Live, NEW m \in Loaded(q)', m[1] \notin Window
          PROVE  HasTable(q, m[1])' /\ FrameAt(q, m[1])' = m[2]
      <4>1. CASE q = p /\ m = <<page, f>>
        BY <3>2, <3>5, <4>1 DEF MovesOnly
      <4>2. CASE ~(q = p /\ m = <<page, f>>)
        <5>1. m \in Loaded(q) /\ (q # p \/ m[1] # page)
          <6>1. CASE q = p
            <7>1. m \in Loaded(p)' /\ <<page, f>> \in Pages \X Nat /\ <<page, f>>[1] = page
              BY <3>5, <6>1 DEF Loaded
            <7>2. m = <<page, f>> \/ (m \in Loaded(p) /\ m[1] # <<page, f>>[1])
              BY <3>3, <7>1, LoadedAppend, Zenon DEF Kept
            <7> QED BY <4>2, <6>1, <7>1, <7>2
          <6>2. CASE q # p
            BY <3>3, <6>2, ZenonT(30) DEF Kept, Loaded, Live
          <6> QED BY <6>1, <6>2
        <5>2. m[1] \in Pages /\ HasTable(q, m[1]) /\ FrameAt(q, m[1]) = m[2]
          BY <3>5, <5>1, LoadedPages DEF Kept, Live
        <5> QED BY <3>2, <3>5, <5>1, <5>2 DEF MovesOnly
      <4> QED BY <4>1, <4>2
    <3> QED BY <3>1, <3>4, <3>5 DEF Kept
  <2>4. CASE AllocStackLo(p) \/ AllocStackHi(p)
    BY <1>1, <2>4 DEF AllocStackLo, AllocStackHi, Live, TypeOK
  <2>5. CASE CreateSucceeds(p) \/ LoadFails(p) \/ LoadSucceeds(p) \/ Exit(p)
    BY <1>1, <2>5 DEF CreateSucceeds, LoadFails, LoadSucceeds, Exit, Live, TypeOK
  <2>6. CASE AllocPage(p)
    BY <1>1, <2>6 DEF AllocPage, Live, TypeOK
  <2>7. CASE MapPanics(p)
    BY <1>1, <2>7 DEF MapPanics, procVars, Live
  <2> QED BY <1>3, <2>1, <2>2, <2>3, <2>4, <2>5, <2>6, <2>7
          DEF BuildStep, CreateFails, ProcessFree
<1> QED BY <1>2, <1>3 DEF Next

\* Above the window an address space is private: a page stays mapped to the
\* frame loaded for it last, whatever is built, mapped or freed elsewhere.
THEOREM PagesStayPrivate == Spec => []PrivatePagesKept
<1>1. Init => Kept
  BY DEF Init, Kept, Live
<1>2. Kept => PrivatePagesKept
  BY Zenon DEF Kept, PrivatePagesKept, HasTable, FrameAt, Walk, Pde
<1>3. Spec => []Kept
  BY <1>1, Invariance, KeptStep, PTL DEF Spec
<1> QED BY <1>2, <1>3, PTL

----------------------------------------------------------------------------
(* No frame is lost *)

Holds(p, i, j) == Present(TableAt(p, i)) /\ Present(EntryAt(p, i, j))

OwnsTable(p, g) == \E i \in Private : Present(TableAt(p, i)) /\ g = TableAt(p, i).frame
OwnsPage(p, g) == \E i \in Private, j \in Index : Holds(p, i, j) /\ g = EntryAt(p, i, j).frame
OwnsStack(p, g) == g # NoFrame /\ g \in {stack[p][1], stack[p][2]}

\* The frame g is one process_free gives back for p.
Owns(p, g) == g = cr3[p] \/ OwnsTable(p, g) \/ OwnsPage(p, g) \/ OwnsStack(p, g)

\* A process maps a frame once.
MappedOnce(p) ==
  \A i \in Private, j \in Index, k \in Private, l \in Index :
    Holds(p, i, j) /\ Holds(p, k, l) /\ EntryAt(p, i, j).frame = EntryAt(p, k, l).frame
      => i = k /\ j = l

\* A frame in use is owned, in the loader's hands or lost, and a lost one is
\* neither of the others.
Covered ==
  \A g : g \in used <=> (\E p \in Live : Owns(p, g)) \/ (g = frame /\ g # NoFrame) \/ g \in lost
LostApart ==
  /\ frame \notin lost
  /\ \A p \in Live, g \in lost : ~Owns(p, g)

\* What a process under construction does not have yet.
NotYet ==
  /\ \A p \in Procs :
       /\ phase[p] = "lo" => stack[p] = <<NoFrame, NoFrame>>
       /\ phase[p] = "hi" => stack[p][2] = NoFrame
  /\ frame # NoFrame => \E p \in Procs : phase[p] = "map"

Accounted == Covered /\ LostApart /\ NotYet /\ \A p \in Live : MappedOnce(p)

\* The tables and pages of a process are frames it owns.
LEMMA PlacesOwned ==
  ASSUME IInv, NEW owner, NEW role, Owned(owner, role), NEW p \in Live
  PROVE  /\ Has(owner, role, cr3[p], p, "pd")
         /\ \A i \in Private : Present(TableAt(p, i)) => Has(owner, role, TableAt(p, i).frame, p, "table")
         /\ \A i \in Private, j \in Index :
              Holds(p, i, j) => Has(owner, role, EntryAt(p, i, j).frame, p, "page")
<1>1. Names(owner, role, p)
  BY DEF Owned
<1>2. /\ Has(owner, role, cr3[p], p, "pd")
      /\ \A i \in Private : Present(TableAt(p, i)) => Has(owner, role, TableAt(p, i).frame, p, "table")
  BY <1>1, Zenon DEF Names, TableAt
<1>3. ASSUME NEW i \in Private, NEW j \in Index, Holds(p, i, j)
      PROVE  Has(owner, role, EntryAt(p, i, j).frame, p, "page")
  <2>1. PICK t : t = TableAt(p, i).frame /\ Has(owner, role, t, p, "table")
    BY <1>2, <1>3, Zenon DEF Holds
  <2>2. Maps(owner, role, t) /\ owner[t] = p
    BY <2>1, Zenon DEF Owned, Has
  <2>3. EntryAt(p, i, j) = mem[t][j]
    BY <2>1, Zenon DEF EntryAt, TableAt
  <2> QED BY <1>3, <2>2, <2>3, Zenon DEF Maps, Holds
<1> QED BY <1>2, <1>3, Zenon

\* What paging_free_pd and the stack frames amount to.
LEMMA HeldIs ==
  ASSUME IInv, NEW p \in Live
  PROVE  \A g : g \in PdFrames(p) \cup StackFrames(p) <=> Owns(p, g)
<1> USE DEF IInv
<1>1. PICK owner \in [Frames -> Procs \cup {"nobody"}], role \in [Frames -> Roles] : Owned(owner, role)
  BY DEF Ownership
<1>2. /\ Has(owner, role, cr3[p], p, "pd")
      /\ \A i \in Private : Present(TableAt(p, i)) => Has(owner, role, TableAt(p, i).frame, p, "table")
  BY <1>1, PlacesOwned, Zenon
<1>3. Deref(cr3[p]) = cr3[p]
  BY <1>2, DerefFrame, Zenon DEF Has, TypeOK
<1>4. \A t : t \in PrivateTables(p) <=> \E i \in Private : Present(TableAt(p, i)) /\ t = TableAt(p, i).frame
  BY <1>3, Zenon DEF PrivateTables, TableAt, Private
<1>5. \A t \in PrivateTables(p) : Deref(t) = t
  <2> SUFFICES ASSUME NEW t \in PrivateTables(p)
               PROVE  Deref(t) = t
    OBVIOUS
  <2>1. PICK i \in Private : Present(TableAt(p, i)) /\ t = TableAt(p, i).frame
    BY <1>4, Zenon
  <2>2. t \in used
    BY <1>2, <2>1, Zenon DEF Has
  <2>3. t \in Frames
    BY <2>2 DEF TypeOK
  <2> QED BY <2>3, DerefFrame
<1>6. \A g : g \in PrivatePages(p) <=>
        \E t \in PrivateTables(p) : \E j \in Index : Present(mem[t][j]) /\ g = mem[t][j].frame
  BY <1>5 DEF PrivatePages
<1>7. \A i \in Private, j \in Index : EntryAt(p, i, j) = mem[TableAt(p, i).frame][j]
  BY Zenon DEF EntryAt, TableAt
<1>8. \A g : g \in PrivatePages(p) <=>
        \E i \in Private, j \in Index : Holds(p, i, j) /\ g = EntryAt(p, i, j).frame
  <2> TAKE g
  <2>1. ASSUME NEW t \in PrivateTables(p), NEW j \in Index, Present(mem[t][j]), g = mem[t][j].frame
        PROVE  \E i \in Private, k \in Index : Holds(p, i, k) /\ g = EntryAt(p, i, k).frame
    <3>1. PICK i \in Private : Present(TableAt(p, i)) /\ t = TableAt(p, i).frame
      BY <1>4, Zenon
    <3>2. EntryAt(p, i, j) = mem[t][j]
      BY <1>7, <3>1, Zenon
    <3> QED BY <2>1, <3>1, <3>2, Zenon DEF Holds
  <2>2. ASSUME NEW i \in Private, NEW j \in Index, Holds(p, i, j), g = EntryAt(p, i, j).frame
        PROVE  \E t \in PrivateTables(p) : \E k \in Index : Present(mem[t][k]) /\ g = mem[t][k].frame
    <3>1. PICK t : t = TableAt(p, i).frame
      OBVIOUS
    <3>2. t \in PrivateTables(p)
      BY <1>4, <2>2, <3>1, Zenon DEF Holds
    <3>3. EntryAt(p, i, j) = mem[t][j]
      BY <1>7, <3>1, Zenon
    <3> QED BY <2>2, <3>2, <3>3, Zenon DEF Holds
  <2> QED BY <1>6, <2>1, <2>2, Zenon
<1>9. \A g : g \in StackFrames(p) <=> g # NoFrame /\ g \in {stack[p][1], stack[p][2]}
  BY Zenon DEF StackFrames
<1> QED BY <1>4, <1>8, <1>9, Zenon DEF PdFrames, Owns, OwnsTable, OwnsPage, OwnsStack

\* What a process owns is in use, not with the loader, and its alone.
LEMMA OwnsRole ==
  ASSUME IInv, NEW owner, owner \in [Frames -> Procs \cup {"nobody"}],
         NEW role, role \in [Frames -> Roles], Owned(owner, role),
         NEW p \in Live, NEW g, Owns(p, g)
  PROVE  g \in used /\ owner[g] = p /\ role[g] \in {"pd", "table", "page", "stack"}
<1>1. g \in PdFrames(p) \cup StackFrames(p)
  BY HeldIs, Zenon
<1>2. TypeOK /\ Identity
  BY DEF IInv
<1>3. g \in PdFrames(p) \/ g \in StackFrames(p)
  BY <1>1
<1>4. /\ \A f \in PdFrames(p) : f \in used /\ owner[f] = p /\ role[f] \in {"pd", "table", "page"}
      /\ \A f \in StackFrames(p) : f \in used /\ owner[f] = p /\ role[f] = "stack"
  BY <1>2, HeldOwn
<1> QED BY <1>3, <1>4

LEMMA OwnsDisjoint ==
  ASSUME IInv, NEW p \in Live, NEW g, Owns(p, g)
  PROVE  g \in used /\ g # frame /\ \A q \in Live : Owns(q, g) => q = p
<1>1. PICK owner \in [Frames -> Procs \cup {"nobody"}], role \in [Frames -> Roles] : Owned(owner, role)
  BY DEF IInv, Ownership
<1>2. g \in used /\ owner[g] = p /\ role[g] \in {"pd", "table", "page", "stack"}
  BY <1>1, OwnsRole
<1>3. g # NoFrame
  BY <1>2, FramesApart DEF IInv, TypeOK
<1>4. g # frame
  BY <1>1, <1>2, <1>3 DEF Owned
<1>5. \A q \in Live : Owns(q, g) => owner[g] = q
  BY <1>1, OwnsRole
<1> QED BY <1>2, <1>4, <1>5

\* A page is not a directory, a table or a stack as well.
LEMMA PagesApart ==
  ASSUME IInv, NEW p \in Live, NEW g, OwnsPage(p, g)
  PROVE  g # cr3[p] /\ ~OwnsTable(p, g) /\ ~OwnsStack(p, g)
<1>1. PICK owner \in [Frames -> Procs \cup {"nobody"}], role \in [Frames -> Roles] : Owned(owner, role)
  BY DEF IInv, Ownership
<1>2. role[g] = "page"
  <2>1. PICK i \in Private, j \in Index : Holds(p, i, j) /\ g = EntryAt(p, i, j).frame
    BY Zenon DEF OwnsPage
  <2>2. Has(owner, role, EntryAt(p, i, j).frame, p, "page")
    BY <1>1, <2>1, PlacesOwned, Zenon
  <2> QED BY <2>1, <2>2, Zenon DEF Has
<1>3. role[cr3[p]] = "pd" /\ (OwnsTable(p, g) => role[g] = "table")
  <2>1. /\ Has(owner, role, cr3[p], p, "pd")
        /\ \A i \in Private : Present(TableAt(p, i)) => Has(owner, role, TableAt(p, i).frame, p, "table")
    BY <1>1, PlacesOwned, Zenon
  <2> QED BY <2>1, Zenon DEF OwnsTable, Has
<1>4. OwnsStack(p, g) => role[g] = "stack"
  <2>1. Names(owner, role, p)
    BY <1>1 DEF Owned
  <2>2. \A k \in {1, 2} : stack[p][k] # NoFrame => Has(owner, role, stack[p][k], p, "stack")
    BY <2>1, Zenon DEF Names
  <2>3. \A k \in {1, 2} : stack[p][k] # NoFrame => role[stack[p][k]] = "stack"
    BY <2>2, Zenon DEF Has
  <2>4. stack[p][1] # NoFrame => role[stack[p][1]] = "stack"
    BY <2>3, Zenon
  <2>5. stack[p][2] # NoFrame => role[stack[p][2]] = "stack"
    BY <2>3, Zenon
  <2>6. ASSUME OwnsStack(p, g) PROVE role[g] = "stack"
    <3>1. g # NoFrame /\ (g = stack[p][1] \/ g = stack[p][2])
      BY <2>6 DEF OwnsStack
    <3>2. CASE g = stack[p][1]
      BY <3>1, <3>2, <2>4
    <3>3. CASE g = stack[p][2]
      BY <3>1, <3>3, <2>5
    <3> QED BY <3>1, <3>2, <3>3
  <2> QED BY <2>6
<1> QED BY <1>2, <1>3, <1>4

\* A process whose private entries and stack stay owns what it owned.
LEMMA OwnsKept ==
  ASSUME NEW q, cr3'[q] = cr3[q], stack'[q] = stack[q],
         \A i \in Private : TableAt(q, i)' = TableAt(q, i),
         \A i \in Private, j \in Index : Present(TableAt(q, i)) => EntryAt(q, i, j)' = EntryAt(q, i, j)
  PROVE  /\ \A g : Owns(q, g)' <=> Owns(q, g)
         /\ MappedOnce(q) => MappedOnce(q)'
<1>1. \A i \in Private : Present(TableAt(q, i))' <=> Present(TableAt(q, i))
  BY Zenon DEF Present
<1>2. \A i \in Private, j \in Index : Holds(q, i, j)' <=> Holds(q, i, j)
  BY <1>1, Zenon DEF Holds, Present
<1>3. \A i \in Private, j \in Index : Holds(q, i, j) => EntryAt(q, i, j)' = EntryAt(q, i, j)
  BY Zenon DEF Holds
<1>4. \A g : Owns(q, g)' <=> Owns(q, g)
  <2> TAKE g
  <2>1. OwnsTable(q, g)' <=> OwnsTable(q, g)
    BY <1>1, Zenon DEF OwnsTable
  <2>2. OwnsPage(q, g)' <=> OwnsPage(q, g)
    BY <1>2, <1>3, Zenon DEF OwnsPage
  <2>3. (g = cr3[q])' <=> g = cr3[q]
    OBVIOUS
  <2>4. OwnsStack(q, g)' <=> OwnsStack(q, g)
    BY Zenon DEF OwnsStack, NoFrame
  <2> QED BY <2>1, <2>2, <2>3, <2>4, Zenon DEF Owns
<1>5. ASSUME MappedOnce(q),
             NEW i \in Private, NEW j \in Index, NEW k \in Private, NEW l \in Index,
             Holds(q, i, j)', Holds(q, k, l)', (EntryAt(q, i, j).frame = EntryAt(q, k, l).frame)'
      PROVE  i = k /\ j = l
  <2>1. Holds(q, i, j) /\ Holds(q, k, l)
    BY <1>2, <1>5, Zenon
  <2>2. EntryAt(q, i, j)' = EntryAt(q, i, j) /\ EntryAt(q, k, l)' = EntryAt(q, k, l)
    BY <1>3, <2>1, Zenon
  <2>3. EntryAt(q, i, j).frame = EntryAt(q, k, l).frame
    BY <1>5, <2>2, Zenon
  <2> QED BY <1>5, <2>1, <2>3, Zenon DEF MappedOnce
<1> QED BY <1>4, <1>5, Zenon DEF MappedOnce

\* So does one whose frames keep their contents.
LEMMA OwnsSame ==
  ASSUME IInv, NEW q \in Live, cr3'[q] = cr3[q], stack'[q] = stack[q],
         \A g \in used : mem'[g] = mem[g]
  PROVE  /\ \A g : Owns(q, g)' <=> Owns(q, g)
         /\ MappedOnce(q) => MappedOnce(q)'
<1>1. PICK owner \in [Frames -> Procs \cup {"nobody"}], role \in [Frames -> Roles] : Owned(owner, role)
  BY DEF IInv, Ownership
<1>2. /\ cr3[q] \in used
      /\ \A i \in Private : Present(TableAt(q, i)) => TableAt(q, i).frame \in used
  BY <1>1, PlacesOwned, Zenon DEF Has
<1>3. \A i \in Private : TableAt(q, i)' = TableAt(q, i)
  BY <1>2, Zenon DEF TableAt
<1>4. \A i \in Private, j \in Index : Present(TableAt(q, i)) => EntryAt(q, i, j)' = EntryAt(q, i, j)
  BY <1>2, Zenon DEF TableAt, EntryAt
<1> QED BY <1>3, <1>4, OwnsKept, Zenon

\* A page mapped in a table of p: the frame it replaces is the only one p no
\* longer owns.
LEMMA MapOldOwns ==
  ASSUME IInv, NEW p \in Live, MappedOnce(p), NEW a \in Private, NEW b \in Index, frame # NoFrame,
         Moves(p, a, b, frame), OldTable(p, a), cr3'[p] = cr3[p], stack'[p] = stack[p]
  PROVE  /\ \A g : Owns(p, g)' <=>
              g = frame \/ (Owns(p, g) /\ ~(Holds(p, a, b) /\ g = EntryAt(p, a, b).frame))
         /\ MappedOnce(p)'
<1>1. /\ Present(TableAt(p, a)) /\ Present(TableAt(p, a))' /\ TableAt(p, a)'.frame = TableAt(p, a).frame
      /\ \A i \in Private : i # a => TableAt(p, i)' = TableAt(p, i)
  BY Zenon DEF Moves, OldTable
<1>2. PICK f : f = frame
  OBVIOUS
<1>3. Entry(f, TRUE).frame = f /\ Present(Entry(f, TRUE))
  BY DEF Entry, Present, NotPresent
<1>4. Holds(p, a, b)' /\ EntryAt(p, a, b)'.frame = f
  <2>1. EntryAt(p, a, b)' = Entry(f, TRUE)
    BY <1>2, Zenon DEF Moves
  <2>2. Present(EntryAt(p, a, b))'
    BY <1>3, <2>1, Zenon DEF Present
  <2> QED BY <1>1, <1>3, <2>1, <2>2, Zenon DEF Holds
<1>5. ASSUME NEW i \in Private, NEW j \in Index, i # a \/ j # b
      PROVE  /\ Holds(p, i, j)' <=> Holds(p, i, j)
             /\ Holds(p, i, j) => EntryAt(p, i, j)' = EntryAt(p, i, j)
  <2>1. Present(TableAt(p, i)) => EntryAt(p, i, j)' = EntryAt(p, i, j)
    BY <1>5, Zenon DEF Moves
  <2>2. Present(TableAt(p, i))' <=> Present(TableAt(p, i))
    BY <1>1, Zenon DEF Present
  <2> QED BY <2>1, <2>2, Zenon DEF Holds, Present
<1>6. \A g : OwnsTable(p, g)' <=> OwnsTable(p, g)
  <2>1. \A i \in Private : /\ Present(TableAt(p, i))' <=> Present(TableAt(p, i))
                          /\ TableAt(p, i)'.frame = TableAt(p, i).frame
    BY <1>1, Zenon DEF Present
  <2> QED BY <2>1, Zenon DEF OwnsTable
<1>7. ASSUME NEW g
      PROVE  OwnsPage(p, g)' <=>
               g = f \/ (OwnsPage(p, g) /\ ~(Holds(p, a, b) /\ g = EntryAt(p, a, b).frame))
  <2>1. ASSUME OwnsPage(p, g)', g # f
        PROVE  OwnsPage(p, g) /\ ~(Holds(p, a, b) /\ g = EntryAt(p, a, b).frame)
    <3>1. PICK i \in Private, j \in Index : Holds(p, i, j)' /\ g = EntryAt(p, i, j)'.frame
      BY <2>1, Zenon DEF OwnsPage
    <3>2. i # a \/ j # b
      BY <1>4, <2>1, <3>1, Zenon
    <3>3. Holds(p, i, j) /\ g = EntryAt(p, i, j).frame
      BY <1>5, <3>1, <3>2, Zenon
    <3> QED BY <3>2, <3>3, Zenon DEF MappedOnce, OwnsPage
  <2>2. ASSUME OwnsPage(p, g), ~(Holds(p, a, b) /\ g = EntryAt(p, a, b).frame)
        PROVE  OwnsPage(p, g)'
    <3>1. PICK i \in Private, j \in Index : Holds(p, i, j) /\ g = EntryAt(p, i, j).frame
      BY <2>2, Zenon DEF OwnsPage
    <3>2. i # a \/ j # b
      BY <2>2, <3>1, Zenon
    <3>3. Holds(p, i, j)' /\ g = EntryAt(p, i, j)'.frame
      BY <1>5, <3>1, <3>2, Zenon
    <3> QED BY <3>3, Zenon DEF OwnsPage
  <2>3. g = f => OwnsPage(p, g)'
    BY <1>4, Zenon DEF OwnsPage
  <2> QED BY <2>1, <2>2, <2>3, Zenon
<1>8. \A g : OwnsStack(p, g)' <=> OwnsStack(p, g)
  BY Zenon DEF OwnsStack, NoFrame
<1>9. \A g : Holds(p, a, b) /\ g = EntryAt(p, a, b).frame =>
        g # cr3[p] /\ ~OwnsTable(p, g) /\ ~OwnsStack(p, g)
  BY PagesApart, Zenon DEF OwnsPage
<1>10. \A g : (g = cr3[p])' <=> g = cr3[p]
  OBVIOUS
<1>11. \A g : Owns(p, g)' <=>
         g = f \/ (Owns(p, g) /\ ~(Holds(p, a, b) /\ g = EntryAt(p, a, b).frame))
  BY <1>6, <1>7, <1>8, <1>9, <1>10, Zenon DEF Owns
<1>12. ASSUME NEW i \in Private, NEW j \in Index, Holds(p, i, j) PROVE EntryAt(p, i, j).frame # f
  <2>1. Owns(p, EntryAt(p, i, j).frame)
    BY <1>12, Zenon DEF Owns, OwnsPage
  <2> QED BY <1>2, <2>1, OwnsDisjoint
<1>13. ASSUME NEW i \in Private, NEW j \in Index, NEW k \in Private, NEW l \in Index,
              Holds(p, i, j)', Holds(p, k, l)', (EntryAt(p, i, j).frame = EntryAt(p, k, l).frame)'
       PROVE  i = k /\ j = l
  <2>1. CASE (i # a \/ j # b) /\ (k # a \/ l # b)
    <3>1. Holds(p, i, j) /\ Holds(p, k, l) /\ EntryAt(p, i, j).frame = EntryAt(p, k, l).frame
      BY <1>5, <1>13, <2>1, Zenon
    <3> QED BY <3>1, Zenon DEF MappedOnce
  <2>2. CASE i = a /\ j = b /\ (k # a \/ l # b)
    BY <1>4, <1>5, <1>12, <1>13, <2>2, Zenon
  <2>3. CASE k = a /\ l = b /\ (i # a \/ j # b)
    BY <1>4, <1>5, <1>12, <1>13, <2>3, Zenon
  <2> QED BY <2>1, <2>2, <2>3
<1> QED BY <1>2, <1>11, <1>13, Zenon DEF MappedOnce

\* A page mapped in a new table: p owns the table and the page as well.
LEMMA MapNewOwns ==
  ASSUME IInv, NEW p \in Live, MappedOnce(p), NEW a \in Private, NEW b \in Index, frame # NoFrame,
         Moves(p, a, b, frame), NewTable(p, a, b), cr3'[p] = cr3[p], stack'[p] = stack[p]
  PROVE  /\ \A g : Owns(p, g)' <=> Owns(p, g) \/ g = frame \/ g = Alloc
         /\ MappedOnce(p)'
<1>1. PICK f, t : f = frame /\ t = Alloc
  OBVIOUS
<1>2. /\ ~Present(TableAt(p, a)) /\ Present(TableAt(p, a))' /\ TableAt(p, a)'.frame = t
      /\ \A i \in Private : i # a => TableAt(p, i)' = TableAt(p, i)
  BY <1>1, Zenon DEF Moves, NewTable
<1>3. Entry(f, TRUE).frame = f /\ Present(Entry(f, TRUE))
  BY Zenon DEF Entry, Present, NotPresent
<1>4. Holds(p, a, b)' /\ EntryAt(p, a, b)'.frame = f
  <2>1. EntryAt(p, a, b)' = Entry(f, TRUE)
    BY <1>1, Zenon DEF Moves
  <2>2. Present(EntryAt(p, a, b))'
    BY <1>3, <2>1, Zenon DEF Present
  <2> QED BY <1>2, <1>3, <2>1, <2>2, Zenon DEF Holds
<1>5. \A j \in Index : j # b => ~Holds(p, a, j)'
  BY Zenon DEF NewTable, Holds, Present, NotPresent
<1>6. ASSUME NEW i \in Private, NEW j \in Index, i # a
      PROVE  /\ Holds(p, i, j)' <=> Holds(p, i, j)
             /\ Holds(p, i, j) => EntryAt(p, i, j)' = EntryAt(p, i, j)
  <2>1. Present(TableAt(p, i)) => EntryAt(p, i, j)' = EntryAt(p, i, j)
    BY <1>6, Zenon DEF Moves
  <2>2. Present(TableAt(p, i))' <=> Present(TableAt(p, i))
    BY <1>2, <1>6, Zenon DEF Present
  <2> QED BY <2>1, <2>2, Zenon DEF Holds, Present
<1>7. \A j \in Index : ~Holds(p, a, j)
  BY <1>2, Zenon DEF Holds
<1>8. ASSUME NEW g PROVE OwnsTable(p, g)' <=> OwnsTable(p, g) \/ g = t
  <2>1. \A i \in Private : i # a => (Present(TableAt(p, i))' <=> Present(TableAt(p, i)))
    BY <1>2, Zenon DEF Present
  <2> QED BY <1>2, <2>1, Zenon DEF OwnsTable
<1>9. ASSUME NEW g PROVE OwnsPage(p, g)' <=> OwnsPage(p, g) \/ g = f
  <2>1. ASSUME OwnsPage(p, g)', g # f PROVE OwnsPage(p, g)
    <3>1. PICK i \in Private, j \in Index : Holds(p, i, j)' /\ g = EntryAt(p, i, j)'.frame
      BY <2>1, Zenon DEF OwnsPage
    <3>2. i # a
      BY <1>4, <1>5, <2>1, <3>1, Zenon
    <3> QED BY <1>6, <3>1, <3>2, Zenon DEF OwnsPage
  <2>2. ASSUME OwnsPage(p, g) PROVE OwnsPage(p, g)'
    <3>1. PICK i \in Private, j \in Index : Holds(p, i, j) /\ g = EntryAt(p, i, j).frame
      BY <2>2, Zenon DEF OwnsPage
    <3>2. i # a
      BY <1>7, <3>1, Zenon
    <3> QED BY <1>6, <3>1, <3>2, Zenon DEF OwnsPage
  <2>3. g = f => OwnsPage(p, g)'
    BY <1>4, Zenon DEF OwnsPage
  <2> QED BY <2>1, <2>2, <2>3
<1>10. \A g : /\ OwnsStack(p, g)' <=> OwnsStack(p, g)
              /\ (g = cr3[p])' <=> g = cr3[p]
  BY Zenon DEF OwnsStack, NoFrame
<1>11. \A g : Owns(p, g)' <=> Owns(p, g) \/ g = f \/ g = t
  BY <1>8, <1>9, <1>10, Zenon DEF Owns
<1>12. ASSUME NEW i \in Private, NEW j \in Index, Holds(p, i, j) PROVE EntryAt(p, i, j).frame # f
  <2>1. Owns(p, EntryAt(p, i, j).frame)
    BY <1>12, Zenon DEF Owns, OwnsPage
  <2> QED BY <1>1, <2>1, OwnsDisjoint
<1>13. ASSUME NEW i \in Private, NEW j \in Index, NEW k \in Private, NEW l \in Index,
              Holds(p, i, j)', Holds(p, k, l)', (EntryAt(p, i, j).frame = EntryAt(p, k, l).frame)'
       PROVE  i = k /\ j = l
  <2>1. CASE i # a /\ k # a
    <3>1. Holds(p, i, j) /\ Holds(p, k, l) /\ EntryAt(p, i, j).frame = EntryAt(p, k, l).frame
      BY <1>6, <1>13, <2>1, Zenon
    <3> QED BY <3>1, Zenon DEF MappedOnce
  <2>2. CASE i = a /\ k # a
    BY <1>4, <1>5, <1>6, <1>12, <1>13, <2>2, Zenon
  <2>3. CASE k = a /\ i # a
    BY <1>4, <1>5, <1>6, <1>12, <1>13, <2>3, Zenon
  <2>4. CASE i = a /\ k = a
    BY <1>5, <1>13, <2>4, Zenon
  <2> QED BY <2>1, <2>2, <2>3, <2>4
<1> QED BY <1>1, <1>11, <1>13, Zenon DEF MappedOnce

\* The books after a page is mapped: p gains the frames G and no longer owns S,
\* which is lost.
LEMMA MapBooks ==
  ASSUME IInv, Covered, LostApart, NEW p \in Live, Live' = Live, frame # NoFrame, frame' = NoFrame,
         NEW S, NEW G, lost' = lost \cup S, used' = used \cup G,
         \A q \in Live : \A g : q # p => (Owns(q, g)' <=> Owns(q, g)),
         \A g : Owns(p, g)' <=> (Owns(p, g) /\ g \notin S) \/ g \in G,
         \A g \in S : g \notin G /\ (Owns(p, g) \/ g = frame),
         \A g \in G : g = frame \/ g \notin used,
         frame \in S \/ frame \in G
  PROVE  Covered' /\ LostApart'
<1>1. PICK f : f = frame /\ f # NoFrame /\ f \in used /\ f \notin lost
  BY DEF Covered, LostApart
<1>2. \A g \in lost : g \in used
  BY Zenon DEF Covered
<1>3. \A g : Owns(p, g) => g \in used /\ g # f
  BY <1>1, OwnsDisjoint
<1>4. \A g \in S : g \in used
  BY <1>1, <1>3, Zenon
<1>5. NoFrame \notin used
  BY FramesApart DEF IInv, TypeOK
<1>6. \A q \in Live : \A g : q # p /\ Owns(q, g) => g \in used /\ g # f /\ ~Owns(p, g)
  BY <1>1, OwnsDisjoint
<1>7. LostApart'
  <2>1. NoFrame \notin lost /\ NoFrame \notin S
    BY <1>2, <1>4, <1>5, Zenon
  <2>2. (frame \notin lost)'
    BY <2>1
  <2>3. ASSUME NEW q \in Live, NEW g, g \in lost \/ g \in S, Owns(q, g)' PROVE FALSE
    <3>1. CASE q = p
      BY <1>1, <1>2, <2>3, <3>1, Zenon DEF LostApart
    <3>2. CASE q # p
      BY <1>1, <1>6, <2>3, <3>2, Zenon DEF LostApart
    <3> QED BY <3>1, <3>2
  <2> QED BY <2>2, <2>3 DEF LostApart
<1>8. ASSUME NEW g PROVE g \in used' <=> (\E q \in Live : Owns(q, g)') \/ g \in lost'
  <2>1. ASSUME g \in used PROVE (\E q \in Live : Owns(q, g)') \/ g \in lost'
    <3>1. CASE g = f
      BY <1>1, <3>1
    <3>2. ASSUME NEW q \in Live, Owns(q, g) PROVE (\E r \in Live : Owns(r, g)') \/ g \in lost'
      <4>1. CASE q = p
        BY <3>2, <4>1
      <4>2. CASE q # p
        BY <3>2, <4>2, Zenon
      <4> QED BY <4>1, <4>2
    <3> QED BY <1>1, <2>1, <3>1, <3>2 DEF Covered
  <2>2. g \in G => Owns(p, g)'
    BY Zenon
  <2>3. ASSUME NEW q \in Live, Owns(q, g)' PROVE g \in used'
    <3>1. CASE q = p
      BY <1>3, <2>3, <3>1
    <3>2. CASE q # p
      BY <1>6, <2>3, <3>2
    <3> QED BY <3>1, <3>2
  <2>4. g \in lost' => g \in used'
    BY <1>2, <1>4
  <2> QED BY <2>1, <2>2, <2>3, <2>4
<1>9. Covered'
  BY <1>8 DEF Covered
<1> QED BY <1>7, <1>9

LEMMA MapPageAccounted ==
  ASSUME IInv, Accounted, NEW p \in Procs, MapPage(p)
  PROVE  Accounted'
<1>1. PICK owner \in [Frames -> Procs \cup {"nobody"}], role \in [Frames -> Roles] : Owned(owner, role)
  BY DEF IInv, Ownership
<1>2. PICK page \in Pages, a \in Index, b \in Index, f \in used :
        /\ page = Head(todo[p]) /\ a = page \div ENTRIES /\ b = page % ENTRIES
        /\ f = frame /\ f # NoFrame /\ Deref(cr3[p]) = cr3[p]
  <2>1. phase[p] = "map" => frame # NoFrame
    BY DEF IInv, OneBuilder
  <2>2. /\ Head(todo[p]) \in Pages
        /\ Head(todo[p]) \div ENTRIES \in Index /\ Head(todo[p]) % ENTRIES \in Index
        /\ Deref(cr3[p]) = cr3[p] /\ frame \in used
    BY <1>1, MapPageFacts, Zenon
  <2>3. frame # NoFrame
    BY <2>1, Zenon DEF MapPage
  <2> QED BY <2>2, <2>3
<1>3. /\ p \in Live /\ Live' = Live /\ frame' = NoFrame /\ lost' = lost \cup Stranded(p, page)
      /\ cr3' = cr3 /\ stack' = stack
  BY <1>2 DEF MapPage, Live, IInv, TypeOK
<1>4. (Known(p) \/ Unknown(p)) /\ Moves(p, a, b, f)
  <2>1. Known(p) \/ Unknown(p)
    BY Zenon DEF MapPage, Known, Unknown
  <2> QED BY <1>2, <2>1, MapIntoTableIInv, MapIntoNewTableIInv, Zenon
<1>5. Known(p) => OldTable(p, a) /\ used' = used
  BY <1>2, MapIntoTableIInv, Zenon
<1>6. Unknown(p) => NewTable(p, a, b)
  BY <1>2, MapIntoNewTableIInv, Zenon
<1>7. /\ Covered /\ LostApart /\ NotYet /\ \A q \in Live : MappedOnce(q)
  BY DEF Accounted
<1>8. ASSUME NEW q \in Live, q # p \/ a \notin Private
      PROVE  (\A g : Owns(q, g)' <=> Owns(q, g)) /\ MappedOnce(q)'
  <2>1. /\ \A i \in Private : TableAt(q, i)' = TableAt(q, i)
        /\ \A i \in Private, j \in Index : Present(TableAt(q, i)) => EntryAt(q, i, j)' = EntryAt(q, i, j)
    BY <1>4, <1>8, Zenon DEF Moves
  <2> QED BY <1>3, <1>7, <2>1, OwnsKept
<1>9. \A q \in Live : \A g : q # p => (Owns(q, g)' <=> Owns(q, g))
  BY <1>8, Zenon
<1>10. \A g : Owns(p, g) => g \in used /\ g # f
  BY <1>2, <1>3, OwnsDisjoint
<1>11. Covered' /\ LostApart' /\ MappedOnce(p)'
  <2>1. CASE page \in Window
    <3>1. a \notin Private
      <4>1. a \in Tables
        BY <1>2, <2>1, WindowPlace
      <4> QED BY <4>1, AddressSpaceAssumption DEF Tables, Private
    <3>2. used' = used
      BY <1>4, <1>5, <1>6, <3>1, Zenon DEF NewTable
    <3>3. Stranded(p, page) = {f}
      BY <1>2, <2>1 DEF Stranded
    <3>4. (\A g : Owns(p, g)' <=> Owns(p, g)) /\ MappedOnce(p)'
      BY <1>3, <1>8, <3>1
    <3> DEFINE S == {f}
               G == {}
    <3>5. \A g : Owns(p, g)' <=> (Owns(p, g) /\ g \notin S) \/ g \in G
      BY <1>10, <3>4
    <3>6. lost' = lost \cup S /\ used' = used \cup G
      BY <1>3, <3>2, <3>3
    <3>7. /\ \A g \in S : g \notin G /\ (Owns(p, g) \/ g = frame)
          /\ \A g \in G : g = frame \/ g \notin used
          /\ frame \in S
      BY <1>2
    <3>8. frame # NoFrame
      BY <1>2
    <3> HIDE DEF S, G
    <3>9. Covered' /\ LostApart'
      BY <1>3, <1>7, <1>9, <3>5, <3>6, <3>7, <3>8, MapBooks
    <3> QED BY <3>4, <3>9
  <2>2. CASE page \notin Window
    <3>1. a \in Private
      BY <1>2, <2>2, AboveWindow
    <3>2. Walk(cr3[p], page) = IF Present(TableAt(p, a)) THEN EntryAt(p, a, b) ELSE NotPresent
      BY <1>2, Zenon DEF Walk, Pde, TableAt, EntryAt
    <3>3. Present(Walk(cr3[p], page)) <=> Holds(p, a, b)
      BY <3>2, Zenon DEF Present, Holds
    <3>4. Holds(p, a, b) => Walk(cr3[p], page) = EntryAt(p, a, b)
      BY <3>2, Zenon DEF Holds
    <3>5. Stranded(p, page) = IF Holds(p, a, b) THEN {EntryAt(p, a, b).frame} ELSE {}
      BY <2>2, <3>3, <3>4 DEF Stranded
    <3> DEFINE S == IF Holds(p, a, b) THEN {EntryAt(p, a, b).frame} ELSE {}
    <3>6. \A g : g \in S <=> Holds(p, a, b) /\ g = EntryAt(p, a, b).frame
      BY Zenon
    <3>7. \A g \in S : Owns(p, g)
      BY <3>1, <3>6, Zenon DEF Owns, OwnsPage
    <3>8. lost' = lost \cup S
      BY <1>3, <3>5
    <3>9. frame # NoFrame /\ MappedOnce(p) /\ Moves(p, a, b, frame)
      BY <1>2, <1>3, <1>4, <1>7
    <3> HIDE DEF S
    <3>10. CASE Known(p)
      <4> DEFINE G == {f}
      <4>1. (\A g : Owns(p, g)' <=> g = frame \/ (Owns(p, g) /\ ~(Holds(p, a, b) /\ g = EntryAt(p, a, b).frame)))
            /\ MappedOnce(p)'
        BY <1>3, <1>5, <3>1, <3>9, <3>10, MapOldOwns
      <4>2. \A g : Owns(p, g)' <=> (Owns(p, g) /\ g \notin S) \/ g \in G
        <5>1. \A g : g \in G <=> g = frame
          BY <1>2
        <5> HIDE DEF G
        <5> QED BY <3>6, <4>1, <5>1, Zenon
      <4>3. /\ \A g \in S : g \notin G /\ (Owns(p, g) \/ g = frame)
            /\ \A g \in G : g = frame \/ g \notin used
            /\ frame \in G
        BY <1>2, <1>10, <3>7
      <4>4. used' = used \cup G
        <5>1. f \in used
          BY <1>2, <1>7 DEF Covered
        <5> QED BY <1>5, <3>10, <5>1
      <4> HIDE DEF G
      <4>5. Covered' /\ LostApart'
        BY <1>3, <1>7, <1>9, <3>8, <3>9, <4>2, <4>3, <4>4, MapBooks
      <4> QED BY <4>1, <4>5
    <3>11. CASE Unknown(p)
      <4>1. PICK t : t = Alloc /\ t \notin used /\ used' = used \cup {t} /\ ~Present(TableAt(p, a))
        BY <1>6, <3>11, Zenon DEF NewTable
      <4> DEFINE G == {f, t}
      <4>2. (\A g : Owns(p, g)' <=> Owns(p, g) \/ g = frame \/ g = Alloc) /\ MappedOnce(p)'
        BY <1>3, <1>6, <3>1, <3>9, <3>11, MapNewOwns
      <4>3. \A g : g \notin S
        BY <3>6, <4>1, Zenon DEF Holds
      <4>4. \A g : Owns(p, g)' <=> (Owns(p, g) /\ g \notin S) \/ g \in G
        BY <1>2, <4>1, <4>2, <4>3
      <4>5. /\ \A g \in S : g \notin G /\ (Owns(p, g) \/ g = frame)
            /\ \A g \in G : g = frame \/ g \notin used
            /\ frame \in G
        BY <1>2, <4>1, <4>3
      <4>6. used' = used \cup G
        <5>1. f \in used
          BY <1>2, <1>7 DEF Covered
        <5> QED BY <4>1, <5>1
      <4> HIDE DEF G
      <4>7. Covered' /\ LostApart'
        BY <1>3, <1>7, <1>9, <3>8, <3>9, <4>4, <4>5, <4>6, MapBooks
      <4> QED BY <4>2, <4>7
    <3> QED BY <1>4, <3>10, <3>11
  <2> QED BY <2>1, <2>2
<1>12. NotYet'
  BY <1>3, <1>7 DEF NotYet, MapPage, IInv, TypeOK
<1>13. (\A q \in Live : MappedOnce(q))'
  BY <1>3, <1>8, <1>11
<1> QED BY <1>11, <1>12, <1>13 DEF Accounted

\* A process moves on in its life.
LEMMA AccountedSame ==
  ASSUME IInv, Accounted, UNCHANGED <<used, mem, cr3, stack, frame, lost>>, Live' = Live, NotYet'
  PROVE  Accounted'
<1>1. \A q \in Live : (\A g : Owns(q, g)' <=> Owns(q, g)) /\ (MappedOnce(q) => MappedOnce(q)')
  BY OwnsSame
<1>2. Covered'
  BY <1>1, Zenon DEF Accounted, Covered, NoFrame
<1>3. LostApart'
  BY <1>1, Zenon DEF Accounted, LostApart
<1> QED BY <1>1, <1>2, <1>3 DEF Accounted

\* A new directory is all the process owns.
LEMMA CreatePdAccounted ==
  ASSUME IInv, Accounted, NEW p \in Procs, NEW image \in Images, CreatePd(p, image)
  PROVE  Accounted'
<1>1. PICK f \in Frames : f = Alloc /\ f \notin used /\ Deref(f) = f /\ f \in Window
  BY AllocFree, DerefFrame, FramesApart DEF CreatePd, IInv
<1>2. /\ used' = used \cup {f} /\ cr3'[p] = f /\ stack' = stack /\ frame' = frame /\ lost' = lost
      /\ mem'[f] = UserPd /\ \A g \in used : mem'[g] = mem[g]
  BY <1>1, FramesApart DEF CreatePd, IInv, TypeOK
<1>3. /\ p \notin Live /\ Live' = Live \cup {p} /\ \A q \in Live : cr3'[q] = cr3[q]
      /\ stack[p] = <<NoFrame, NoFrame>>
  BY DEF CreatePd, Live, IInv, TypeOK, OneBuilder
<1>4. \A q \in Live : (\A g : Owns(q, g)' <=> Owns(q, g)) /\ MappedOnce(q)'
  BY <1>2, <1>3, OwnsSame, Zenon DEF Accounted
<1>5. \A i \in Private : ~Present(TableAt(p, i))'
  <2>1. \A i \in Private : UserPd[i] = NotPresent
    BY Parts, AddressSpaceAssumption DEF UserPd, Private
  <2>2. \A i \in Private : TableAt(p, i)' = NotPresent
    BY <1>2, <2>1, Zenon DEF TableAt
  <2> QED BY <2>2, Zenon DEF Present, NotPresent
<1>6. MappedOnce(p)'
  BY <1>5, Zenon DEF MappedOnce, Holds
<1>7. \A g : Owns(p, g)' <=> g = f
  <2>1. \A g : ~OwnsTable(p, g)' /\ ~OwnsPage(p, g)'
    BY <1>5, Zenon DEF OwnsTable, OwnsPage, Holds
  <2>2. stack'[p][1] = NoFrame /\ stack'[p][2] = NoFrame
    BY <1>2, <1>3
  <2>3. \A g : ~OwnsStack(p, g)'
    BY <2>2, Zenon DEF OwnsStack, NoFrame
  <2> QED BY <1>2, <2>1, <2>3, Zenon DEF Owns
<1>8. Covered /\ LostApart /\ NotYet
  BY DEF Accounted
<1>9. Covered'
  <2>1. ASSUME NEW g
        PROVE  g \in used \cup {f} <=>
                 (\E q \in Live \cup {p} : Owns(q, g)') \/ (g = frame /\ g # NoFrame) \/ g \in lost
    <3>1. g \in used <=> (\E q \in Live : Owns(q, g)) \/ (g = frame /\ g # NoFrame) \/ g \in lost
      BY <1>8, Zenon DEF Covered
    <3>2. (\E q \in Live \cup {p} : Owns(q, g)') <=> (\E q \in Live : Owns(q, g)) \/ g = f
      BY <1>4, <1>7, Zenon
    <3> QED BY <3>1, <3>2, Zenon
  <2> QED BY <1>2, <1>3, <2>1, Zenon DEF Covered
<1>10. LostApart'
  <2>1. f \notin lost
    BY <1>1, <1>8 DEF Covered
  <2> QED BY <1>2, <1>3, <1>4, <1>7, <1>8, <2>1 DEF LostApart
<1>11. NotYet'
  <2>1. frame = NoFrame
    BY <1>8, Zenon DEF NotYet, CreatePd, Building
  <2> QED BY <1>2, <1>3, <1>8, <2>1 DEF NotYet, CreatePd, IInv, TypeOK
<1> QED BY <1>3, <1>4, <1>6, <1>9, <1>10, <1>11 DEF Accounted

\* Entries that stay map what they mapped.
LEMMA OwnsMapped ==
  ASSUME NEW p, MappedOnce(p),
         \A i \in Private : TableAt(p, i)' = TableAt(p, i),
         \A i \in Private, j \in Index : EntryAt(p, i, j)' = EntryAt(p, i, j)
  PROVE  MappedOnce(p)'
<1>1. \A i \in Private, j \in Index : Holds(p, i, j)' <=> Holds(p, i, j)
  BY Zenon DEF Holds, Present
<1>2. ASSUME NEW i \in Private, NEW j \in Index, NEW k \in Private, NEW l \in Index,
             Holds(p, i, j)', Holds(p, k, l)', (EntryAt(p, i, j).frame = EntryAt(p, k, l).frame)'
      PROVE  i = k /\ j = l
  BY <1>1, <1>2, Zenon DEF MappedOnce
<1> QED BY <1>2 DEF MappedOnce

\* A stack frame, or none, is added to what the process owns.
LEMMA StackAccounted ==
  ASSUME IInv, Accounted, NEW p \in Live, NEW f, f = NoFrame \/ f \notin used,
         UNCHANGED <<mem, cr3, frame, lost>>, Live' = Live, used' = used \cup Taken(f),
         \A q \in Live : q # p => stack'[q] = stack[q],
         \A g : OwnsStack(p, g)' <=> OwnsStack(p, g) \/ g \in Taken(f),
         NotYet'
  PROVE  Accounted'
<1>1. Covered /\ LostApart
  BY Zenon DEF Accounted
<1>2. \A g : g \in Taken(f) => g \notin used
  BY DEF Taken
<1>3. \A q \in Live : q # p => (\A g : Owns(q, g)' <=> Owns(q, g)) /\ MappedOnce(q)'
  BY OwnsSame, Zenon DEF Accounted
<1>4. /\ \A i \in Private : TableAt(p, i)' = TableAt(p, i)
      /\ \A i \in Private, j \in Index : EntryAt(p, i, j)' = EntryAt(p, i, j)
  BY Zenon DEF TableAt, EntryAt
<1>5. /\ \A i \in Private : Present(TableAt(p, i))' <=> Present(TableAt(p, i))
      /\ \A i \in Private, j \in Index : Holds(p, i, j)' <=> Holds(p, i, j)
  BY <1>4, Zenon DEF Holds, Present
<1>6. \A g : /\ OwnsTable(p, g)' <=> OwnsTable(p, g)
             /\ OwnsPage(p, g)' <=> OwnsPage(p, g)
             /\ (g = cr3[p])' <=> g = cr3[p]
  BY <1>4, <1>5, Zenon DEF OwnsTable, OwnsPage
<1>7. \A g : Owns(p, g)' <=> Owns(p, g) \/ g \in Taken(f)
  BY <1>6, Zenon DEF Owns
<1>8. MappedOnce(p)'
  <2>1. MappedOnce(p)
    BY DEF Accounted
  <2> QED BY <2>1, <1>4, OwnsMapped, Zenon
<1>9. Covered'
  <2>1. ASSUME NEW g
        PROVE  g \in used \cup Taken(f) <=>
                 (\E q \in Live : Owns(q, g)') \/ (g = frame /\ g # NoFrame) \/ g \in lost
    BY <1>1, <1>3, <1>7, Zenon DEF Covered
  <2> QED BY <2>1 DEF Covered
<1>10. LostApart'
  <2>1. \A g \in lost : g \notin Taken(f)
    BY <1>1, <1>2 DEF Covered
  <2> QED BY <1>1, <1>3, <1>7, <2>1, Zenon DEF LostApart
<1> QED BY <1>3, <1>8, <1>9, <1>10, Zenon DEF Accounted

LEMMA AllocPageAccounted ==
  ASSUME IInv, Accounted, NEW p \in Procs, AllocPage(p)
  PROVE  Accounted'
<1>1. PICK f : f = Alloc /\ f \notin used /\ f # NoFrame
  BY AllocFree DEF AllocPage, IInv
<1>2. /\ used' = used \cup {f} /\ frame' = f /\ Live' = Live
      /\ mem' = mem /\ cr3' = cr3 /\ stack' = stack /\ lost' = lost
  BY <1>1 DEF AllocPage, Live, IInv, TypeOK
<1>3. Covered /\ LostApart /\ NotYet
  BY DEF Accounted
<1>4. frame = NoFrame
  <2>1. \A q \in Procs : phase[q] # "map"
    BY DEF AllocPage, IInv, OneBuilder, Building
  <2> QED BY <1>3, <2>1 DEF NotYet
<1>5. \A q \in Live : (\A g : Owns(q, g)' <=> Owns(q, g)) /\ MappedOnce(q)'
  BY <1>2, OwnsSame DEF Accounted
<1>6. Covered'
  <2>1. ASSUME NEW g
        PROVE  g \in used \cup {f} <=>
                 (\E q \in Live : Owns(q, g)') \/ (g = f /\ g # NoFrame) \/ g \in lost
    BY <1>1, <1>3, <1>4, <1>5 DEF Covered
  <2> QED BY <1>2, <2>1 DEF Covered
<1>7. LostApart'
  <2>1. f \notin lost
    BY <1>1, <1>3 DEF Covered
  <2> QED BY <1>2, <1>3, <1>5, <2>1 DEF LostApart
<1>8. NotYet'
  BY <1>2, <1>3 DEF NotYet, AllocPage, IInv, TypeOK
<1> QED BY <1>2, <1>5, <1>6, <1>7, <1>8 DEF Accounted

\* process_free frees what the process owned, and nothing else.
LEMMA ReleaseAccounted ==
  ASSUME IInv, Accounted, NEW p \in Procs, phase[p] # "none", phase[p] # "map", Release(p)
  PROVE  Accounted'
<1>1. /\ p \in Live /\ Live' = Live \ {p} /\ frame' = frame /\ lost' = lost
      /\ used' = used \ (PdFrames(p) \cup StackFrames(p)) /\ mem' = mem
      /\ \A q \in Live' : cr3'[q] = cr3[q] /\ stack'[q] = stack[q]
  BY DEF Release, Live, IInv, TypeOK
<1>2. \A g : g \in used' <=> g \in used /\ ~Owns(p, g)
  <2>1. \A g : g \in PdFrames(p) \cup StackFrames(p) <=> Owns(p, g)
    BY <1>1, HeldIs, Zenon
  <2> QED BY <1>1, <2>1, Zenon
<1>3. Covered /\ LostApart /\ NotYet
  BY DEF Accounted
<1>4. \A q \in Live' : (\A g : Owns(q, g)' <=> Owns(q, g)) /\ MappedOnce(q)'
  BY <1>1, OwnsSame, Zenon DEF Accounted
<1>5. Covered'
  <2>1. ASSUME NEW g
        PROVE  g \in used /\ ~Owns(p, g) <=>
                 (\E q \in Live' : Owns(q, g)') \/ (g = frame /\ g # NoFrame) \/ g \in lost
    <3>1. \A q \in Live' : Owns(q, g) => ~Owns(p, g)
      BY <1>1, OwnsDisjoint, Zenon
    <3>2. Owns(p, g) => g # frame
      BY <1>1, OwnsDisjoint
    <3> QED BY <1>1, <1>3, <1>4, <3>1, <3>2, Zenon DEF Covered, LostApart
  <2> QED BY <1>1, <1>2, <2>1, Zenon DEF Covered
<1>6. LostApart'
  BY <1>1, <1>3, <1>4, Zenon DEF LostApart
<1>7. NotYet'
  BY <1>1, <1>3 DEF NotYet, Release, IInv, TypeOK
<1> QED BY <1>1, <1>4, <1>5, <1>6, <1>7, Zenon DEF Accounted

LEMMA AccountedStep ==
  ASSUME IInv, Accounted, [Next]_vars
  PROVE  Accounted'
<1>1. CASE UNCHANGED vars
  BY <1>1, AccountedSame, Zenon DEF vars, procVars, Live, NotYet, Accounted
<1>2. ASSUME NEW p \in Procs, BuildStep(p) \/ Exit(p) \/ ProcessFree(p)
      PROVE  Accounted'
  <2>1. ASSUME NEW image \in Images, CreatePd(p, image) PROVE Accounted'
    BY <2>1, CreatePdAccounted
  <2>2. CASE AllocStackLo(p)
    <3>1. PICK f : f = Alloc /\ (f = NoFrame \/ f \notin used)
      BY AllocFree DEF IInv
    <3>2. /\ p \in Live /\ Live' = Live /\ UNCHANGED <<mem, cr3, frame, lost>>
          /\ used' = used \cup Taken(f) /\ \A q \in Live : q # p => stack'[q] = stack[q]
      BY <2>2, <3>1 DEF AllocStackLo, Live, IInv, TypeOK
    <3>3. stack[p] = <<NoFrame, NoFrame>> /\ stack'[p] = <<f, NoFrame>>
      BY <2>2, <3>1 DEF AllocStackLo, Accounted, NotYet, IInv, TypeOK
    <3>4. \A g : OwnsStack(p, g)' <=> OwnsStack(p, g) \/ g \in Taken(f)
      BY <3>3 DEF OwnsStack, Taken
    <3>5. NotYet'
      BY <2>2, <3>3 DEF AllocStackLo, Accounted, NotYet, IInv, TypeOK
    <3> QED BY <3>1, <3>2, <3>4, <3>5, StackAccounted
  <2>3. CASE AllocStackHi(p)
    <3>1. PICK f : f = Alloc /\ (f = NoFrame \/ f \notin used)
      BY AllocFree DEF IInv
    <3>2. /\ p \in Live /\ Live' = Live /\ UNCHANGED <<mem, cr3, frame, lost>>
          /\ used' = used \cup Taken(f) /\ \A q \in Live : q # p => stack'[q] = stack[q]
      BY <2>3, <3>1 DEF AllocStackHi, Live, IInv, TypeOK
    <3>3. stack[p][2] = NoFrame /\ stack'[p][1] = stack[p][1] /\ stack'[p][2] = f
      BY <2>3, <3>1 DEF AllocStackHi, Accounted, NotYet, IInv, TypeOK
    <3>4. \A g : OwnsStack(p, g)' <=> OwnsStack(p, g) \/ g \in Taken(f)
      BY <3>3 DEF OwnsStack, Taken
    <3>5. NotYet'
      BY <2>3 DEF AllocStackHi, Accounted, NotYet, IInv, TypeOK
    <3> QED BY <3>1, <3>2, <3>4, <3>5, StackAccounted
  <2>4. CASE CreateSucceeds(p) \/ LoadFails(p) \/ LoadSucceeds(p) \/ Exit(p)
    <3>1. UNCHANGED <<used, mem, cr3, stack, frame, lost>> /\ Live' = Live
      BY <2>4 DEF CreateSucceeds, LoadFails, LoadSucceeds, Exit, Live, IInv, TypeOK
    <3>2. NotYet'
      BY <2>4 DEF CreateSucceeds, LoadFails, LoadSucceeds, Exit, NotYet, Accounted, IInv, TypeOK
    <3> QED BY <3>1, <3>2, AccountedSame
  <2>5. CASE AllocPage(p)
    BY <2>5, AllocPageAccounted
  <2>6. CASE MapPage(p)
    BY <2>6, MapPageAccounted
  <2>7. CASE MapPanics(p)
    BY <2>7, AccountedSame, Zenon DEF MapPanics, procVars, Live, NotYet, Accounted
  <2>8. CASE CreateFails(p) \/ ProcessFree(p)
    BY <2>8, ReleaseAccounted DEF CreateFails, ProcessFree
  <2> QED BY <1>2, <2>1, <2>2, <2>3, <2>4, <2>5, <2>6, <2>7, <2>8 DEF BuildStep
<1> QED BY <1>1, <1>2 DEF Next

LEMMA ThreeParts ==
  ASSUME NEW U, NEW A, NEW B, NEW C, \A g : g \in U <=> g \in A \/ g \in B \/ g \in C
  PROVE  U = A \cup B \cup C
  OBVIOUS

\* Every frame marked used can be given back or is one of the two known losses:
\* process_create, elf32_load and process_free leak no other on any path.
THEOREM NoOtherLeak == Spec => []FramesAccounted
<1>1. Init => Accounted
  BY DEF Init, Accounted, Covered, LostApart, NotYet, Live
<1>2. IInv /\ Accounted => FramesAccounted
  <2> SUFFICES ASSUME IInv, Accounted PROVE FramesAccounted
    OBVIOUS
  <2>1. \A p \in Live : \A g : g \in PdFrames(p) \cup StackFrames(p) <=> Owns(p, g)
    BY HeldIs
  <2>2. \A g : g \in Taken(frame) <=> g = frame /\ g # NoFrame
    BY DEF Taken
  <2>3. \A g : g \in used <=> (\E p \in Live : Owns(p, g)) \/ (g = frame /\ g # NoFrame) \/ g \in lost
    BY DEF Accounted, Covered
  <2>4. \A g : g \in UNION {PdFrames(p) \cup StackFrames(p) : p \in Live} <=> \E p \in Live : Owns(p, g)
    BY <2>1, Zenon
  <2>5. \A g : g \in used <=>
          g \in UNION {PdFrames(p) \cup StackFrames(p) : p \in Live} \/ g \in Taken(frame) \/ g \in lost
    BY <2>2, <2>3, <2>4, Zenon
  <2> QED BY <2>5, ThreeParts, Zenon DEF FramesAccounted
<1>3. Spec => []Accounted
  BY <1>1, Invariance, AccountedStep, PTL DEF Spec
<1> QED BY <1>2, <1>3, Invariance, PTL
=============================================================================
