----------------------------- MODULE MCElfLoad -----------------------------
(* ElfLoad for TLC: pages of 4 bytes, addresses of 5 bits.                   *)
EXTENDS ElfLoad

Phdr == [load : BOOLEAN, vaddr : {0, 1, 3, 4, 6, 9, 26, 30}, offset : {0, 2},
         filesz : {0, 1, 3, 6}, memsz : {0, 1, 3, 6}]
SmallPhdr == [load : {TRUE}, vaddr : {1, 3, 4, 6, 9}, offset : {1},
              filesz : {1, 3}, memsz : {1, 3, 6}]
Proper(S) == {ph \in S : ph.filesz <= ph.memsz}

MCImages ==
  [bad : {{}}, phdrs : {<<ph>> : ph \in Proper(Phdr)}]
    \cup [bad : {{}}, phdrs : {<<g, h>> : g, h \in Proper(SmallPhdr)}]
    \cup [bad : {{"magic"}, {}}, phdrs : {<<>>}]

MCData(o) == o + 1
=============================================================================
