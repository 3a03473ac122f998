---------------------------- MODULE MCScheduler ----------------------------
(* RunQueue for TLC, with a history variable that counts timer ticks.       *)
EXTENDS RunQueue, TLC

VARIABLE ran  \* ticks the current process has had of its quantum

mcvars == <<qvars, ran>>

\* A process with priority N gets N ticks; idle, with priority 0, gets one.
Quantum(p) == IF priority[p] = 0 THEN 1 ELSE priority[p]

MCInit == QueueInit /\ ran = 0

MCNext ==
  \/ /\ LinkedTick
     /\ ran' = IF current' # current \/ ran + 1 = Quantum(current) THEN 0 ELSE ran + 1
  \/ /\ OtherSteps
     /\ ran' = IF current' # current THEN 0 ELSE ran

MCSpec == MCInit /\ [][MCNext]_mcvars

\* "A process with priority N gets N consecutive ticks before yielding": the
\* timer takes the CPU away only when the quantum, or a multiple of it spent
\* with nobody else READY, is used up.
FullQuantum == [][Tick /\ current' # current => ran + 1 = Quantum(current)]_mcvars

\* PCBs other than the static idle one are interchangeable blocks of the heap.
PcbSymmetry == Permutations(Pcbs \ {idle_pcb})
=============================================================================
