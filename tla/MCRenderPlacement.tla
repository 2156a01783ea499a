-------------------------- MODULE MCRenderPlacement --------------------------
(* Two workers of which each may offer the one GPU or else its CPU with two   *)
(* slots and twice the memory of a task; two tasks, one of which needs a GPU. *)
EXTENDS RenderPlacement, TLC

CONSTANTS gpu0, w1, w2

Gpu == [gpu |-> TRUE, device |-> gpu0, memory |-> 2, gpuMemory |-> 1, slots |-> 2]
Cpu == [gpu |-> FALSE, device |-> NoDevice, memory |-> 2, gpuMemory |-> 0, slots |-> 2]

MCCapability == {Gpu, Cpu}
MCNeed == [t \in Task |-> [gpu |-> t = 1, memory |-> 1,
                           gpuMemory |-> IF t = 1 THEN 1 ELSE 0]]
MCSymmetry == Permutations(Worker)
=============================================================================
