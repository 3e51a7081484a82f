------------------------------ MODULE Compute ------------------------------
(***************************************************************************)
(* The compute crate: the allocator of cache memory that threads share,    *)
(* and the engine, which does not call it.  They have no state in common,  *)
(* so that one of them is used per behaviour: their states do not multiply.*)
(***************************************************************************)
EXTENDS MemoryCache, ComputeEngine

computeVars == <<vars, engineVars>>

ComputeInit == Init /\ EngineInit

\* The engine has not been used: it waits for the first token.
EngineUnused == stage = "decode" /\ attended = <<>> /\ batch = Min(Batches)

UseMemory == EngineUnused /\ Next /\ UNCHANGED engineVars
UseEngine == Init /\ EngineNext /\ UNCHANGED vars    \* nothing was allocated

ComputeNext == UseMemory \/ UseEngine
ComputeSpec == ComputeInit /\ [][ComputeNext]_computeVars
=============================================================================
