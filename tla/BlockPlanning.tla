---------------------------- MODULE BlockPlanning ----------------------------
(***************************************************************************)
(* The two uses that are made of the blocks' records: the sequence manager *)
(* chains the servers in them, block selection places servers by them.     *)
(***************************************************************************)
EXTENDS SequenceManager, BlockSelection

\* On the records that chains are made from, a server that joins takes the
\* block that needs it most, and the advice to move looks at the quality asked
\* for only (see BlockSelection).
BlockChoices == ChoiceServesWeakest(module_infos) /\ AdviceIgnoresBalance(module_infos)
=============================================================================
