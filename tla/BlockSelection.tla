--------------------------- MODULE BlockSelection ---------------------------
(***************************************************************************)
(* Which blocks a server that joins should take, and whether one that      *)
(* serves should move, from the throughput that each block's record adds   *)
(* up to.  Throughputs are integers; balance_quality is a number of        *)
(* quarters.                                                               *)
(***************************************************************************)
EXTENDS Spans, Totals

Quarters == 4

compute_throughputs(module_infos, min_state) ==
    [b \in Blocks |->
        Total([p \in DOMAIN module_infos[b] |-> module_infos[b][p].throughput],
              {p \in DOMAIN module_infos[b] : module_infos[b][p].state >= min_state})]

\* Mutant: the last window is left out.
WindowStartsShort(num_blocks) == 0..(NumBlocks - num_blocks - 1) \cup {0}

WindowStarts(num_blocks) == 0..(NumBlocks - num_blocks)

\* The first window with the smallest least throughput; all blocks when fewer
\* than num_blocks exist.  (No blocks asked for is None.)
choose_best_blocks(num_blocks, module_infos) ==
    LET throughputs == compute_throughputs(module_infos, Joining)
        Least(start)  == Min({throughputs[b] : b \in start..(start + num_blocks - 1)})
        best_start    == CHOOSE start \in WindowStarts(num_blocks) :
                            /\ \A s \in WindowStarts(num_blocks) : Least(start) <= Least(s)
                            /\ \A s \in 0..(start - 1) : Least(start) < Least(s)
    IN  IF num_blocks > NumBlocks THEN Blocks
        ELSE best_start..(best_start + num_blocks - 1)

NeededMin(min, quality) == [num |-> min * Quarters, den |-> quality]

\* initial_min and current_min are both the least throughput: nothing is
\* changed in between, and the caller's own throughput is not looked at.
should_choose_other_blocks(module_infos, quality) ==
    LET throughputs == compute_throughputs(module_infos, Joining)
        current_min == Min(Range(throughputs))
        needed_min  == NeededMin(current_min, quality)
    IN  current_min > 0 /\ current_min * needed_min.den < needed_min.num

-----------------------------------------------------------------------------
Weakest(module_infos) ==
    LET throughputs == compute_throughputs(module_infos, Joining)
    IN  {b \in Blocks : \A other \in Blocks : throughputs[b] <= throughputs[other]}

\* However many blocks a server asks for, it gets that many or all of them,
\* in a row, and the first of the blocks that need it most is among them; the
\* window is the first one that holds it.
ChoiceServesWeakest(module_infos) ==
    \A num_blocks \in 1..(NumBlocks + 1) :
        LET chosen == choose_best_blocks(num_blocks, module_infos)
            first  == Min(Weakest(module_infos))
        IN  /\ Cardinality(chosen) = Min({num_blocks, NumBlocks})
            /\ chosen = Min(chosen)..Max(chosen)
            /\ first \in chosen
            /\ Min(chosen) > 0 => Max(chosen) = first

\* The advice to move does not depend on how the load is spread: it is given
\* to every server as soon as all blocks are served if the quality asked for
\* is less than one, and never otherwise, so that a block nobody serves moves
\* nobody.
AdviceIgnoresBalance(module_infos) ==
    \A quality \in 1..(2 * Quarters) :
        should_choose_other_blocks(module_infos, quality) <=>
            /\ quality < Quarters
            /\ \A b \in Blocks : \E p \in DOMAIN module_infos[b] :
                    module_infos[b][p].state >= Joining /\ module_infos[b][p].throughput > 0
=============================================================================
