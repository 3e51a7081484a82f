------------------------------- MODULE Spans -------------------------------
(***************************************************************************)
(* The spans of consecutive blocks that servers offer, as the sequence     *)
(* manager derives them from what each block's record lists.  Blocks are   *)
(* indices into module_infos; a server may also claim a range of blocks of *)
(* the model, which is shifted by the index in the first block's uid.      *)
(***************************************************************************)
EXTENDS Integers, FiniteSets, Retain

CONSTANTS
    Peers,
    NumBlocks,     \* module_infos.len()
    Offset,        \* the block index in the first block's uid
    NoClaim        \* a ServerInfo without start_block and end_block

\* usize wraps; the modulus stands for 2^64, which no index here comes near.
USIZE == 65536

ASSUME SpansAssumption ==
    /\ IsFiniteSet(Peers)
    /\ NumBlocks \in 1..(USIZE - 1) /\ Offset \in Nat

Blocks == 0..(NumBlocks - 1)

Joining == 1
Online  == 2
ServerInfo == [state : 0..2, claim : {NoClaim} \cup [start : Nat, end : Nat],
               throughput : Nat]

\* module_infos: per block, what its record says of each server that it lists.
IsModuleInfos(infos) ==
    \A b \in Blocks : /\ DOMAIN infos[b] \subseteq Peers
                      /\ \A p \in DOMAIN infos[b] : infos[b][p] \in ServerInfo

Length(span) == (span.end - span.start) % USIZE
SaturatingSub(a, b) == IF a > b THEN a - b ELSE 0

-----------------------------------------------------------------------------
\* Mutants: the end of a block is its index plus two; a server that comes
\* back in a better state keeps its old start.
VisitEndsLate(entry, b, info) ==
    [peer |-> entry.peer, state |-> entry.state, start |-> entry.start, end |-> b + 2]
VisitKeepsStart(entry, b, info) ==
    [peer  |-> entry.peer,
     state |-> Max({entry.state, info.state}),
     start |-> entry.start,
     end   |-> IF entry.state <= info.state THEN b + 1 ELSE entry.end]

\* What the record of block b makes of the entry of a server that it lists.
Visit(entry, b, info) ==
    LET better == entry.state < info.state
    IN  [peer  |-> entry.peer,
         state |-> IF better THEN info.state ELSE entry.state,
         start |-> IF better THEN b ELSE entry.start,
         end   |-> IF entry.state <= info.state THEN b + 1 ELSE entry.end]

\* The range a server claims cuts its entry.
Clip(entry, info) ==
    IF info.claim = NoClaim THEN entry
    ELSE [entry EXCEPT
            !.start = Max({@, SaturatingSub(info.claim.start, Offset)}),
            !.end   = Min({@, SaturatingSub(info.claim.end, Offset), NumBlocks})]

\* The blocks whose record lists p in min_state or better.
ListedAt(module_infos, p, min_state) ==
    {b \in Blocks : p \in DOMAIN module_infos[b] /\ module_infos[b][p].state >= min_state}

\* compute_spans for one server: the order within a block's record does not
\* matter, since every server has an entry of its own.
SpanOf(module_infos, p, min_state) ==
    LET listed == ListedAt(module_infos, p, min_state)
        first  == Min(listed)
        fresh  == [peer |-> p, state |-> module_infos[first][p].state,
                   start |-> first, end |-> first + 1]
    IN  FoldLeft(LAMBDA entry, b :
                    IF b \in listed
                    THEN Clip(Visit(entry, b, module_infos[b][p]), module_infos[b][p])
                    ELSE entry,
                 fresh, [i \in 1..NumBlocks |-> i - 1])

compute_spans(module_infos, min_state) ==
    {SpanOf(module_infos, p, min_state) :
        p \in {q \in Peers : ListedAt(module_infos, q, min_state) # {}}}

\* The longest first; equal lengths come in any order (that of a HashMap).
spans_by_priority(module_infos) ==
    {s \in SetToSeqs(compute_spans(module_infos, Online)) :
        \A i \in 1..(Len(s) - 1) : Length(s[i]) >= Length(s[i + 1])}

\* Mutant: the range is taken with both of its ends.
ContainingInclusive(spans, b) ==
    Retain(spans, {s \in Range(spans) : s.start <= b /\ b <= s.end})

\* spans_containing_block, at block b.
Containing(spans, b) == Retain(spans, {s \in Range(spans) : s.start <= b /\ b < s.end})

-----------------------------------------------------------------------------
(* What a span should be, without the order in which blocks are visited *)

\* The best state p is listed in, and the blocks where it is.
BestState(module_infos, p, min_state) ==
    Max({module_infos[b][p].state : b \in ListedAt(module_infos, p, min_state)})
BestBlocks(module_infos, p, min_state) ==
    {b \in ListedAt(module_infos, p, min_state) :
        module_infos[b][p].state = BestState(module_infos, p, min_state)}
Unclaimed(module_infos, p) ==
    \A b \in Blocks : p \in DOMAIN module_infos[b] => module_infos[b][p].claim = NoClaim

\* A server's span runs from the first to the last block where it is listed
\* in its best state, whatever worse states come before, between or after.
SpansAreBestState(module_infos) ==
    \A min_state \in {Joining, Online} : \A s \in compute_spans(module_infos, min_state) :
        LET best == BestBlocks(module_infos, s.peer, min_state)
        IN  Unclaimed(module_infos, s.peer) =>
                s.start = Min(best) /\ s.end = Max(best) + 1
                  /\ s.state = BestState(module_infos, s.peer, min_state)

\* A claim only ever cuts a span; and when the Online servers claim the
\* blocks they are listed at, no length that the priorities compare wraps.
ClaimsOnlyCut(module_infos) ==
    \A min_state \in {Joining, Online} : \A s \in compute_spans(module_infos, min_state) :
        LET listed == ListedAt(module_infos, s.peer, min_state)
            InClaim(b) ==
                LET claim == module_infos[b][s.peer].claim
                IN  claim = NoClaim \/ (b + Offset) \in claim.start..(claim.end - 1)
        IN  /\ s.start >= Min(listed) /\ s.end <= Max(listed) + 1
            /\ min_state = Online /\ (\A b \in listed : InClaim(b)) => Length(s) \in 1..NumBlocks
=============================================================================
