---------------------------- MODULE MemoryCache ----------------------------
(***************************************************************************)
(* The compute crate's MemoryCache, shared by threads through `&self`: a   *)
(* byte counter and a handle counter that are atomics, and a map of        *)
(* tensors behind a mutex.  Every atomic operation and every critical      *)
(* section is a step, so that allocations and frees interleave between     *)
(* them as they can between the threads.                                   *)
(***************************************************************************)
EXTENDS Functions, Integers, Totals

CONSTANTS
    Threads,
    Sizes,            \* the byte sizes that are asked for
    max_size_bytes,
    MaxHandles,       \* bound: how many handles are ever taken
    NoThread

ASSUME MemoryCacheAssumption ==
    /\ IsFiniteSet(Threads) /\ Threads # {} /\ NoThread \notin Threads
    /\ Sizes \subseteq Nat /\ IsFiniteSet(Sizes) /\ Sizes # {}
    /\ max_size_bytes \in Nat /\ MaxHandles \in Nat

VARIABLES
    current_size_bytes, handle_counter,
    tensors,        \* handle -> size of the tensor it stands for
    mutex,          \* the thread that holds the map's lock across steps
    pc,             \* per thread: the next step of its call
    size, handle,   \* per thread: its local variables
    lost            \* history: bytes counted for tensors never created

vars == <<current_size_bytes, handle_counter, tensors, mutex, pc, size, handle, lost>>

Locals(t, step, s, h) ==
    /\ pc' = [pc EXCEPT ![t] = step]
    /\ size' = [size EXCEPT ![t] = s]
    /\ handle' = [handle EXCEPT ![t] = h]
Return(t) == Locals(t, "idle", 0, 0)

Init ==
    /\ current_size_bytes = 0 /\ handle_counter = 1
    /\ tensors = <<>> /\ mutex = NoThread /\ lost = 0
    /\ pc = [t \in Threads |-> "idle"]
    /\ size = [t \in Threads |-> 0] /\ handle = [t \in Threads |-> 0]

-----------------------------------------------------------------------------
(* allocate *)

\* Mutant: the size asked for is left out of the comparison.
CheckCurrentOnly(t) ==
    \E s \in Sizes :
        /\ pc[t] = "idle"
        /\ current_size_bytes <= max_size_bytes
        /\ handle_counter <= MaxHandles
        /\ Locals(t, "reserve", s, 0)
        /\ UNCHANGED <<current_size_bytes, handle_counter, tensors, mutex, lost>>

\* Load the counter and compare: "Cache full" returns at once and changes
\* nothing, and the comparison is with a value that may be stale by the time
\* of the fetch_add.
Check(t) ==
    \E s \in Sizes :
        /\ pc[t] = "idle"
        /\ current_size_bytes + s <= max_size_bytes
        /\ handle_counter <= MaxHandles
        /\ Locals(t, "reserve", s, 0)
        /\ UNCHANGED <<current_size_bytes, handle_counter, tensors, mutex, lost>>

Reserve(t) ==
    /\ pc[t] = "reserve"
    /\ current_size_bytes' = current_size_bytes + size[t]
    /\ Locals(t, "number", size[t], 0)
    /\ UNCHANGED <<handle_counter, tensors, mutex, lost>>

\* Mutant: the next handle is the number of tensors in the map plus one.
TakeHandleFromCount(t) ==
    /\ pc[t] = "number"
    /\ handle_counter' = handle_counter + 1
    /\ Locals(t, "create", size[t], Cardinality(DOMAIN tensors) + 1)
    /\ UNCHANGED <<current_size_bytes, tensors, mutex, lost>>

TakeHandle(t) ==
    /\ pc[t] = "number"
    /\ handle_counter' = handle_counter + 1
    /\ Locals(t, "create", size[t], handle_counter)
    /\ UNCHANGED <<current_size_bytes, tensors, mutex, lost>>

Create(t) ==
    /\ pc[t] = "create"
    /\ Locals(t, "insert", size[t], handle[t])
    /\ UNCHANGED <<current_size_bytes, handle_counter, tensors, mutex, lost>>

\* Tensor::zeros fails: allocate returns through `?` with its bytes counted.
CreateFails(t) ==
    /\ pc[t] = "create"
    /\ lost' = lost + size[t]
    /\ Return(t)
    /\ UNCHANGED <<current_size_bytes, handle_counter, tensors, mutex>>

Insert(t) ==
    /\ pc[t] = "insert" /\ mutex = NoThread
    /\ tensors' = [h \in DOMAIN tensors \cup {handle[t]} |->
                      IF h = handle[t] THEN size[t] ELSE tensors[h]]
    /\ Return(t)
    /\ UNCHANGED <<current_size_bytes, handle_counter, mutex, lost>>

-----------------------------------------------------------------------------
(* free: any thread, any handle that was ever taken, any number of times;   *)
(* a handle that is not in the map changes nothing.  The lock is held until *)
(* the function returns.                                                    *)

\* Mutant: the size is read through get, and the tensor stays.
RemoveByGet(t) ==
    \E h \in DOMAIN tensors :
        /\ pc[t] = "idle" /\ mutex = NoThread
        /\ Locals(t, "subtract", tensors[h], h)
        /\ UNCHANGED <<current_size_bytes, handle_counter, tensors, mutex, lost>>

RemoveTensor(t) ==
    \E h \in DOMAIN tensors :
        /\ pc[t] = "idle" /\ mutex = NoThread
        /\ mutex' = t
        /\ tensors' = Restrict(tensors, DOMAIN tensors \ {h})
        /\ Locals(t, "subtract", tensors[h], h)
        /\ UNCHANGED <<current_size_bytes, handle_counter, lost>>

\* Mutant: freed bytes are not given back.
SubtractNothing(t) ==
    /\ pc[t] = "subtract"
    /\ mutex' = NoThread
    /\ Return(t)
    /\ UNCHANGED <<current_size_bytes, handle_counter, tensors, lost>>

Subtract(t) ==
    /\ pc[t] = "subtract"
    /\ current_size_bytes' = current_size_bytes - size[t]
    /\ mutex' = NoThread
    /\ Return(t)
    /\ UNCHANGED <<handle_counter, tensors, lost>>

-----------------------------------------------------------------------------
(* get and bytes_left change nothing; this is what bytes_left returns. *)
bytes_left ==
    IF current_size_bytes > max_size_bytes THEN 0 ELSE max_size_bytes - current_size_bytes

Step(t) == Check(t) \/ Reserve(t) \/ TakeHandle(t) \/ Create(t) \/ CreateFails(t)
             \/ Insert(t) \/ RemoveTensor(t) \/ Subtract(t)
Next == \E t \in Threads : Step(t)
Spec == Init /\ [][Next]_vars

-----------------------------------------------------------------------------
(* Properties *)

Pcs == {"idle", "reserve", "number", "create", "insert", "subtract"}

TypeOK ==
    /\ current_size_bytes \in Nat /\ lost \in Nat
    /\ handle_counter \in Nat \ {0}
    /\ DOMAIN tensors \subseteq 1..(handle_counter - 1)
    /\ tensors \in [DOMAIN tensors -> Sizes]
    /\ mutex \in Threads \cup {NoThread}
    /\ pc \in [Threads -> Pcs]
    /\ size \in [Threads -> Sizes \cup {0}] /\ handle \in [Threads -> Nat]

Counted == {t \in Threads : pc[t] \in {"number", "create", "insert", "subtract"}}

\* The counter is always the bytes of the tensors in the map, plus those of
\* the calls between their two steps, plus those lost to failed creations:
\* it never goes below zero, and no order of allocations, frees and repeated
\* frees counts a tensor twice or releases it twice.
AccountingIsExact ==
    current_size_bytes = Total(tensors, DOMAIN tensors) + Total(size, Counted) + lost

\* A handle stands for one tensor: no two calls, and no call and the map,
\* have the same one, so no allocation overwrites another's tensor.
HandlesAreUnique ==
    \A t \in Threads : pc[t] \in {"create", "insert", "subtract"} =>
        /\ handle[t] < handle_counter /\ handle[t] \notin DOMAIN tensors
        /\ \A u \in Threads \ {t} : handle[u] # handle[t]

\* The limit is checked before it is taken, so that it may be overrun, but
\* only by what the other threads have between their check and their
\* reservation: at most one allocation each.
OverrunIsBounded ==
    current_size_bytes <= max_size_bytes + (Cardinality(Threads) - 1) * Max(Sizes)
=============================================================================
