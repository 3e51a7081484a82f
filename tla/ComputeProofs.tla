--------------------------- MODULE ComputeProofs ---------------------------
(***************************************************************************)
(* Proofs about the two components of the compute crate.                   *)
(*                                                                         *)
(* MemoryCache, first: the inductive invariant is shown to hold initially  *)
(* and to be kept by every step: StepTypes for the types, locals and       *)
(* handles, and a lemma for each action for the bytes, which are counted   *)
(* with the sums of FoldLemmas.                                            *)
(*                                                                         *)
(* ComputeEngine, from the tensors up.  Volume and Number are folds, whose *)
(* prefixes are taken one dimension at a time; every index tuple of a      *)
(* shape then has a number of its own (Places), from which follows what is *)
(* at an index of each operation's result: the transposition, reshaping,   *)
(* repeating and masking of the transformer block.  Put together, they say *)
(* what an element of the attention's output is made of (AttentionAt) and  *)
(* what the cache has after a call (KeysAndValues).  DecodeInv, the cache  *)
(* has the rows of the tokens so far, is kept by every call; PassInv, an   *)
(* element of the hidden state depends on its row up to its position, by   *)
(* every layer.                                                            *)
(***************************************************************************)
EXTENDS Compute, FoldLemmas

-----------------------------------------------------------------------------
(* MemoryCache: the inductive invariant *)

\* The threads between allocate's check and its fetch_add.
Reserving == {t \in Threads : pc[t] = "reserve"}

\* What a thread's local variables are at each step of its call.
LocalsOK ==
    \A t \in Threads :
        /\ pc[t] # "idle" => size[t] \in Sizes
        /\ handle[t] = 0 <=> pc[t] \in {"idle", "reserve", "number"}

\* The limit counts the sizes that were checked and not yet reserved.
ReservedOK ==
    current_size_bytes + Total(size, Reserving)
        <= max_size_bytes + (Cardinality(Threads) - 1) * Max(Sizes)

IInv == TypeOK /\ LocalsOK /\ HandlesAreUnique /\ AccountingIsExact /\ ReservedOK

\* The largest size asked for.
LEMMA MaxSize == Max(Sizes) \in Nat /\ \A s \in Sizes : s <= Max(Sizes)
<1>1. IsFiniteSet(Sizes) /\ Sizes \subseteq Nat /\ Sizes # {}
  BY MemoryCacheAssumption
<1> QED BY <1>1, MaxOfNumbers

\* Some thread calls, and what the others may hold is a number.
LEMMA LimitType ==
    /\ Cardinality(Threads) \in Nat \ {0}
    /\ (Cardinality(Threads) - 1) * Max(Sizes) \in Nat
<1>1. Cardinality(Threads) \in Nat \ {0}
  BY MemoryCacheAssumption, FS_CardinalityType, FS_EmptySet
<1>2. \A n, m \in Nat : n * m \in Nat
  OBVIOUS
<1> QED BY <1>1, <1>2, MaxSize, Cardinality(Threads) - 1 \in Nat

\* The inductive invariant holds of an empty cache.
LEMMA InitIInv == Init => IInv
<1> SUFFICES ASSUME Init PROVE IInv
  OBVIOUS
<1> USE MemoryCacheAssumption
<1>1. DOMAIN tensors = {} /\ Counted = {} /\ Reserving = {}
  BY DEF Init, Counted, Reserving
<1>2. TypeOK
  BY <1>1 DEF Init, TypeOK, Pcs
<1>3. LocalsOK /\ HandlesAreUnique
  BY DEF Init, LocalsOK, HandlesAreUnique
<1>4. AccountingIsExact
  BY <1>1, TotalOfNothing DEF Init, AccountingIsExact
<1>5. ReservedOK
  BY <1>1, TotalOfNothing, LimitType DEF Init, ReservedOK
<1> QED BY <1>2, <1>3, <1>4, <1>5 DEF IInv

\* Each step keeps the types, the locals and the handles apart.
LEMMA StepTypes ==
    ASSUME IInv, NEW t \in Threads, Step(t), current_size_bytes' \in Nat
    PROVE  TypeOK' /\ LocalsOK' /\ HandlesAreUnique'
<1> USE MemoryCacheAssumption DEF IInv, TypeOK, LocalsOK, HandlesAreUnique, Pcs, Locals, Return
<1>1. CASE Check(t)
  BY <1>1 DEF Check
<1>2. CASE Reserve(t)
  BY <1>2 DEF Reserve
<1>3. CASE TakeHandle(t)
  BY <1>3 DEF TakeHandle
<1>4. CASE Create(t)
  BY <1>4 DEF Create
<1>5. CASE CreateFails(t)
  BY <1>5 DEF CreateFails
<1>6. CASE Insert(t)
  BY <1>6 DEF Insert
<1>7. CASE RemoveTensor(t)
  BY <1>7 DEF RemoveTensor, Restrict
<1>8. CASE Subtract(t)
  BY <1>8 DEF Subtract
<1> QED BY <1>1, <1>2, <1>3, <1>4, <1>5, <1>6, <1>7, <1>8 DEF Step

\* What the sums are taken over.
LEMMA SumsAreDefined ==
    ASSUME TypeOK
    PROVE  /\ \A s \in SUBSET Threads : IsFiniteSet(s) /\ Numbers(size, s)
           /\ IsFiniteSet(DOMAIN tensors) /\ Numbers(tensors, DOMAIN tensors)
<1> USE MemoryCacheAssumption
<1>1. ASSUME NEW s \in SUBSET Threads PROVE IsFiniteSet(s) /\ Numbers(size, s)
  BY FS_Subset DEF TypeOK, Numbers
<1>2. IsFiniteSet(1..(handle_counter - 1))
  <2>1. handle_counter - 1 \in Nat
    BY DEF TypeOK
  <2> QED BY <2>1, IndicesAreFinite
<1>3. IsFiniteSet(DOMAIN tensors)
  BY <1>2, FS_Subset DEF TypeOK
<1>4. Numbers(tensors, DOMAIN tensors)
  BY DEF TypeOK, Numbers
<1> QED BY <1>1, <1>3, <1>4

\* A step of one thread changes the sum over others' sizes by nothing ...
LEMMA OthersKeepTheirSizes ==
    ASSUME TypeOK, NEW t \in Threads, NEW n, size' = [size EXCEPT ![t] = n],
           NEW s \in SUBSET Threads, t \notin s
    PROVE  Total(size', s) = Total(size, s)
<1>1. IsFiniteSet(s) /\ Numbers(size, s)
  BY SumsAreDefined
<1>2. \A x \in s : size[x] = size'[x]
  BY DEF TypeOK
<1> QED BY <1>1, <1>2, TotalSame

\* ... and the sum over a set that it joins, or leaves, by its own size.
LEMMA OneSizeMore ==
    ASSUME TypeOK, NEW t \in Threads, NEW n \in Nat, size' = [size EXCEPT ![t] = n],
           NEW s \in SUBSET Threads, t \notin s
    PROVE  Total(size', s \cup {t}) = n + Total(size, s)
<1>1. IsFiniteSet(s) /\ Numbers(size', s) /\ size'[t] = n
  BY SumsAreDefined DEF TypeOK, Numbers
<1>2. Total(size', s \cup {t}) = n + Total(size', s)
  BY <1>1, TotalAdd
<1> QED BY <1>2, OthersKeepTheirSizes

\* The sum over a set that a thread leaves.
LEMMA OneSizeLess ==
    ASSUME TypeOK, NEW t \in Threads, NEW n, size' = [size EXCEPT ![t] = n],
           NEW s \in SUBSET Threads, t \in s
    PROVE  Total(size, s) = size[t] + Total(size', s \ {t})
<1>1. Total(size, s) = size[t] + Total(size, s \ {t})
  BY SumsAreDefined, TotalRemove
<1>2. Total(size', s \ {t}) = Total(size, s \ {t})
  BY OthersKeepTheirSizes
<1> QED BY <1>1, <1>2

\* The sums that the invariant compares are numbers.
LEMMA SumTypes ==
    ASSUME TypeOK
    PROVE  /\ Total(tensors, DOMAIN tensors) \in Nat
           /\ \A s \in SUBSET Threads : Total(size, s) \in Nat
BY SumsAreDefined, TotalType

\* What the threads of Reserving hold when t is not among them.
LEMMA OthersReserve ==
    ASSUME IInv, NEW t \in Threads, t \notin Reserving
    PROVE  Total(size, Reserving) <= (Cardinality(Threads) - 1) * Max(Sizes)
<1>1. Reserving \in SUBSET Threads /\ Reserving \in SUBSET (Threads \ {t})
  BY DEF Reserving
<1>2. IsFiniteSet(Threads \ {t}) /\ Cardinality(Threads \ {t}) = Cardinality(Threads) - 1
  BY MemoryCacheAssumption, FS_RemoveElement
<1>3. Cardinality(Reserving) <= Cardinality(Threads) - 1 /\ Cardinality(Reserving) \in Nat
  BY <1>1, <1>2, FS_Subset, FS_CardinalityType
<1>4. \A x \in Reserving : size[x] <= Max(Sizes)
  BY MaxSize DEF IInv, LocalsOK, Reserving
<1>5. Total(size, Reserving) <= Cardinality(Reserving) * Max(Sizes)
  BY <1>1, <1>4, MaxSize, SumsAreDefined, TotalBound DEF IInv
<1>6. \A n, m, k \in Nat : n <= m => n * k <= m * k
  OBVIOUS
<1>7. Cardinality(Reserving) * Max(Sizes) <= (Cardinality(Threads) - 1) * Max(Sizes)
  BY <1>3, <1>6, LimitType, MaxSize
<1>8. Total(size, Reserving) \in Nat
  BY <1>1, SumTypes DEF IInv
<1>9. \A n, m \in Nat : n * m \in Nat
  OBVIOUS
<1>10. Cardinality(Reserving) * Max(Sizes) \in Nat
  BY <1>3, <1>9, MaxSize
<1> QED BY <1>5, <1>7, <1>8, <1>10, LimitType

-----------------------------------------------------------------------------
(* Accounting, action by action *)

\* What a step keeps of the bytes: the counter is a number, exact, and within
\* the limit together with what was checked and not yet reserved.
BytesOK == current_size_bytes \in Nat /\ AccountingIsExact /\ ReservedOK

\* A check that passes leaves room for its size beside the other threads'.
LEMMA CheckBytes == ASSUME IInv, NEW t \in Threads, Check(t) PROVE BytesOK'
<1>1. PICK s \in Sizes :
        /\ pc[t] = "idle" /\ current_size_bytes + s <= max_size_bytes
        /\ pc' = [pc EXCEPT ![t] = "reserve"] /\ size' = [size EXCEPT ![t] = s]
        /\ UNCHANGED <<current_size_bytes, tensors, lost>>
  BY DEF Check, Locals
<1>2. TypeOK /\ s \in Nat /\ max_size_bytes \in Nat /\ current_size_bytes \in Nat
  BY MemoryCacheAssumption DEF IInv, TypeOK
<1>3. Counted' = Counted /\ Counted \in SUBSET Threads /\ t \notin Counted
  BY <1>1 DEF IInv, TypeOK, Counted
<1>4. Reserving' = Reserving \cup {t} /\ Reserving \in SUBSET Threads /\ t \notin Reserving
  BY <1>1 DEF IInv, TypeOK, Reserving
<1>5. Total(size', Counted') = Total(size, Counted)
  BY <1>1, <1>2, <1>3, OthersKeepTheirSizes
<1>6. AccountingIsExact'
  BY <1>1, <1>5 DEF IInv, AccountingIsExact
<1>7. Total(size', Reserving') = s + Total(size, Reserving)
  BY <1>1, <1>2, <1>4, OneSizeMore
<1>8. Total(size, Reserving) \in Nat
  BY <1>2, <1>4, SumTypes
<1>9. Total(size, Reserving) <= (Cardinality(Threads) - 1) * Max(Sizes)
  BY <1>4, OthersReserve
<1>10. ReservedOK'
  BY <1>1, <1>2, <1>7, <1>8, <1>9, LimitType DEF ReservedOK
<1> QED BY <1>1, <1>2, <1>6, <1>10 DEF BytesOK

\* A reservation moves its size from the reserving to the counted threads.
LEMMA ReserveBytes == ASSUME IInv, NEW t \in Threads, Reserve(t) PROVE BytesOK'
<1>1. /\ pc[t] = "reserve" /\ current_size_bytes' = current_size_bytes + size[t]
      /\ pc' = [pc EXCEPT ![t] = "number"] /\ size' = [size EXCEPT ![t] = size[t]]
      /\ UNCHANGED <<tensors, lost>>
  BY DEF Reserve, Locals
<1>2. TypeOK /\ size[t] \in Nat /\ current_size_bytes \in Nat /\ lost \in Nat
  BY MemoryCacheAssumption DEF IInv, TypeOK
<1>3. Counted' = Counted \cup {t} /\ Counted \in SUBSET Threads /\ t \notin Counted
  BY <1>1 DEF IInv, TypeOK, Counted
<1>4. Reserving' = Reserving \ {t} /\ Reserving \in SUBSET Threads /\ t \in Reserving
  BY <1>1 DEF IInv, TypeOK, Reserving
<1>5. Total(size', Counted') = size[t] + Total(size, Counted)
  BY <1>1, <1>2, <1>3, OneSizeMore
<1>6. Total(size, Reserving) = size[t] + Total(size', Reserving')
  BY <1>1, <1>2, <1>4, OneSizeLess
<1>7. Total(tensors, DOMAIN tensors) \in Nat /\ Total(size, Counted) \in Nat
  BY <1>2, <1>3, SumTypes
<1>8. AccountingIsExact'
  BY <1>1, <1>2, <1>5, <1>7 DEF IInv, AccountingIsExact
<1>9. Total(size', Reserving') \in Nat
  BY <1>1, <1>2, <1>4, OthersKeepTheirSizes, SumTypes
<1>10. ReservedOK'
  BY <1>1, <1>2, <1>6, <1>9 DEF IInv, ReservedOK
<1> QED BY <1>1, <1>2, <1>8, <1>10 DEF BytesOK

\* Steps inside a call that move no bytes.
LEMMA StillBytes ==
    ASSUME IInv, NEW t \in Threads, TakeHandle(t) \/ Create(t) PROVE BytesOK'
<1>1. /\ size' = size /\ UNCHANGED <<current_size_bytes, tensors, lost>>
  BY DEF IInv, TypeOK, TakeHandle, Create, Locals
<1>2. Counted' = Counted /\ Reserving' = Reserving
  BY DEF IInv, TypeOK, TakeHandle, Create, Locals, Counted, Reserving
<1> QED BY <1>1, <1>2 DEF IInv, TypeOK, AccountingIsExact, ReservedOK, BytesOK

\* What every step does that ends a call of a counted thread.
LEMMA ReturnSums ==
    ASSUME IInv, NEW t \in Counted, Return(t)
    PROVE  /\ size[t] \in Nat /\ Total(size', Counted') \in Nat
           /\ Total(size, Counted) = size[t] + Total(size', Counted')
           /\ Total(size', Reserving') = Total(size, Reserving)
<1>1. TypeOK /\ size[t] \in Nat /\ t \in Threads /\ size' = [size EXCEPT ![t] = 0]
  BY MemoryCacheAssumption DEF IInv, TypeOK, Counted, Return, Locals
<1>2. Counted' = Counted \ {t} /\ Counted \in SUBSET Threads
  BY DEF IInv, TypeOK, Counted, Return, Locals
<1>3. Reserving' = Reserving /\ Reserving \in SUBSET Threads /\ t \notin Reserving
  BY DEF IInv, TypeOK, Counted, Reserving, Return, Locals
<1>4. Total(size, Counted) = size[t] + Total(size', Counted')
  BY <1>1, <1>2, OneSizeLess
<1>5. Total(size', Reserving') = Total(size, Reserving)
  BY <1>1, <1>3, OthersKeepTheirSizes
<1>6. Total(size', Counted') \in Nat
  BY <1>1, <1>2, OthersKeepTheirSizes, SumTypes
<1> QED BY <1>1, <1>4, <1>5, <1>6

\* A failed creation turns its bytes into lost ones.
LEMMA CreateFailsBytes == ASSUME IInv, NEW t \in Threads, CreateFails(t) PROVE BytesOK'
<1>1. /\ Return(t) /\ t \in Counted /\ lost' = lost + size[t]
      /\ UNCHANGED <<current_size_bytes, tensors>>
  BY DEF CreateFails, Counted
<1>2. Total(tensors, DOMAIN tensors) \in Nat /\ lost \in Nat /\ current_size_bytes \in Nat
  BY SumTypes DEF IInv, TypeOK
<1>3. AccountingIsExact'
  BY <1>1, <1>2, ReturnSums DEF IInv, AccountingIsExact
<1>4. ReservedOK'
  BY <1>1, ReturnSums DEF IInv, ReservedOK
<1> QED BY <1>1, <1>2, <1>3, <1>4 DEF BytesOK

\* An insertion moves its bytes to the map: its handle was not there.
LEMMA InsertBytes == ASSUME IInv, NEW t \in Threads, Insert(t) PROVE BytesOK'
<1>1. /\ Return(t) /\ t \in Counted /\ UNCHANGED <<current_size_bytes, lost>>
      /\ tensors' = [h \in DOMAIN tensors \cup {handle[t]} |->
                        IF h = handle[t] THEN size[t] ELSE tensors[h]]
  BY DEF Insert, Counted
<1>2. handle[t] \notin DOMAIN tensors
  BY DEF IInv, HandlesAreUnique, Insert
<1>3. TypeOK /\ lost \in Nat /\ current_size_bytes \in Nat /\ size[t] \in Nat
  BY <1>1, ReturnSums DEF IInv, TypeOK
<1> DEFINE D == DOMAIN tensors
<1>4. IsFiniteSet(D) /\ Numbers(tensors, D)
  BY <1>3, SumsAreDefined
<1>5. /\ DOMAIN tensors' = D \cup {handle[t]} /\ tensors'[handle[t]] = size[t]
      /\ \A x \in D : tensors[x] = tensors'[x]
  BY <1>1, <1>2
<1> HIDE DEF D
<1>6. Total(tensors', D) = Total(tensors, D) /\ Numbers(tensors', D)
  BY <1>4, <1>5, TotalSame DEF Numbers
<1>7. Total(tensors', D \cup {handle[t]}) = size[t] + Total(tensors', D)
  BY <1>2, <1>3, <1>4, <1>5, <1>6, TotalAdd DEF D
<1>8. Total(tensors, D) \in Nat
  BY <1>4, TotalType
<1>9. AccountingIsExact'
  BY <1>1, <1>3, <1>5, <1>6, <1>7, <1>8, ReturnSums DEF IInv, AccountingIsExact, D
<1>10. ReservedOK'
  BY <1>1, ReturnSums DEF IInv, ReservedOK
<1> QED BY <1>1, <1>3, <1>9, <1>10 DEF BytesOK

\* A removal moves its bytes from the map to its thread.
LEMMA RemoveBytes == ASSUME IInv, NEW t \in Threads, RemoveTensor(t) PROVE BytesOK'
<1>1. PICK h \in DOMAIN tensors :
        /\ pc[t] = "idle" /\ tensors' = Restrict(tensors, DOMAIN tensors \ {h})
        /\ pc' = [pc EXCEPT ![t] = "subtract"] /\ size' = [size EXCEPT ![t] = tensors[h]]
        /\ UNCHANGED <<current_size_bytes, lost>>
  BY DEF RemoveTensor, Locals
<1>2. TypeOK /\ current_size_bytes \in Nat /\ lost \in Nat /\ tensors[h] \in Nat
  BY MemoryCacheAssumption DEF IInv, TypeOK
<1>3. Counted' = Counted \cup {t} /\ Counted \in SUBSET Threads /\ t \notin Counted
  BY <1>1 DEF IInv, TypeOK, Counted
<1>4. Reserving' = Reserving /\ Reserving \in SUBSET Threads /\ t \notin Reserving
  BY <1>1 DEF IInv, TypeOK, Reserving
<1>5. Total(size', Counted') = tensors[h] + Total(size, Counted)
  BY <1>1, <1>2, <1>3, OneSizeMore
<1>6. Total(size', Reserving') = Total(size, Reserving)
  BY <1>1, <1>2, <1>4, OthersKeepTheirSizes
<1> DEFINE D == DOMAIN tensors
           R == D \ {h}
<1>7. IsFiniteSet(D) /\ Numbers(tensors, D) /\ IsFiniteSet(R) /\ Numbers(tensors, R)
  BY <1>2, SumsAreDefined, FS_RemoveElement DEF Numbers
<1>8. DOMAIN tensors' = R /\ \A x \in R : tensors[x] = tensors'[x]
  BY <1>1 DEF Restrict
<1>9. Total(tensors, D) = tensors[h] + Total(tensors, R)
  BY <1>7, TotalRemove
<1> HIDE DEF R
<1>10. Total(tensors', R) = Total(tensors, R) /\ Total(tensors, R) \in Nat
  BY <1>7, <1>8, TotalSame, TotalType
<1>11. Total(size, Counted) \in Nat
  BY <1>2, <1>3, SumTypes
<1>12. AccountingIsExact'
  BY <1>1, <1>2, <1>5, <1>8, <1>9, <1>10, <1>11 DEF IInv, AccountingIsExact
<1>13. ReservedOK'
  BY <1>1, <1>6 DEF IInv, ReservedOK
<1> QED BY <1>1, <1>2, <1>12, <1>13 DEF BytesOK

\* The subtraction does not go below zero: the bytes are still counted.
LEMMA SubtractBytes == ASSUME IInv, NEW t \in Threads, Subtract(t) PROVE BytesOK'
<1>1. /\ Return(t) /\ t \in Counted /\ UNCHANGED <<tensors, lost>>
      /\ current_size_bytes' = current_size_bytes - size[t]
  BY DEF Subtract, Counted
<1>2. Total(tensors, DOMAIN tensors) \in Nat /\ lost \in Nat /\ current_size_bytes \in Nat
  BY SumTypes DEF IInv, TypeOK
<1>3. AccountingIsExact' /\ current_size_bytes' \in Nat
  BY <1>1, <1>2, ReturnSums DEF IInv, AccountingIsExact
<1>4. Total(size, Reserving) \in Nat
  BY SumTypes DEF IInv, Reserving
<1>5. ReservedOK'
  BY <1>1, <1>2, <1>4, LimitType, ReturnSums, MemoryCacheAssumption DEF IInv, ReservedOK
<1> QED BY <1>3, <1>5 DEF BytesOK

\* Every step keeps the inductive invariant.
LEMMA StepIInv == IInv /\ [Next]_vars => IInv'
<1> SUFFICES ASSUME IInv, [Next]_vars PROVE IInv'
  OBVIOUS
<1>1. ASSUME NEW t \in Threads, Step(t) PROVE IInv'
  <2>1. BytesOK'
    BY <1>1, CheckBytes, ReserveBytes, StillBytes, CreateFailsBytes, InsertBytes,
       RemoveBytes, SubtractBytes DEF Step
  <2>2. TypeOK' /\ LocalsOK' /\ HandlesAreUnique'
    BY <1>1, <2>1, StepTypes DEF BytesOK
  <2> QED BY <2>1, <2>2 DEF IInv, BytesOK
<1>2. CASE UNCHANGED vars
  <2>1. Counted' = Counted /\ Reserving' = Reserving
    BY <1>2 DEF vars, Counted, Reserving
  <2> QED BY <1>2, <2>1 DEF vars, IInv, TypeOK, LocalsOK, HandlesAreUnique,
                            AccountingIsExact, ReservedOK
<1> QED BY <1>1, <1>2 DEF Next

\* The inductive invariant holds throughout.
LEMMA Invariance == Spec => []IInv
BY InitIInv, StepIInv, PTL DEF Spec

-----------------------------------------------------------------------------
(* MemoryCache: what holds for any threads, sizes and limit *)

\* No sequence of calls takes a variable of the cache out of its type: the
\* counter, an unsigned integer in the code, does not go below zero.
THEOREM TypeCorrect == Spec => []TypeOK
BY Invariance, PTL DEF IInv

\* MemoryCache's counter is at every step the bytes in the map, those of the
\* calls under way and those of failed creations.
THEOREM AccountingExact == Spec => []AccountingIsExact
BY Invariance, PTL DEF IInv

\* allocate never gives out a handle that is in use.
THEOREM UniqueHandles == Spec => []HandlesAreUnique
BY Invariance, PTL DEF IInv

\* The check and the fetch_add of allocate overrun the limit by at most one
\* allocation of every other thread.
THEOREM BoundedOverrun == Spec => []OverrunIsBounded
<1>1. ASSUME IInv PROVE OverrunIsBounded
  <2>1. Total(size, Reserving) \in Nat /\ current_size_bytes \in Nat
    BY <1>1, SumTypes DEF IInv, TypeOK, Reserving
  <2> QED BY <1>1, <2>1, LimitType, MemoryCacheAssumption DEF IInv, ReservedOK, OverrunIsBounded
<1> QED BY <1>1, Invariance, PTL

-----------------------------------------------------------------------------
(* Tensors: numbers and volumes *)

\* What the two operators are.
LEMMA Division ==
    ASSUME NEW a \in Nat, NEW b \in Nat, b > 0
    PROVE  /\ a \div b \in Nat /\ a % b \in Nat /\ a % b < b
           /\ a = (a \div b) * b + (a % b)
OBVIOUS

\* A larger number of blocks of b has room for one block more,
LEMMA Multiples ==
    ASSUME NEW b \in Nat, NEW q \in Nat, NEW p \in Nat, q < p
    PROVE  q * b + b <= p * b /\ p * b \in Nat /\ q * b \in Nat
<1>1. PICK k \in Nat : p = q + 1 + k
  BY p - q - 1 \in Nat
<1>2. p * b = q * b + b + k * b
  BY <1>1
<1>3. k * b \in Nat /\ q * b \in Nat
  OBVIOUS
<1> QED BY <1>2, <1>3

\* so that a block number and a place in the block are found again.
LEMMA Quotient ==
    ASSUME NEW a \in Nat, NEW b \in Nat, NEW r \in Nat, r < b
    PROVE  (a * b + r) \div b = a /\ (a * b + r) % b = r
<1> DEFINE n == a * b + r
           q == n \div b
           m == n % b
<1>1. n \in Nat /\ b > 0
  OBVIOUS
<1>2. q \in Nat /\ m \in Nat /\ m < b /\ n = q * b + m
  <2> HIDE DEF n
  <2> QED BY <1>1, Division
<1>3. n = a * b + r
  OBVIOUS
<1> HIDE DEF n, q, m
<1>4. ~(q < a) /\ ~(a < q)
  BY <1>2, <1>3, Multiples
<1>5. q = a
  BY <1>2, <1>4
<1> QED BY <1>2, <1>3, <1>5 DEF q, m, n

\* The equations that the folds in Volume and Number solve.
Multiplied(g, dims) ==
    g = [u \in SUBSET (DOMAIN dims) |->
            IF u = {} THEN 1 ELSE g[u \ {Max(u)}] * dims[Max(u)]]
NumberedBy(g, dims, idx, seq) ==
    g = [u \in SUBSET (DOMAIN seq) |->
            IF u = {} THEN 0 ELSE g[u \ {Max(u)}] * dims[seq[Max(u)]] + idx[seq[Max(u)]]]

\* The same, along the prefixes of the shape.
VolumeBy(v, dims, n) ==
    v[0] = 1 /\ Volume(dims) = v[n] /\ \A a \in 1..n : v[a] = v[a - 1] * dims[a]
NumberBy(v, dims, idx, n) ==
    /\ v[0] = 0 /\ Number(dims, idx) = v[n]
    /\ \A a \in 1..n : v[a] = v[a - 1] * dims[a] + idx[a]

\* The volume is multiplied up dimension by dimension,
LEMMA VolumePrefixes ==
    ASSUME NEW n \in Nat, NEW dims, DOMAIN dims = 1..n, \A a \in 1..n : dims[a] \in Nat
    PROVE  \E v \in [0..n -> Int] : VolumeBy(v, dims, n)
<1> DEFINE step == [a \in 1..n |-> [acc \in Int |-> acc * dims[a]]]
<1>1. step \in [1..n -> [Int -> Int]] /\ 1 \in Int
  OBVIOUS
<1>2. PICK g \in [SUBSET (1..n) -> Int] : FoldsIndices(g, n, 1, step)
  <2> HIDE DEF step
  <2> QED BY <1>1, SequenceFoldExists
<1>3. Multiplied(g, dims)
  <2>1. ASSUME NEW u \in SUBSET (1..n), u # {}
        PROVE  g[u] = g[u \ {Max(u)}] * dims[Max(u)]
    <3>1. Max(u) \in 1..n
      BY <2>1, PrefixIndices
    <3>2. g[u \ {Max(u)}] \in Int
      BY <1>2
    <3>3. g[u] = step[Max(u)][g[u \ {Max(u)}]]
      <4> HIDE DEF step
      <4> QED BY <1>2, <2>1 DEF FoldsIndices
    <3> QED BY <3>1, <3>2, <3>3
  <2>2. g[{}] = 1
    <3> HIDE DEF step
    <3> QED BY <1>2 DEF FoldsIndices
  <2> HIDE DEF step
  <2> QED BY <1>2, <2>1, <2>2 DEF Multiplied
<1> DEFINE G == CHOOSE f : Multiplied(f, dims)
<1>4. Multiplied(G, dims)
  BY <1>3
<1>5. Volume(dims) = G[1..n]
  <2>1. Volume(dims) = G[DOMAIN dims]
    BY DEF Volume, FoldLeft, MapThenFoldSet, Multiplied
  <2> HIDE DEF G
  <2> QED BY <2>1
<1> HIDE DEF G, step
<1>6. G[{}] = 1
  BY <1>4, {} \in SUBSET (1..n) DEF Multiplied
<1>7. ASSUME NEW a \in 1..n PROVE G[1..a] = G[1..(a - 1)] * dims[a]
  <2>1. /\ 1..a \in SUBSET (1..n) /\ 1..a # {}
        /\ Max(1..a) = a /\ (1..a) \ {a} = 1..(a - 1)
    BY PrefixIndices
  <2> QED BY <1>4, <2>1 DEF Multiplied
<1> DEFINE v == [a \in 0..n |-> G[1..a]]
<1>8. v[0] = 1 /\ v[n] = G[1..n]
  BY <1>6, 1..0 = {}
<1>9. ASSUME NEW a \in 1..n PROVE v[a] = v[a - 1] * dims[a]
  <2>1. a \in 0..n /\ a - 1 \in 0..n
    OBVIOUS
  <2> QED BY <1>7, <2>1
<1>10. v \in [0..n -> Int]
  <2> DEFINE T == {a \in Nat : a <= n => v[a] \in Int}
  <2>1. 0 \in T
    BY <1>8
  <2>2. ASSUME NEW a \in Nat, a \in T PROVE a + 1 \in T
    <3> HIDE DEF v
    <3>1. ASSUME a + 1 <= n PROVE v[a + 1] \in Int
      <4>1. a + 1 \in 1..n /\ v[a] \in Int /\ v[a + 1] = v[(a + 1) - 1] * dims[a + 1]
        BY <1>9, <2>2, <3>1
      <4>2. dims[a + 1] \in Int /\ (a + 1) - 1 = a
        BY <4>1
      <4> QED BY <4>1, <4>2
    <3> QED BY <3>1
  <2> HIDE DEF T
  <2>3. \A a \in Nat : a \in T
    BY <2>1, <2>2, NumberInduction
  <2>4. \A a \in 0..n : v[a] \in Int
    <3> HIDE DEF v
    <3> QED BY <2>3 DEF T
  <2> QED BY <2>4
<1> HIDE DEF v
<1> QED BY <1>5, <1>8, <1>9, <1>10 DEF VolumeBy

\* and so is the number of an element.
LEMMA NumberPrefixes ==
    ASSUME NEW n \in Nat, NEW dims, DOMAIN dims = 1..n, \A a \in 1..n : dims[a] \in Nat,
           NEW idx, \A a \in 1..n : idx[a] \in Int
    PROVE  \E v \in [0..n -> Int] : NumberBy(v, dims, idx, n)
<1> DEFINE step == [a \in 1..n |-> [acc \in Int |-> acc * dims[a] + idx[a]]]
           seq  == [a \in DOMAIN dims |-> a]
<1>1. step \in [1..n -> [Int -> Int]] /\ 0 \in Int
  OBVIOUS
<1>2. PICK g \in [SUBSET (1..n) -> Int] : FoldsIndices(g, n, 0, step)
  <2> HIDE DEF step
  <2> QED BY <1>1, SequenceFoldExists
<1>3. NumberedBy(g, dims, idx, seq)
  <2>1. ASSUME NEW u \in SUBSET (1..n), u # {}
        PROVE  g[u] = g[u \ {Max(u)}] * dims[seq[Max(u)]] + idx[seq[Max(u)]]
    <3>1. Max(u) \in 1..n
      BY <2>1, PrefixIndices
    <3>2. g[u \ {Max(u)}] \in Int /\ seq[Max(u)] = Max(u)
      BY <1>2, <3>1
    <3>3. g[u] = step[Max(u)][g[u \ {Max(u)}]]
      <4> HIDE DEF step
      <4> QED BY <1>2, <2>1 DEF FoldsIndices
    <3>4. step[Max(u)][g[u \ {Max(u)}]] = g[u \ {Max(u)}] * dims[Max(u)] + idx[Max(u)]
      BY <3>1, <3>2
    <3> QED BY <3>2, <3>3, <3>4
  <2>2. g[{}] = 0
    <3> HIDE DEF step
    <3> QED BY <1>2 DEF FoldsIndices
  <2>3. DOMAIN seq = 1..n
    OBVIOUS
  <2> HIDE DEF step, seq
  <2> QED BY <1>2, <2>1, <2>2, <2>3 DEF NumberedBy
<1> DEFINE G == CHOOSE f : NumberedBy(f, dims, idx, seq)
<1>4. NumberedBy(G, dims, idx, seq)
  BY <1>3
<1>5. Number(dims, idx) = G[1..n]
  <2>1. Number(dims, idx) = G[DOMAIN seq]
    BY DEF Number, FoldLeft, MapThenFoldSet, NumberedBy
  <2> HIDE DEF G
  <2> QED BY <2>1
<1> HIDE DEF G, step
<1>6. G[{}] = 0
  BY <1>4, {} \in SUBSET (1..n) DEF NumberedBy
<1>7. ASSUME NEW a \in 1..n PROVE G[1..a] = G[1..(a - 1)] * dims[a] + idx[a]
  <2>1. /\ 1..a \in SUBSET (1..n) /\ 1..a # {}
        /\ Max(1..a) = a /\ (1..a) \ {a} = 1..(a - 1)
    BY PrefixIndices
  <2>2. DOMAIN seq = 1..n /\ seq[a] = a
    OBVIOUS
  <2> HIDE DEF seq
  <2> QED BY <1>4, <2>1, <2>2 DEF NumberedBy
<1> DEFINE v == [a \in 0..n |-> G[1..a]]
<1>8. v[0] = 0 /\ v[n] = G[1..n]
  BY <1>6, 1..0 = {}
<1>9. ASSUME NEW a \in 1..n PROVE v[a] = v[a - 1] * dims[a] + idx[a]
  <2>1. a \in 0..n /\ a - 1 \in 0..n
    OBVIOUS
  <2> QED BY <1>7, <2>1
<1>10. v \in [0..n -> Int]
  <2> DEFINE T == {a \in Nat : a <= n => v[a] \in Int}
  <2>1. 0 \in T
    BY <1>8
  <2>2. ASSUME NEW a \in Nat, a \in T PROVE a + 1 \in T
    <3> HIDE DEF v
    <3>1. ASSUME a + 1 <= n PROVE v[a + 1] \in Int
      <4>1. a + 1 \in 1..n /\ v[a] \in Int
            /\ v[a + 1] = v[(a + 1) - 1] * dims[a + 1] + idx[a + 1]
        BY <1>9, <2>2, <3>1
      <4>2. dims[a + 1] \in Int /\ idx[a + 1] \in Int /\ (a + 1) - 1 = a
        BY <4>1
      <4> QED BY <4>1, <4>2
    <3> QED BY <3>1
  <2> HIDE DEF T
  <2>3. \A a \in Nat : a \in T
    BY <2>1, <2>2, NumberInduction
  <2>4. \A a \in 0..n : v[a] \in Int
    <3> HIDE DEF v
    <3> QED BY <2>3 DEF T
  <2> QED BY <2>4
<1> HIDE DEF v
<1> QED BY <1>5, <1>8, <1>9, <1>10 DEF NumberBy

\* The volumes of shapes with up to four dimensions,
LEMMA VolumeIs ==
    ASSUME NEW dims, NEW n \in 0..4, DOMAIN dims = 1..n, \A a \in 1..n : dims[a] \in Nat
    PROVE  /\ n = 0 => Volume(dims) = 1
           /\ n = 1 => Volume(dims) = dims[1]
           /\ n = 2 => Volume(dims) = dims[1] * dims[2]
           /\ n = 3 => Volume(dims) = dims[1] * dims[2] * dims[3]
           /\ n = 4 => Volume(dims) = dims[1] * dims[2] * dims[3] * dims[4]
<1>0. n \in Nat
  OBVIOUS
<1>1. PICK v \in [0..n -> Int] : VolumeBy(v, dims, n)
  BY <1>0, VolumePrefixes
<1>2. n >= 1 => v[1] = dims[1] /\ dims[1] \in Int
  BY <1>1 DEF VolumeBy
<1>3. n >= 2 => v[2] = v[1] * dims[2]
  BY <1>1 DEF VolumeBy
<1>4. n >= 3 => v[3] = v[2] * dims[3]
  BY <1>1 DEF VolumeBy
<1>5. n >= 4 => v[4] = v[3] * dims[4]
  BY <1>1 DEF VolumeBy
<1>6. v[0] = 1 /\ Volume(dims) = v[n]
  BY <1>1 DEF VolumeBy
<1> QED BY <1>2, <1>3, <1>4, <1>5, <1>6

\* and the numbers of their elements.
LEMMA NumberIs ==
    ASSUME NEW dims, NEW n \in 0..4, DOMAIN dims = 1..n, \A a \in 1..n : dims[a] \in Nat,
           NEW idx, \A a \in 1..n : idx[a] \in Int
    PROVE  /\ n = 1 => Number(dims, idx) = idx[1]
           /\ n = 2 => Number(dims, idx) = idx[1] * dims[2] + idx[2]
           /\ n = 3 => Number(dims, idx) = (idx[1] * dims[2] + idx[2]) * dims[3] + idx[3]
           /\ n = 4 => Number(dims, idx) =
                ((idx[1] * dims[2] + idx[2]) * dims[3] + idx[3]) * dims[4] + idx[4]
<1>0. n \in Nat
  OBVIOUS
<1>1. PICK v \in [0..n -> Int] : NumberBy(v, dims, idx, n)
  BY <1>0, NumberPrefixes
<1>2. n >= 1 => v[1] = idx[1] /\ idx[1] \in Int
  BY <1>1 DEF NumberBy
<1>3. n >= 2 => v[2] = v[1] * dims[2] + idx[2]
  BY <1>1 DEF NumberBy
<1>4. n >= 3 => v[3] = v[2] * dims[3] + idx[3]
  BY <1>1 DEF NumberBy
<1>5. n >= 4 => v[4] = v[3] * dims[4] + idx[4]
  BY <1>1 DEF NumberBy
<1> QED BY <1>1, <1>2, <1>3, <1>4, <1>5 DEF NumberBy

\* Lists that are as long as their elements are named.
LEMMA Pair ==
    ASSUME NEW S, NEW r \in Seq(S), Len(r) = 2
    PROVE  r = <<r[1], r[2]>> /\ r[1] \in S /\ r[2] \in S
<1>0. r[1] \in S /\ r[2] \in S
  OBVIOUS
<1> DEFINE u == <<r[1], r[2]>>
<1>1. r = [a \in 1..2 |-> r[a]] /\ u = [a \in 1..2 |-> u[a]] /\ \A a \in 1..2 : u[a] = r[a]
  OBVIOUS
<1> HIDE DEF u
<1> QED BY <1>0, <1>1 DEF u

\* r is q behind x.
IsPrepended(r, x, q, S) ==
    r \in Seq(S) /\ Len(r) = Len(q) + 1 /\ r[1] = x /\ \A a \in 1..Len(q) : r[a + 1] = q[a]

LEMMA Prepend ==
    ASSUME NEW S, NEW q \in Seq(S), NEW x \in S
    PROVE  IsPrepended(<<x>> \o q, x, q, S)
BY DEF IsPrepended

LEMMA Triple ==
    ASSUME NEW S, NEW r \in Seq(S), Len(r) = 3
    PROVE  r = <<r[1], r[2], r[3]>> /\ r[1] \in S /\ r[2] \in S /\ r[3] \in S
<1>0. r[1] \in S /\ r[2] \in S /\ r[3] \in S
  OBVIOUS
<1> DEFINE u == <<r[1], r[2], r[3]>>
<1>1. r = [a \in 1..3 |-> r[a]]
  OBVIOUS
<1>2. u = [a \in 1..3 |-> u[a]]
  OBVIOUS
<1>3. \A a \in 1..3 : u[a] = r[a]
  OBVIOUS
<1> HIDE DEF u
<1> QED BY <1>0, <1>1, <1>2, <1>3 DEF u

\* An index behind two others.
LEMMA PrependOne == ASSUME NEW x, NEW s, NEW c PROVE <<x>> \o <<s, c>> = <<x, s, c>>
<1> DEFINE S == {x, s, c}
           q == <<s, c>>
           r == <<x>> \o q
<1>1. q \in Seq(S) /\ Len(q) = 2 /\ q[1] = s /\ q[2] = c /\ x \in S
  OBVIOUS
<1> HIDE DEF q, S
<1>2. Len(r) = 2 + 1 /\ r \in Seq(S) /\ r[1] = x /\ \A a \in 1..2 : r[a + 1] = q[a]
  <2>1. IsPrepended(r, x, q, S)
    BY <1>1, Prepend
  <2> HIDE DEF r
  <2> QED BY <1>1, <2>1 DEF IsPrepended
<1> HIDE DEF r
<1>3. Len(r) = 3 /\ r[1] = x /\ r[2] = s /\ r[3] = c
  BY <1>1, <1>2
<1>4. r = <<r[1], r[2], r[3]>>
  BY <1>2, <1>3, Triple
<1> QED BY <1>3, <1>4 DEF q, r

\* The volumes of matrices and of stacks of them.
LEMMA VolumeOfTwo == ASSUME NEW A \in Nat, NEW B \in Nat PROVE Volume(<<A, B>>) = A * B
<1> DEFINE dims == <<A, B>>
<1>1. DOMAIN dims = 1..2 /\ (\A a \in 1..2 : dims[a] \in Nat) /\ dims[1] = A /\ dims[2] = B
  OBVIOUS
<1> HIDE DEF dims
<1>2. Volume(dims) = A * B
  BY <1>1, VolumeIs, 2 \in 0..4
<1> QED BY <1>2 DEF dims

LEMMA VolumeOfThree ==
    ASSUME NEW A \in Nat, NEW B \in Nat, NEW C \in Nat
    PROVE  Volume(<<A, B, C>>) = A * B * C
<1> DEFINE dims == <<A, B, C>>
<1>1. /\ DOMAIN dims = 1..3 /\ (\A a \in 1..3 : dims[a] \in Nat)
      /\ dims[1] = A /\ dims[2] = B /\ dims[3] = C
  OBVIOUS
<1> HIDE DEF dims
<1>2. Volume(dims) = A * B * C
  BY <1>1, VolumeIs, 3 \in 0..4
<1> QED BY <1>2 DEF dims

-----------------------------------------------------------------------------
(* Tensors: the number of an index tuple, and the tuple of a number *)

\* An index tuple has a place among the elements, and the place has the tuple.
Indexes(dims, idx) ==
    Number(dims, idx) \in 0..(Volume(dims) - 1) /\ Index(dims, Number(dims, idx)) = idx

\* A place in a block is a place among all of them.
LEMMA Below ==
    ASSUME NEW A \in Nat, NEW B \in Nat, NEW i \in 0..(A - 1), NEW j \in 0..(B - 1)
    PROVE  i * B + j \in 0..(A * B - 1) /\ i * B + j \in Nat /\ A * B \in Nat
<1>1. i * B + B <= A * B /\ A * B \in Nat /\ i * B \in Nat
  BY Multiples
<1> QED BY <1>1

\* What is below A is itself modulo A.
LEMMA Small == ASSUME NEW A \in Nat, NEW i \in 0..(A - 1) PROVE i % A = i
<1>1. 0 * A + i = i /\ i \in Nat /\ i < A
  OBVIOUS
<1> QED BY <1>1, Quotient, 0 \in Nat

\* With two dimensions,
LEMMA Indexing2 ==
    ASSUME NEW A \in Nat, NEW B \in Nat, NEW i \in 0..(A - 1), NEW j \in 0..(B - 1)
    PROVE  /\ Number(<<A, B>>, <<i, j>>) = i * B + j
           /\ Volume(<<A, B>>) = A * B
           /\ Indexes(<<A, B>>, <<i, j>>)
<1> DEFINE dims == <<A, B>>
           idx == <<i, j>>
           m == i * B + j
<1>1. Number(dims, idx) = m /\ Volume(dims) = A * B
  <2>1. DOMAIN dims = 1..2 /\ (\A a \in 1..2 : dims[a] \in Nat) /\ \A a \in 1..2 : idx[a] \in Int
    OBVIOUS
  <2>2. dims[1] = A /\ dims[2] = B /\ idx[1] = i /\ idx[2] = j /\ 2 \in 0..4
    OBVIOUS
  <2> HIDE DEF dims, idx
  <2> QED BY <2>1, <2>2, VolumeIs, NumberIs
<1>2. m \in 0..(A * B - 1) /\ m \in Nat
  BY Below
<1>3. Volume(SubSeq(dims, 2, 2)) = B /\ Volume(SubSeq(dims, 3, 2)) = 1
  <2> DEFINE s2 == SubSeq(dims, 2, 2)
             s3 == SubSeq(dims, 3, 2)
  <2>1. DOMAIN s2 = 1..1 /\ s2[1] = B
    OBVIOUS
  <2>2. DOMAIN s3 = 1..0
    OBVIOUS
  <2> HIDE DEF s2, s3, dims
  <2>3. Volume(s2) = B
    BY <2>1, VolumeIs, 1 \in 0..4
  <2>4. Volume(s3) = 1
    BY <2>2, VolumeIs, 0 \in 0..4
  <2> QED BY <2>3, <2>4 DEF s2, s3
<1>4. (m \div B) % A = i /\ (m \div 1) % B = j
  <2>1. m \div B = i /\ m % B = j
    BY Quotient
  <2>2. m \div 1 = m
    BY <1>2
  <2> QED BY <2>1, <2>2, Small
<1>5. Index(dims, m) = idx
  <2>1. /\ DOMAIN dims = {1, 2} /\ Len(dims) = 2 /\ dims[1] = A /\ dims[2] = B
        /\ 1 + 1 = 2 /\ 2 + 1 = 3
    OBVIOUS
  <2> HIDE DEF dims, m
  <2>2. Index(dims, m) = [a \in {1, 2} |-> IF a = 1 THEN i ELSE j]
    BY <2>1, <1>3, <1>4 DEF Index
  <2> QED BY <2>2
<1> QED BY <1>1, <1>2, <1>5 DEF Indexes

\* with three
LEMMA Indexing3 ==
    ASSUME NEW A \in Nat, NEW B \in Nat, NEW C \in Nat,
           NEW i \in 0..(A - 1), NEW j \in 0..(B - 1), NEW k \in 0..(C - 1)
    PROVE  /\ Number(<<A, B, C>>, <<i, j, k>>) = (i * B + j) * C + k
           /\ Volume(<<A, B, C>>) = A * B * C
           /\ Indexes(<<A, B, C>>, <<i, j, k>>)
<1> DEFINE dims == <<A, B, C>>
           idx == <<i, j, k>>
           m == (i * B + j) * C + k
<1>1. Number(dims, idx) = m /\ Volume(dims) = A * B * C
  <2>1. DOMAIN dims = 1..3 /\ (\A a \in 1..3 : dims[a] \in Nat) /\ \A a \in 1..3 : idx[a] \in Int
    OBVIOUS
  <2>2. /\ dims[1] = A /\ dims[2] = B /\ dims[3] = C
        /\ idx[1] = i /\ idx[2] = j /\ idx[3] = k
    OBVIOUS
  <2> HIDE DEF dims, idx
  <2>3. Volume(dims) = dims[1] * dims[2] * dims[3]
    BY <2>1, VolumeIs, 3 \in 0..4
  <2>4. Number(dims, idx) = (idx[1] * dims[2] + idx[2]) * dims[3] + idx[3]
    BY <2>1, NumberIs, 3 \in 0..4
  <2> QED BY <2>2, <2>3, <2>4
<1>2. /\ i * B + j \in 0..(A * B - 1) /\ j * C + k \in 0..(B * C - 1)
      /\ {A * B, B * C, i * B + j, j * C + k} \subseteq Nat
  BY Below
<1>3. m \in 0..(A * B * C - 1) /\ m \in Nat
  <2> DEFINE AB == A * B
             ij == i * B + j
  <2>1. AB \in Nat /\ ij \in 0..(AB - 1)
    BY <1>2
  <2> HIDE DEF AB, ij
  <2>2. ij * C + k \in 0..(AB * C - 1) /\ ij * C + k \in Nat
    BY <2>1, Below
  <2> QED BY <2>2 DEF AB, ij
<1>4. /\ Volume(SubSeq(dims, 2, 3)) = B * C /\ Volume(SubSeq(dims, 3, 3)) = C
      /\ Volume(SubSeq(dims, 4, 3)) = 1
  <2> DEFINE s2 == SubSeq(dims, 2, 3)
             s3 == SubSeq(dims, 3, 3)
             s4 == SubSeq(dims, 4, 3)
  <2>1. DOMAIN s2 = 1..2 /\ s2[1] = B /\ s2[2] = C
    OBVIOUS
  <2>2. DOMAIN s3 = 1..1 /\ s3[1] = C
    OBVIOUS
  <2>3. DOMAIN s4 = 1..0
    OBVIOUS
  <2> HIDE DEF s2, s3, s4, dims
  <2>4. Volume(s2) = B * C
    BY <2>1, VolumeIs, 2 \in 0..4
  <2>5. Volume(s3) = C
    BY <2>2, VolumeIs, 1 \in 0..4
  <2>6. Volume(s4) = 1
    BY <2>3, VolumeIs, 0 \in 0..4
  <2> QED BY <2>4, <2>5, <2>6 DEF s2, s3, s4
<1>5. (m \div (B * C)) % A = i
  <2> DEFINE BC == B * C
             jk == j * C + k
  <2>1. BC \in Nat /\ jk \in 0..(BC - 1) /\ jk \in Nat
    BY <1>2
  <2>2. m = i * BC + jk
    OBVIOUS
  <2> HIDE DEF BC, jk, m
  <2>3. m \div BC = i
    BY <2>1, <2>2, Quotient
  <2> QED BY <2>3, Small DEF BC
<1>6. (m \div C) % B = j /\ (m \div 1) % C = k
  <2> DEFINE ij == i * B + j
  <2>1. ij \in Nat /\ ij % B = j
    BY <1>2, Quotient
  <2>2. m = ij * C + k
    OBVIOUS
  <2> HIDE DEF ij, m
  <2>3. m \div C = ij /\ m % C = k
    BY <2>1, <2>2, Quotient
  <2>4. m \div 1 = m
    BY <1>3
  <2> QED BY <2>1, <2>3, <2>4
<1>7. Index(dims, m) = idx
  <2>1. /\ DOMAIN dims = {1, 2, 3} /\ Len(dims) = 3 /\ dims[1] = A /\ dims[2] = B /\ dims[3] = C
        /\ 1 + 1 = 2 /\ 2 + 1 = 3 /\ 3 + 1 = 4
    OBVIOUS
  <2> HIDE DEF dims, m
  <2>2. Index(dims, m) = [a \in {1, 2, 3} |-> IF a = 1 THEN i ELSE IF a = 2 THEN j ELSE k]
    BY <2>1, <1>4, <1>5, <1>6 DEF Index
  <2> QED BY <2>2
<1> QED BY <1>1, <1>3, <1>7 DEF Indexes

\* and with four.
LEMMA Indexing4 ==
    ASSUME NEW A \in Nat, NEW B \in Nat, NEW C \in Nat, NEW D \in Nat,
           NEW i \in 0..(A - 1), NEW j \in 0..(B - 1), NEW k \in 0..(C - 1), NEW l \in 0..(D - 1)
    PROVE  /\ Number(<<A, B, C, D>>, <<i, j, k, l>>) = ((i * B + j) * C + k) * D + l
           /\ Volume(<<A, B, C, D>>) = A * B * C * D
           /\ Indexes(<<A, B, C, D>>, <<i, j, k, l>>)
<1> DEFINE dims == <<A, B, C, D>>
           idx == <<i, j, k, l>>
           m == ((i * B + j) * C + k) * D + l
<1>1. Number(dims, idx) = m /\ Volume(dims) = A * B * C * D
  <2>1. DOMAIN dims = 1..4 /\ (\A a \in 1..4 : dims[a] \in Nat) /\ \A a \in 1..4 : idx[a] \in Int
    OBVIOUS
  <2>2. /\ dims[1] = A /\ dims[2] = B /\ dims[3] = C /\ dims[4] = D
        /\ idx[1] = i /\ idx[2] = j /\ idx[3] = k /\ idx[4] = l
    OBVIOUS
  <2> HIDE DEF dims, idx
  <2>3. Volume(dims) = dims[1] * dims[2] * dims[3] * dims[4]
    BY <2>1, VolumeIs, 4 \in 0..4
  <2>4. Number(dims, idx) = ((idx[1] * dims[2] + idx[2]) * dims[3] + idx[3]) * dims[4] + idx[4]
    BY <2>1, NumberIs, 4 \in 0..4
  <2> QED BY <2>2, <2>3, <2>4
<1>2. /\ i * B + j \in 0..(A * B - 1) /\ k * D + l \in 0..(C * D - 1)
      /\ {A * B, C * D, i * B + j, k * D + l} \subseteq Nat
  BY Below
<1> DEFINE AB == A * B
           CD == C * D
           ij == i * B + j
           kl == k * D + l
<1>3. /\ AB \in Nat /\ ij \in 0..(AB - 1) /\ CD \in Nat /\ kl \in 0..(CD - 1)
      /\ m = ij * CD + kl /\ A * B * C * D = AB * CD
      /\ ij % B = j /\ ij \div B = i /\ kl % D = l /\ kl \div D = k
  <2>1. ij % B = j /\ ij \div B = i /\ kl % D = l /\ kl \div D = k
    BY Quotient
  <2>2. m = ij * CD + kl /\ A * B * C * D = AB * CD
    OBVIOUS
  <2> QED BY <1>2, <2>1, <2>2
<1>4. m \in 0..(A * B * C * D - 1) /\ m \in Nat
  <2> HIDE DEF AB, CD, ij, kl, m
  <2> QED BY <1>3, Below
<1>5. /\ Volume(SubSeq(dims, 2, 4)) = B * C * D /\ Volume(SubSeq(dims, 3, 4)) = C * D
      /\ Volume(SubSeq(dims, 4, 4)) = D /\ Volume(SubSeq(dims, 5, 4)) = 1
  <2> DEFINE s2 == SubSeq(dims, 2, 4)
             s3 == SubSeq(dims, 3, 4)
             s4 == SubSeq(dims, 4, 4)
             s5 == SubSeq(dims, 5, 4)
  <2>1. DOMAIN s2 = 1..3 /\ s2[1] = B /\ s2[2] = C /\ s2[3] = D
    OBVIOUS
  <2>2. DOMAIN s3 = 1..2 /\ s3[1] = C /\ s3[2] = D
    OBVIOUS
  <2>3. DOMAIN s4 = 1..1 /\ s4[1] = D
    OBVIOUS
  <2>4. DOMAIN s5 = 1..0
    OBVIOUS
  <2> HIDE DEF s2, s3, s4, s5, dims
  <2>5. Volume(s2) = B * C * D
    BY <2>1, VolumeIs, 3 \in 0..4
  <2>6. Volume(s3) = C * D
    BY <2>2, VolumeIs, 2 \in 0..4
  <2>7. Volume(s4) = D
    BY <2>3, VolumeIs, 1 \in 0..4
  <2>8. Volume(s5) = 1
    BY <2>4, VolumeIs, 0 \in 0..4
  <2> QED BY <2>5, <2>6, <2>7, <2>8 DEF s2, s3, s4, s5
<1>6. (m \div (B * C * D)) % A = i
  <2> DEFINE BCD == B * CD
             jkl == j * CD + kl
  <2>1. BCD \in Nat /\ jkl \in 0..(BCD - 1) /\ jkl \in Nat
    <3> HIDE DEF CD, kl
    <3> QED BY <1>3, Below
  <2>2. m = i * BCD + jkl /\ B * C * D = BCD
    OBVIOUS
  <2> HIDE DEF BCD, jkl, m
  <2>3. m \div BCD = i
    BY <2>1, <2>2, Quotient
  <2> QED BY <2>2, <2>3, Small
<1>7. (m \div (C * D)) % B = j
  <2> HIDE DEF AB, ij, kl, m
  <2>1. kl \in Nat /\ ij \in Nat /\ kl < CD
    BY <1>3
  <2>2. m \div CD = ij
    <3> HIDE DEF CD
    <3> QED BY <1>3, <2>1, Quotient
  <2> QED BY <2>2, <1>3
<1>8. (m \div D) % C = k /\ (m \div 1) % D = l
  <2> DEFINE ijk == ij * C + k
  <2>1. ijk \in Nat /\ ijk % C = k
    <3> HIDE DEF AB, ij, CD, kl
    <3> QED BY <1>3, Quotient
  <2>2. m = ijk * D + l
    OBVIOUS
  <2> HIDE DEF ijk, m
  <2>3. m \div D = ijk /\ m % D = l
    BY <2>1, <2>2, Quotient
  <2>4. m \div 1 = m
    BY <1>4
  <2> QED BY <2>1, <2>3, <2>4
<1>9. Index(dims, m) = idx
  <2>1. /\ DOMAIN dims = {1, 2, 3, 4} /\ Len(dims) = 4
        /\ dims[1] = A /\ dims[2] = B /\ dims[3] = C /\ dims[4] = D
        /\ 1 + 1 = 2 /\ 2 + 1 = 3 /\ 3 + 1 = 4 /\ 4 + 1 = 5
    OBVIOUS
  <2> HIDE DEF dims, m, AB, CD, ij, kl
  <2>2. Index(dims, m) =
            [a \in {1, 2, 3, 4} |->
                IF a = 1 THEN i ELSE IF a = 2 THEN j ELSE IF a = 3 THEN k ELSE l]
    BY <2>1, <1>5, <1>6, <1>7, <1>8 DEF Index
  <2> QED BY <2>2
<1> QED BY <1>1, <1>4, <1>9 DEF Indexes

\* All that the operations below need of it: every index tuple has a place.
LEMMA Places ==
    ASSUME NEW A \in Nat, NEW B \in Nat
    PROVE  /\ \A i \in 0..(A - 1), j \in 0..(B - 1) : Indexes(<<A, B>>, <<i, j>>)
           /\ \A C \in Nat : \A i \in 0..(A - 1), j \in 0..(B - 1), k \in 0..(C - 1) :
                Indexes(<<A, B, C>>, <<i, j, k>>)
           /\ \A C, D \in Nat :
                \A i \in 0..(A - 1), j \in 0..(B - 1), k \in 0..(C - 1), l \in 0..(D - 1) :
                    Indexes(<<A, B, C, D>>, <<i, j, k, l>>)
<1>1. ASSUME NEW i \in 0..(A - 1), NEW j \in 0..(B - 1) PROVE Indexes(<<A, B>>, <<i, j>>)
  BY Indexing2
<1>2. ASSUME NEW C \in Nat, NEW i \in 0..(A - 1), NEW j \in 0..(B - 1), NEW k \in 0..(C - 1)
      PROVE  Indexes(<<A, B, C>>, <<i, j, k>>)
  BY Indexing3
<1>3. ASSUME NEW C \in Nat, NEW D \in Nat, NEW i \in 0..(A - 1), NEW j \in 0..(B - 1),
             NEW k \in 0..(C - 1), NEW l \in 0..(D - 1)
      PROVE  Indexes(<<A, B, C, D>>, <<i, j, k, l>>)
  BY Indexing4
<1> QED BY <1>1, <1>2, <1>3

\* The numbers by themselves.
LEMMA NumberIn3 ==
    ASSUME NEW A \in Nat, NEW B \in Nat, NEW C \in Nat,
           NEW i \in 0..(A - 1), NEW j \in 0..(B - 1), NEW k \in 0..(C - 1)
    PROVE  Number(<<A, B, C>>, <<i, j, k>>) = (i * B + j) * C + k
BY Indexing3

LEMMA NumberIn4 ==
    ASSUME NEW A \in Nat, NEW B \in Nat, NEW C \in Nat, NEW D \in Nat,
           NEW i \in 0..(A - 1), NEW j \in 0..(B - 1), NEW k \in 0..(C - 1), NEW l \in 0..(D - 1)
    PROVE  Number(<<A, B, C, D>>, <<i, j, k, l>>) = ((i * B + j) * C + k) * D + l
BY Indexing4, SMTT(30)

\* The number alone, for indices that need not be within the shape.
LEMMA NumberOfThree ==
    ASSUME NEW dims, dims \in Nat \X Nat \X Nat, NEW idx, idx \in Nat \X Nat \X Nat
    PROVE  Number(dims, idx) = (idx[1] * dims[2] + idx[2]) * dims[3] + idx[3]
<1>1. DOMAIN dims = 1..3 /\ (\A a \in 1..3 : dims[a] \in Nat) /\ \A a \in 1..3 : idx[a] \in Int
  OBVIOUS
<1> QED BY <1>1, NumberIs, 3 \in 0..4

LEMMA NumberOfFour ==
    ASSUME NEW dims, dims \in Nat \X Nat \X Nat \X Nat, NEW idx, idx \in Nat \X Nat \X Nat \X Nat
    PROVE  Number(dims, idx) =
             ((idx[1] * dims[2] + idx[2]) * dims[3] + idx[3]) * dims[4] + idx[4]
<1>1. DOMAIN dims = 1..4 /\ (\A a \in 1..4 : dims[a] \in Nat) /\ \A a \in 1..4 : idx[a] \in Int
  OBVIOUS
<1> QED BY <1>1, NumberIs, 4 \in 0..4

\* A shape nowhere zero has a volume,
LEMMA VolumePositive ==
    ASSUME NEW n \in Nat, NEW dims, DOMAIN dims = 1..n, \A a \in 1..n : dims[a] \in Nat \ {0}
    PROVE  Volume(dims) \in Nat \ {0}
<1>1. PICK v \in [0..n -> Int] : VolumeBy(v, dims, n)
  BY VolumePrefixes
<1> DEFINE T == {a \in Nat : a <= n => v[a] \in Nat \ {0}}
<1>2. 0 \in T
  BY <1>1 DEF VolumeBy
<1>3. ASSUME NEW a \in Nat, a \in T PROVE a + 1 \in T
  <2>1. ASSUME a + 1 <= n PROVE v[a + 1] \in Nat \ {0}
    <3>1. a + 1 \in 1..n /\ (a + 1) - 1 = a /\ v[a] \in Nat \ {0}
      BY <1>3, <2>1
    <3>2. v[a + 1] = v[a] * dims[a + 1] /\ dims[a + 1] \in Nat \ {0}
      BY <1>1, <3>1 DEF VolumeBy
    <3> DEFINE p == v[a]
               q == dims[a + 1]
    <3>3. p \in Nat \ {0} /\ q \in Nat \ {0} /\ v[a + 1] = p * q
      BY <3>1, <3>2
    <3> HIDE DEF p, q
    <3>4. 0 * q + q <= p * q /\ p * q \in Nat
      BY <3>3, Multiples
    <3> QED BY <3>3, <3>4
  <2> QED BY <2>1
<1> HIDE DEF T
<1>4. n \in T
  BY <1>2, <1>3, NumberInduction
<1> QED BY <1>1, <1>4 DEF T, VolumeBy

\* and an index tuple within it has a number below that,
LEMMA NumberBelow ==
    ASSUME NEW n \in Nat, NEW dims, DOMAIN dims = 1..n, \A a \in 1..n : dims[a] \in Nat \ {0},
           NEW idx, \A a \in 1..n : idx[a] \in 0..(dims[a] - 1)
    PROVE  Number(dims, idx) \in 0..(Volume(dims) - 1)
<1>0. (\A a \in 1..n : dims[a] \in Nat) /\ \A a \in 1..n : idx[a] \in Int
  OBVIOUS
<1>1. PICK v \in [0..n -> Int] : VolumeBy(v, dims, n)
  BY <1>0, VolumePrefixes
<1>2. PICK m \in [0..n -> Int] : NumberBy(m, dims, idx, n)
  BY <1>0, NumberPrefixes
<1> DEFINE T == {a \in Nat : a <= n => v[a] \in Nat /\ m[a] \in 0..(v[a] - 1)}
<1>3. 0 \in T
  BY <1>1, <1>2 DEF VolumeBy, NumberBy
<1>4. ASSUME NEW a \in Nat, a \in T PROVE a + 1 \in T
  <2>1. ASSUME a + 1 <= n PROVE v[a + 1] \in Nat /\ m[a + 1] \in 0..(v[a + 1] - 1)
    <3>1. a + 1 \in 1..n /\ (a + 1) - 1 = a /\ v[a] \in Nat /\ m[a] \in 0..(v[a] - 1)
      BY <1>4, <2>1
    <3>2. v[a + 1] = v[a] * dims[a + 1] /\ dims[a + 1] \in Nat
      BY <1>1, <3>1 DEF VolumeBy
    <3>3. m[a + 1] = m[a] * dims[a + 1] + idx[a + 1] /\ idx[a + 1] \in 0..(dims[a + 1] - 1)
      BY <1>2, <3>1 DEF NumberBy
    <3> DEFINE V == v[a]
               M == m[a]
               D == dims[a + 1]
               I == idx[a + 1]
    <3>4. /\ V \in Nat /\ D \in Nat /\ M \in 0..(V - 1) /\ I \in 0..(D - 1)
          /\ v[a + 1] = V * D /\ m[a + 1] = M * D + I
      BY <3>1, <3>2, <3>3
    <3> HIDE DEF V, M, D, I
    <3>5. V * D \in Nat /\ M * D + I \in 0..(V * D - 1)
      BY <3>4, Below
    <3> QED BY <3>4, <3>5
  <2> QED BY <2>1
<1> HIDE DEF T
<1>5. n \in T
  BY <1>3, <1>4, NumberInduction
<1> QED BY <1>1, <1>2, <1>5 DEF T, VolumeBy, NumberBy

\* as every number's index tuple is.
LEMMA IndexWithin ==
    ASSUME NEW n \in Nat, NEW dims, dims \in Seq(Nat \ {0}), Len(dims) = n, NEW m \in Nat,
           NEW a \in 1..n
    PROVE  Index(dims, m)[a] \in 0..(dims[a] - 1)
<1> DEFINE rest == SubSeq(dims, a + 1, Len(dims))
           V == Volume(rest)
<1>1. rest \in Seq(Nat \ {0}) /\ DOMAIN dims = 1..n /\ dims[a] \in Nat \ {0}
  OBVIOUS
<1>2. V \in Nat \ {0}
  <2> DEFINE k == Len(rest)
  <2>1. k \in Nat /\ DOMAIN rest = 1..k /\ \A c \in 1..k : rest[c] \in Nat \ {0}
    <3> HIDE DEF rest
    <3> QED BY <1>1
  <2> HIDE DEF rest, k
  <2> QED BY <2>1, VolumePositive
<1>3. Index(dims, m)[a] = (m \div V) % dims[a]
  <2> HIDE DEF V
  <2> QED BY <1>1 DEF Index, V
<1> HIDE DEF V
<1>4. m \div V \in Nat
  BY <1>2, Division
<1> DEFINE q == m \div V
           d == dims[a]
<1>5. q \in Nat /\ d \in Nat \ {0}
  BY <1>1, <1>4
<1> HIDE DEF q, d
<1>6. q % d \in 0..(d - 1)
  BY <1>5, Division
<1> QED BY <1>3, <1>6 DEF q, d

-----------------------------------------------------------------------------
(* Tensors: the operations on them *)

\* The shapes of tensors with four dimensions and with three.
Shaped4(t, A, B, C, D) == {A, B, C, D} \subseteq Nat /\ t.dims = <<A, B, C, D>>
Shaped3(t, A, B, C) == {A, B, C} \subseteq Nat /\ t.dims = <<A, B, C>>

\* y is t with the dimensions in the middle exchanged.
IsTransposed(y, t, A, B, C, D) ==
    /\ Shaped4(y, A, C, B, D)
    /\ \A i \in 0..(A - 1), j \in 0..(B - 1), k \in 0..(C - 1), l \in 0..(D - 1) :
         At(y, <<i, k, j, l>>) = At(t, <<i, j, k, l>>)

LEMMA TransposeAt ==
    ASSUME NEW A, NEW B, NEW C, NEW D, NEW t, Shaped4(t, A, B, C, D)
    PROVE  IsTransposed(Transpose(t), t, A, B, C, D)
<1>0. {A, B, C, D} \subseteq Nat /\ t.dims = <<A, B, C, D>>
  BY DEF Shaped4
<1> DEFINE dims == <<A, C, B, D>>
           u == Transpose(t)
<1>1. u = [dims |-> dims,
           data |-> [n \in 0..(Volume(dims) - 1) |->
                       At(t, <<Index(dims, n)[1], Index(dims, n)[3],
                               Index(dims, n)[2], Index(dims, n)[4]>>)]]
  BY <1>0 DEF Transpose, Tabulate
<1>2. ASSUME NEW i \in 0..(A - 1), NEW j \in 0..(B - 1), NEW k \in 0..(C - 1), NEW l \in 0..(D - 1)
      PROVE  At(u, <<i, k, j, l>>) = At(t, <<i, j, k, l>>)
  <2> DEFINE idx == <<i, k, j, l>>
             n == Number(dims, idx)
  <2>1. n \in 0..(Volume(dims) - 1) /\ Index(dims, n) = idx
    <3>1. Indexes(<<A, C, B, D>>, <<i, k, j, l>>)
      BY <1>0, Places
    <3> QED BY <3>1 DEF Indexes
  <2>2. At(u, idx) = u.data[n] /\ u.dims = dims
    BY <1>1 DEF At
  <2>3. idx[1] = i /\ idx[3] = j /\ idx[2] = k /\ idx[4] = l
    OBVIOUS
  <2> HIDE DEF n, idx, dims, u
  <2>4. u.data[n] = At(t, <<idx[1], idx[3], idx[2], idx[4]>>)
    BY <1>1, <2>1
  <2> QED BY <2>2, <2>3, <2>4 DEF idx
<1>3. u.dims = dims
  BY <1>1
<1> HIDE DEF u
<1> QED BY <1>0, <1>2, <1>3 DEF IsTransposed, Shaped4, u

\* w is t and then u along dimension 2.
IsCat(w, t, u, A, B, C, D, E) ==
    /\ Shaped4(w, A, B, C + E, D)
    /\ \A i \in 0..(A - 1), j \in 0..(B - 1), l \in 0..(D - 1) :
         /\ \A k \in 0..(C - 1) : At(w, <<i, j, k, l>>) = At(t, <<i, j, k, l>>)
         /\ \A k \in 0..(E - 1) : At(w, <<i, j, C + k, l>>) = At(u, <<i, j, k, l>>)

\* The past rows come first, the new ones after them.
LEMMA CatAt ==
    ASSUME NEW A, NEW B, NEW C, NEW D, NEW E, NEW t, NEW u,
           Shaped4(t, A, B, C, D), Shaped4(u, A, B, E, D)
    PROVE  IsCat(Cat(t, u), t, u, A, B, C, D, E)
<1>0. /\ A \in Nat /\ B \in Nat /\ C \in Nat /\ D \in Nat /\ E \in Nat
      /\ t.dims = <<A, B, C, D>> /\ u.dims = <<A, B, E, D>>
  BY DEF Shaped4
<1> DEFINE dims == <<A, B, C + E, D>>
           w == Cat(t, u)
<1>1. w = [dims |-> dims,
           data |-> [n \in 0..(Volume(dims) - 1) |->
                       IF Index(dims, n)[3] < C THEN At(t, Index(dims, n))
                       ELSE At(u, [Index(dims, n) EXCEPT ![3] = @ - C])]]
  <2> DEFINE d == [t.dims EXCEPT ![3] = @ + u.dims[3]]
  <2>1. d = dims /\ t.dims[3] = C
    BY <1>0
  <2>2. w = [dims |-> d,
             data |-> [n \in 0..(Volume(d) - 1) |->
                         IF Index(d, n)[3] < t.dims[3] THEN At(t, Index(d, n))
                         ELSE At(u, [Index(d, n) EXCEPT ![3] = @ - t.dims[3]])]]
    BY DEF Cat, Tabulate
  <2> HIDE DEF dims, d, w
  <2> QED BY <2>1, <2>2
<1>2. ASSUME NEW i \in 0..(A - 1), NEW j \in 0..(B - 1), NEW k \in 0..((C + E) - 1),
             NEW l \in 0..(D - 1)
      PROVE  At(w, <<i, j, k, l>>) =
                 IF k < C THEN At(t, <<i, j, k, l>>) ELSE At(u, <<i, j, k - C, l>>)
  <2> DEFINE idx == <<i, j, k, l>>
             n == Number(dims, idx)
  <2>1. n \in 0..(Volume(dims) - 1) /\ Index(dims, n) = idx
    <3> DEFINE F == C + E
    <3>1. F \in Nat /\ k \in 0..(F - 1)
      BY <1>0
    <3>2. Indexes(<<A, B, F, D>>, <<i, j, k, l>>)
      <4> HIDE DEF F
      <4> QED BY <1>0, <3>1, Places
    <3> QED BY <3>2 DEF Indexes
  <2>2. At(w, idx) = w.data[n]
    BY <1>1 DEF At
  <2>3. idx[3] = k /\ [idx EXCEPT ![3] = @ - C] = <<i, j, k - C, l>>
    OBVIOUS
  <2> HIDE DEF n, idx, dims, w
  <2>4. w.data[n] = IF idx[3] < C THEN At(t, idx) ELSE At(u, [idx EXCEPT ![3] = @ - C])
    BY <1>1, <2>1
  <2> QED BY <2>2, <2>3, <2>4 DEF idx
<1>3. w.dims = dims
  BY <1>1
<1>4. ASSUME NEW i \in 0..(A - 1), NEW j \in 0..(B - 1), NEW l \in 0..(D - 1), NEW k \in 0..(C - 1)
      PROVE  At(w, <<i, j, k, l>>) = At(t, <<i, j, k, l>>)
  <2>1. k \in 0..((C + E) - 1) /\ k < C
    BY <1>0
  <2> QED BY <2>1, <1>2
<1>5. ASSUME NEW i \in 0..(A - 1), NEW j \in 0..(B - 1), NEW l \in 0..(D - 1), NEW k \in 0..(E - 1)
      PROVE  At(w, <<i, j, C + k, l>>) = At(u, <<i, j, k, l>>)
  <2>1. C + k \in 0..((C + E) - 1) /\ ~(C + k < C) /\ (C + k) - C = k
    BY <1>0
  <2> QED BY <2>1, <1>2
<1> QED BY <1>0, <1>3, <1>4, <1>5 DEF IsCat, Shaped4, w

\* Narrow takes len rows from start on.
LEMMA NarrowAt ==
    ASSUME NEW A \in Nat, NEW B, NEW C \in Nat, NEW t, t.dims = <<A, B, C>>,
           NEW start \in Nat, NEW len \in Nat
    PROVE  /\ Narrow(t, start, len).dims = <<A, len, C>>
           /\ \A i \in 0..(A - 1), j \in 0..(len - 1), k \in 0..(C - 1) :
                At(Narrow(t, start, len), <<i, j, k>>) = At(t, <<i, j + start, k>>)
<1> DEFINE dims == <<A, len, C>>
           w == Narrow(t, start, len)
<1>1. w = [dims |-> dims,
           data |-> [n \in 0..(Volume(dims) - 1) |->
                       At(t, [Index(dims, n) EXCEPT ![2] = @ + start])]]
  <2>1. [t.dims EXCEPT ![2] = len] = dims
    OBVIOUS
  <2> HIDE DEF dims
  <2> QED BY <2>1 DEF Narrow, Tabulate
<1>2. ASSUME NEW i \in 0..(A - 1), NEW j \in 0..(len - 1), NEW k \in 0..(C - 1)
      PROVE  At(w, <<i, j, k>>) = At(t, <<i, j + start, k>>)
  <2> DEFINE idx == <<i, j, k>>
             n == Number(dims, idx)
  <2>1. n \in 0..(Volume(dims) - 1) /\ Index(dims, n) = idx
    <3>1. Indexes(<<A, len, C>>, <<i, j, k>>)
      BY Places
    <3> QED BY <3>1 DEF Indexes
  <2>2. At(w, idx) = w.data[n]
    BY <1>1 DEF At
  <2>3. [idx EXCEPT ![2] = @ + start] = <<i, j + start, k>>
    OBVIOUS
  <2> HIDE DEF n, idx, dims, w
  <2>4. w.data[n] = At(t, [idx EXCEPT ![2] = @ + start])
    BY <1>1, <2>1
  <2> QED BY <2>2, <2>3, <2>4 DEF idx, w
<1>3. w.dims = dims
  BY <1>1
<1> QED BY <1>2, <1>3

\* The mask hides from row s, of which P are in the past, what comes after P + s.
LEMMA MaskAt ==
    ASSUME NEW X \in Nat, NEW S \in Nat, NEW P \in Nat
    PROVE  \A x \in 0..(X - 1), s \in 0..(S - 1), j \in 0..((P + S) - 1) :
             At(AttentionMask(X, S, P), <<x, s, j>>) <=> j > P + s
<1> DEFINE T == P + S
           dims == <<X, T, T>>
           mask == AttentionMask(X, S, P)
<1>1. PICK full :
        /\ mask = Narrow(full, P, S)
        /\ full = [dims |-> dims,
                   data |-> [n \in 0..(Volume(dims) - 1) |->
                               Index(dims, n)[3] > Index(dims, n)[2]]]
  BY DEF AttentionMask, Tabulate
<1>2. T \in Nat /\ full.dims = <<X, T, T>>
  BY <1>1
<1>3. SUFFICES ASSUME NEW x \in 0..(X - 1), NEW s \in 0..(S - 1), NEW j \in 0..(T - 1)
               PROVE  At(mask, <<x, s, j>>) <=> j > P + s
  OBVIOUS
<1> DEFINE idx == <<x, s + P, j>>
           n == Number(dims, idx)
<1>4. At(mask, <<x, s, j>>) = At(full, idx)
  <2>1. At(Narrow(full, P, S), <<x, s, j>>) = At(full, <<x, s + P, j>>)
    <3> HIDE DEF T
    <3>1. full.dims = <<X, T, T>> /\ T \in Nat
      BY <1>2
    <3> HIDE DEF dims, mask, idx, n
    <3> QED BY <3>1, NarrowAt, SMTT(30)
  <2> QED BY <1>1, <2>1
<1>5. n \in 0..(Volume(dims) - 1) /\ Index(dims, n) = idx
  <2>1. s + P \in 0..(T - 1)
    OBVIOUS
  <2>2. Indexes(<<X, T, T>>, <<x, s + P, j>>)
    <3> HIDE DEF T
    <3> QED BY <1>2, <2>1, Places
  <2> QED BY <2>2 DEF Indexes
<1>6. At(full, idx) = full.data[n]
  BY <1>2 DEF At
<1>7. idx[3] = j /\ idx[2] = P + s
  OBVIOUS
<1> HIDE DEF idx, n, dims, mask
<1>8. full.data[n] <=> idx[3] > idx[2]
  BY <1>1, <1>5
<1> QED BY <1>4, <1>6, <1>7, <1>8

\* In a tensor with three dimensions every element is one of an index.
IsElement(x, t, A, B, C) ==
    \E i \in 0..(A - 1), j \in 0..(B - 1), k \in 0..(C - 1) : x = At(t, <<i, j, k>>)
LEMMA EveryElement ==
    ASSUME NEW A, NEW B, NEW C, NEW t, Shaped3(t, A, B, C), NEW n \in 0..(Volume(t.dims) - 1)
    PROVE  IsElement(t.data[n], t, A, B, C)
<1>1. A \in Nat /\ B \in Nat /\ C \in Nat /\ t.dims = <<A, B, C>>
  BY DEF Shaped3
<1>2. Volume(t.dims) = A * B * C
  BY <1>1, VolumeOfThree
<1>3. n \in Nat /\ n < A * B * C
  <2>1. A * B * C \in Nat
    BY <1>1
  <2> QED BY <1>2, <2>1
<1>4. C > 0
  <2> SUFFICES ASSUME C = 0 PROVE FALSE
    BY <1>1
  <2>1. A * B * C = 0
    BY <1>1
  <2> QED BY <1>3, <2>1
<1> DEFINE m == n \div C
           k == n % C
<1>5. m \in Nat /\ k \in 0..(C - 1) /\ n = m * C + k
  BY <1>1, <1>3, <1>4, Division
<1> HIDE DEF m, k
<1> DEFINE AB == A * B
<1>6. AB \in Nat /\ n < AB * C
  BY <1>1, <1>3
<1>7. m < AB
  <2> HIDE DEF AB
  <2> SUFFICES ASSUME AB <= m PROVE FALSE
    BY <1>5, <1>6
  <2>1. AB * C <= m * C
    <3>1. CASE AB = m
      BY <1>1, <1>5, <3>1
    <3>2. CASE AB < m
      BY <1>1, <1>5, <1>6, <3>2, Multiples
    <3> QED BY <1>5, <1>6, <3>1, <3>2
  <2>2. AB * C \in Nat /\ m * C \in Nat
    BY <1>1, <1>5, <1>6
  <2> QED BY <1>5, <1>6, <2>1, <2>2
<1>8. B > 0
  <2> SUFFICES ASSUME B = 0 PROVE FALSE
    BY <1>1
  <2>1. AB = 0
    BY <1>1
  <2> QED BY <1>5, <1>7, <2>1
<1> DEFINE i == m \div B
           j == m % B
<1>9. i \in Nat /\ j \in 0..(B - 1) /\ m = i * B + j
  BY <1>1, <1>5, <1>8, Division
<1> HIDE DEF i, j
<1>10. i < A
  <2> SUFFICES ASSUME A <= i PROVE FALSE
    BY <1>1, <1>9
  <2>1. A * B <= i * B
    <3>1. CASE A = i
      BY <1>1, <1>9, <3>1
    <3>2. CASE A < i
      BY <1>1, <1>9, <3>2, Multiples
    <3> QED BY <1>1, <1>9, <3>1, <3>2
  <2>2. A * B \in Nat /\ i * B \in Nat
    BY <1>1, <1>9
  <2> QED BY <1>7, <1>9, <2>1, <2>2
<1>11. i \in 0..(A - 1)
  BY <1>1, <1>9, <1>10
<1>12. At(t, <<i, j, k>>) = t.data[n]
  <2>1. Number(<<A, B, C>>, <<i, j, k>>) = (i * B + j) * C + k
    BY <1>1, <1>5, <1>9, <1>11, NumberIn3
  <2>2. Number(t.dims, <<i, j, k>>) = n
    BY <1>1, <1>5, <1>9, <2>1
  <2> QED BY <2>2 DEF At
<1> QED BY <1>5, <1>9, <1>11, <1>12 DEF IsElement

\* Two dimensions next to each other can be taken for one, and one for two.
Reshaped(t, A, B, C, D, i, j, k, l) ==
    /\ t.dims = <<A, B, C, D>> =>
         /\ At(Reshape(t, <<A * B, C, D>>), <<i * B + j, k, l>>) = At(t, <<i, j, k, l>>)
         /\ At(Reshape(t, <<A, B, C * D>>), <<i, j, k * D + l>>) = At(t, <<i, j, k, l>>)
    /\ t.dims = <<A * B, C, D>> =>
         At(Reshape(t, <<A, B, C, D>>), <<i, j, k, l>>) = At(t, <<i * B + j, k, l>>)

\* The elements stay in their order, in whatever shape.
LEMMA ReshapeAt ==
    ASSUME NEW A \in Nat, NEW B \in Nat, NEW C \in Nat, NEW D \in Nat, NEW t,
           NEW i \in 0..(A - 1), NEW j \in 0..(B - 1), NEW k \in 0..(C - 1), NEW l \in 0..(D - 1)
    PROVE  Reshaped(t, A, B, C, D, i, j, k, l)
<1> DEFINE dims == <<A, B, C, D>>
           idx == <<i, j, k, l>>
           low == <<A * B, C, D>>
           lowIdx == <<i * B + j, k, l>>
           high == <<A, B, C * D>>
           highIdx == <<i, j, k * D + l>>
<1>1. Number(dims, idx) = ((i * B + j) * C + k) * D + l
  <2>1. /\ dims \in Nat \X Nat \X Nat \X Nat /\ idx \in Nat \X Nat \X Nat \X Nat
        /\ dims[2] = B /\ dims[3] = C /\ dims[4] = D
        /\ idx[1] = i /\ idx[2] = j /\ idx[3] = k /\ idx[4] = l
    OBVIOUS
  <2> HIDE DEF dims, idx
  <2> QED BY <2>1, NumberOfFour
<1>2. A * B \in Nat /\ C * D \in Nat /\ i * B + j \in Nat /\ k * D + l \in Nat
  BY Below
<1>3. Number(low, lowIdx) = ((i * B + j) * C + k) * D + l
  <2>1. /\ low \in Nat \X Nat \X Nat /\ lowIdx \in Nat \X Nat \X Nat /\ low[2] = C /\ low[3] = D
        /\ lowIdx[1] = i * B + j /\ lowIdx[2] = k /\ lowIdx[3] = l
    BY <1>2
  <2> HIDE DEF low, lowIdx
  <2> QED BY <2>1, NumberOfThree
<1>4. Number(high, highIdx) = (i * B + j) * (C * D) + (k * D + l)
  <2>1. /\ high \in Nat \X Nat \X Nat /\ highIdx \in Nat \X Nat \X Nat
        /\ high[2] = B /\ high[3] = C * D
        /\ highIdx[1] = i /\ highIdx[2] = j /\ highIdx[3] = k * D + l
    BY <1>2
  <2> HIDE DEF high, highIdx
  <2> QED BY <2>1, NumberOfThree
<1>5. ((i * B + j) * C + k) * D + l = (i * B + j) * (C * D) + (k * D + l)
  <2> DEFINE ij == i * B + j
  <2>1. ij \in Int
    OBVIOUS
  <2> HIDE DEF ij
  <2>2. (ij * C + k) * D + l = ij * (C * D) + (k * D + l)
    BY <2>1
  <2> QED BY <2>2 DEF ij
<1> HIDE DEF low, lowIdx, high, highIdx, dims, idx
<1>6. Number(low, lowIdx) = Number(dims, idx) /\ Number(high, highIdx) = Number(dims, idx)
  BY <1>1, <1>3, <1>4, <1>5
<1>7. t.dims = dims => /\ At(Reshape(t, low), lowIdx) = At(t, idx)
                       /\ At(Reshape(t, high), highIdx) = At(t, idx)
  BY <1>6 DEF At, Reshape
<1>8. t.dims = low => At(Reshape(t, dims), idx) = At(t, lowIdx)
  BY <1>6 DEF At, Reshape
<1> QED BY <1>7, <1>8 DEF Reshaped, low, lowIdx, high, highIdx, dims, idx

\* y has the elements of x, two dimensions taken for one or one for two.
IsFlat(y, x, A, B, C, D) ==
    /\ Shaped3(y, A * B, C, D)
    /\ \A i \in 0..(A - 1), j \in 0..(B - 1), k \in 0..(C - 1), l \in 0..(D - 1) :
         At(y, <<i * B + j, k, l>>) = At(x, <<i, j, k, l>>)
IsJoined(y, x, A, B, C, D) ==
    /\ Shaped3(y, A, B, C * D)
    /\ \A i \in 0..(A - 1), j \in 0..(B - 1), k \in 0..(C - 1), l \in 0..(D - 1) :
         At(y, <<i, j, k * D + l>>) = At(x, <<i, j, k, l>>)
IsUnflat(y, x, A, B, C, D) ==
    /\ Shaped4(y, A, B, C, D)
    /\ \A i \in 0..(A - 1), j \in 0..(B - 1), k \in 0..(C - 1), l \in 0..(D - 1) :
         At(y, <<i, j, k, l>>) = At(x, <<i * B + j, k, l>>)

\* Heads are flattened with the batch, and joined at the end,
LEMMA FlatAt ==
    ASSUME NEW A, NEW B, NEW C, NEW D, NEW x, Shaped4(x, A, B, C, D)
    PROVE  /\ IsFlat(Reshape(x, <<A * B, C, D>>), x, A, B, C, D)
           /\ IsJoined(Reshape(x, <<A, B, C * D>>), x, A, B, C, D)
<1>1. A \in Nat /\ B \in Nat /\ C \in Nat /\ D \in Nat /\ x.dims = <<A, B, C, D>>
  BY DEF Shaped4
<1>2. ASSUME NEW i \in 0..(A - 1), NEW j \in 0..(B - 1), NEW k \in 0..(C - 1), NEW l \in 0..(D - 1)
      PROVE  /\ At(Reshape(x, <<A * B, C, D>>), <<i * B + j, k, l>>) = At(x, <<i, j, k, l>>)
             /\ At(Reshape(x, <<A, B, C * D>>), <<i, j, k * D + l>>) = At(x, <<i, j, k, l>>)
  <2>1. Reshaped(x, A, B, C, D, i, j, k, l)
    BY <1>1, ReshapeAt
  <2> QED BY <1>1, <2>1 DEF Reshaped
<1>3. A * B \in Nat /\ C * D \in Nat
  BY <1>1
<1>4. Shaped3(Reshape(x, <<A * B, C, D>>), A * B, C, D)
  BY <1>1, <1>3 DEF Shaped3, Reshape
<1>5. Shaped3(Reshape(x, <<A, B, C * D>>), A, B, C * D)
  BY <1>1, <1>3 DEF Shaped3, Reshape
<1> QED BY <1>2, <1>4, <1>5 DEF IsFlat, IsJoined

\* and taken apart again.
LEMMA UnflatAt ==
    ASSUME NEW A \in Nat, NEW B \in Nat, NEW C, NEW D, NEW x, Shaped3(x, A * B, C, D)
    PROVE  IsUnflat(Reshape(x, <<A, B, C, D>>), x, A, B, C, D)
<1>1. C \in Nat /\ D \in Nat /\ x.dims = <<A * B, C, D>>
  BY DEF Shaped3
<1>2. ASSUME NEW i \in 0..(A - 1), NEW j \in 0..(B - 1), NEW k \in 0..(C - 1), NEW l \in 0..(D - 1)
      PROVE  At(Reshape(x, <<A, B, C, D>>), <<i, j, k, l>>) = At(x, <<i * B + j, k, l>>)
  <2>1. Reshaped(x, A, B, C, D, i, j, k, l)
    BY <1>1, ReshapeAt
  <2> QED BY <1>1, <2>1 DEF Reshaped
<1>3. Shaped4(Reshape(x, <<A, B, C, D>>), A, B, C, D)
  BY <1>1 DEF Shaped4, Reshape
<1> QED BY <1>2, <1>3 DEF IsUnflat

-----------------------------------------------------------------------------
(* The transformer block: projections, heads and their rotation *)

\* The two halves of a head that the rotation pairs.
Half == head_dim \div 2

\* The numbers that the configuration makes of its own.
LEMMA Widths ==
    /\ {n_heads, n_kv_heads, head_dim, n_kv_groups, hidden_size, Half} \subseteq Nat \ {0}
    /\ n_heads = n_kv_heads * n_kv_groups /\ hidden_size = n_heads * head_dim
    /\ head_dim = Half + Half
<1>1. /\ n_heads \in Nat \ {0} /\ n_kv_heads \in Nat \ {0} /\ head_dim \in Nat \ {0}
      /\ n_heads % n_kv_heads = 0 /\ head_dim % 2 = 0
  BY ConfigAssumption
<1>2. n_kv_groups \in Nat /\ n_heads = n_kv_groups * n_kv_heads + 0
  BY <1>1, Division DEF n_kv_groups
<1>3. n_kv_groups # 0
  BY <1>1, <1>2
<1>4. Half \in Nat /\ head_dim = Half * 2 + 0
  BY <1>1, Division DEF Half
<1>5. Half # 0
  BY <1>1, <1>4
<1>6. hidden_size \in Nat /\ hidden_size # 0
  <2>1. 0 * head_dim + head_dim <= n_heads * head_dim /\ n_heads * head_dim \in Nat
    BY <1>1, Multiples
  <2> QED BY <1>1, <2>1 DEF hidden_size
<1> QED BY <1>1, <1>2, <1>3, <1>4, <1>5, <1>6 DEF hidden_size

\* An element of the projection w of row s of sequence b.
ProjCell(w, hidden, b, s, c) == [w |-> w, col |-> c, deps |-> RowDeps(hidden, b, s)]

\* p is a projection, x its heads, and y the heads rotated.
IsProjection(p, w, hidden, B, S, cols) ==
    /\ Shaped3(p, B, S, cols)
    /\ \A b \in 0..(B - 1), s \in 0..(S - 1), c \in 0..(cols - 1) :
         At(p, <<b, s, c>>) = ProjCell(w, hidden, b, s, c)
IsHeads(x, p, B, S, n) ==
    /\ Shaped4(x, B, n, S, head_dim)
    /\ \A b \in 0..(B - 1), h \in 0..(n - 1), s \in 0..(S - 1), d \in 0..(head_dim - 1) :
         /\ h * head_dim + d \in 0..(n * head_dim - 1)
         /\ At(x, <<b, h, s, d>>) = At(p, <<b, s, h * head_dim + d>>)
IsRotated(y, x, position_ids, B, n, S) ==
    /\ Shaped4(y, B, n, S, head_dim)
    /\ \A b \in 0..(B - 1), h \in 0..(n - 1), s \in 0..(S - 1), d \in 0..(head_dim - 1) :
         At(y, <<b, h, s, d>>) =
             [cos |-> At(x, <<b, h, s, d>>),
              sin |-> At(x, <<b, h, s, (d + Half) % head_dim>>),
              neg |-> d < Half, freq |-> d % Half, pos |-> At(position_ids, <<b, s>>)]

\* A projection has the columns asked for,
LEMMA ProjectAt ==
    ASSUME NEW w, NEW cols \in Nat, NEW B \in Nat, NEW S \in Nat,
           NEW hidden, hidden.dims[1] = B, hidden.dims[2] = S
    PROVE  IsProjection(Project(w, hidden, cols), w, hidden, B, S, cols)
<1> DEFINE dims == <<B, S, cols>>
           x == Project(w, hidden, cols)
<1>1. x = [dims |-> dims,
           data |-> [n \in 0..(Volume(dims) - 1) |->
                       [w |-> w, col |-> Index(dims, n)[3],
                        deps |-> RowDeps(hidden, Index(dims, n)[1], Index(dims, n)[2])]]]
  BY DEF Project, Tabulate
<1>2. ASSUME NEW b \in 0..(B - 1), NEW s \in 0..(S - 1), NEW c \in 0..(cols - 1)
      PROVE  At(x, <<b, s, c>>) = ProjCell(w, hidden, b, s, c)
  <2> DEFINE idx == <<b, s, c>>
             n == Number(dims, idx)
  <2>1. n \in 0..(Volume(dims) - 1) /\ Index(dims, n) = idx
    <3>1. Indexes(<<B, S, cols>>, <<b, s, c>>)
      BY Places
    <3> QED BY <3>1 DEF Indexes
  <2>2. At(x, idx) = x.data[n]
    BY <1>1 DEF At
  <2>3. idx[1] = b /\ idx[2] = s /\ idx[3] = c
    OBVIOUS
  <2> HIDE DEF n, idx, dims, x
  <2>4. x.data[n] = [w |-> w, col |-> idx[3], deps |-> RowDeps(hidden, idx[1], idx[2])]
    BY <1>1, <2>1
  <2> QED BY <2>2, <2>3, <2>4 DEF idx, x, ProjCell
<1>3. Shaped3(x, B, S, cols)
  BY <1>1 DEF Shaped3
<1> HIDE DEF x
<1>4. IsProjection(x, w, hidden, B, S, cols)
  BY <1>2, <1>3 DEF IsProjection
<1> QED BY <1>4 DEF x

\* of which head h has those from h * head_dim on.
LEMMA HeadsAt ==
    ASSUME NEW B \in Nat, NEW S \in Nat, NEW n \in Nat,
           NEW x, x.dims = <<B, S, n * head_dim>>
    PROVE  IsHeads(Heads(x, n), x, B, S, n)
<1> DEFINE r == Reshape(x, <<x.dims[1], x.dims[2], n, head_dim>>)
           H == head_dim
<1>1. r.dims = <<B, S, n, H>> /\ r.data = x.data
  BY DEF Reshape
<1>2. Heads(x, n) = Transpose(r)
  BY DEF Heads
<1>3. H \in Nat
  BY Widths
<1> HIDE DEF r, H
<1>4. IsTransposed(Transpose(r), r, B, S, n, H)
  <2>1. Shaped4(r, B, S, n, H)
    BY <1>1, <1>3 DEF Shaped4
  <2> QED BY <2>1, TransposeAt
<1>5. ASSUME NEW b \in 0..(B - 1), NEW h \in 0..(n - 1), NEW s \in 0..(S - 1), NEW d \in 0..(H - 1)
      PROVE  /\ h * H + d \in 0..(n * H - 1)
             /\ At(Transpose(r), <<b, h, s, d>>) = At(x, <<b, s, h * H + d>>)
  <2>1. At(Transpose(r), <<b, h, s, d>>) = At(r, <<b, s, h, d>>)
    BY <1>4 DEF IsTransposed
  <2>2. h * H + d \in 0..(n * H - 1) /\ n * H \in Nat
    BY <1>3, Below
  <2>3. Number(<<B, S, n, H>>, <<b, s, h, d>>) = ((b * S + s) * n + h) * H + d
    BY <1>3, NumberIn4, SMTT(30)
  <2>4. Number(<<B, S, n * H>>, <<b, s, h * H + d>>) = (b * S + s) * (n * H) + (h * H + d)
    <3> DEFINE nH == n * H
               c == h * H + d
    <3>1. nH \in Nat /\ c \in 0..(nH - 1)
      BY <2>2
    <3> HIDE DEF nH, c
    <3>2. Number(<<B, S, nH>>, <<b, s, c>>) = (b * S + s) * nH + c
      BY <3>1, NumberIn3
    <3> QED BY <3>2 DEF nH, c
  <2>5. ((b * S + s) * n + h) * H + d = (b * S + s) * (n * H) + (h * H + d)
    <3> DEFINE bs == b * S + s
    <3>1. bs \in Int
      OBVIOUS
    <3> HIDE DEF bs
    <3>2. (bs * n + h) * H + d = bs * (n * H) + (h * H + d)
      BY <3>1, <1>3
    <3> QED BY <3>2 DEF bs
  <2>6. x.dims = <<B, S, n * H>>
    BY DEF H
  <2>7. At(r, <<b, s, h, d>>) = At(x, <<b, s, h * H + d>>)
    BY <1>1, <2>3, <2>4, <2>5, <2>6 DEF At
  <2> QED BY <2>1, <2>2, <2>7
<1>6. Shaped4(Transpose(r), B, n, S, H)
  BY <1>4 DEF IsTransposed
<1>7. IsHeads(Transpose(r), x, B, S, n)
  BY <1>5, <1>6 DEF IsHeads, H
<1> QED BY <1>2, <1>7

\* An element is rotated with the one half a head away.
LEMMA RopeAt ==
    ASSUME NEW B \in Nat, NEW n \in Nat, NEW S \in Nat,
           NEW x, x.dims = <<B, n, S, head_dim>>, NEW position_ids
    PROVE  IsRotated(Rope(x, position_ids), x, position_ids, B, n, S)
<1> DEFINE dims == <<B, n, S, head_dim>>
           y == Rope(x, position_ids)
<1>1. y = [dims |-> dims,
           data |-> [m \in 0..(Volume(dims) - 1) |->
                       [cos |-> At(x, Index(dims, m)),
                        sin |-> At(x, [Index(dims, m) EXCEPT ![4] = (@ + Half) % head_dim]),
                        neg |-> Index(dims, m)[4] < Half, freq |-> Index(dims, m)[4] % Half,
                        pos |-> At(position_ids, <<Index(dims, m)[1], Index(dims, m)[3]>>)]]]
  BY DEF Rope, Tabulate, Half
<1>2. ASSUME NEW b \in 0..(B - 1), NEW h \in 0..(n - 1), NEW s \in 0..(S - 1),
             NEW d \in 0..(head_dim - 1)
      PROVE  At(y, <<b, h, s, d>>) =
                    [cos |-> At(x, <<b, h, s, d>>),
                     sin |-> At(x, <<b, h, s, (d + Half) % head_dim>>),
                     neg |-> d < Half, freq |-> d % Half, pos |-> At(position_ids, <<b, s>>)]
  <2> DEFINE idx == <<b, h, s, d>>
             m == Number(dims, idx)
  <2>1. m \in 0..(Volume(dims) - 1) /\ Index(dims, m) = idx
    <3>1. Indexes(<<B, n, S, head_dim>>, <<b, h, s, d>>)
      BY Places, Widths
    <3> QED BY <3>1 DEF Indexes
  <2>2. At(y, idx) = y.data[m]
    BY <1>1 DEF At
  <2>3. /\ idx[1] = b /\ idx[3] = s /\ idx[4] = d
        /\ [idx EXCEPT ![4] = (@ + Half) % head_dim] = <<b, h, s, (d + Half) % head_dim>>
    OBVIOUS
  <2> HIDE DEF m, idx, dims, y
  <2>4. y.data[m] = [cos |-> At(x, idx),
                     sin |-> At(x, [idx EXCEPT ![4] = (@ + Half) % head_dim]),
                     neg |-> idx[4] < Half, freq |-> idx[4] % Half,
                     pos |-> At(position_ids, <<idx[1], idx[3]>>)]
    BY <1>1, <2>1
  <2> QED BY <2>2, <2>3, <2>4 DEF idx, y
<1>3. Shaped4(y, B, n, S, head_dim)
  BY <1>1, Widths DEF Shaped4
<1> HIDE DEF y
<1>4. IsRotated(y, x, position_ids, B, n, S)
  BY <1>2, <1>3 DEF IsRotated
<1> QED BY <1>4 DEF y

\* Each row of heads of kv stands n_kv_groups times in y, the copies together.
IsRepeated(y, kv, X, T, D) ==
    /\ Shaped3(y, X * n_kv_groups, T, D)
    /\ \A z \in 0..(X - 1), w \in 0..(n_kv_groups - 1), j \in 0..(T - 1), d \in 0..(D - 1) :
         At(y, <<z * n_kv_groups + w, j, d>>) = At(kv, <<z, j, d>>)

\* A head of keys or values is repeated for every query head of its group.
LEMMA RepeatKvAt ==
    ASSUME NEW X, NEW T, NEW D, NEW kv, Shaped3(kv, X, T, D)
    PROVE  IsRepeated(RepeatKv(kv), kv, X, T, D)
<1> DEFINE G == n_kv_groups
           dims == <<X, G, T, D>>
           wide == <<X * G, T, D>>
           y == RepeatKv(kv)
<1>1. G \in Nat /\ X \in Nat /\ T \in Nat /\ D \in Nat /\ kv.dims = <<X, T, D>>
  BY Widths DEF Shaped3
<1> HIDE DEF G
<1>2. y = [dims |-> wide,
           data |-> [m \in 0..(Volume(dims) - 1) |->
                       At(kv, <<Index(dims, m)[1], Index(dims, m)[3], Index(dims, m)[4]>>)]]
  BY <1>1 DEF RepeatKv, Reshape, Tabulate, G
<1>3. ASSUME NEW z \in 0..(X - 1), NEW w \in 0..(G - 1), NEW j \in 0..(T - 1), NEW d \in 0..(D - 1)
      PROVE  At(y, <<z * G + w, j, d>>) = At(kv, <<z, j, d>>)
  <2> DEFINE idx == <<z, w, j, d>>
             m == Number(dims, idx)
             x == z * G + w
             XG == X * G
  <2>1. x \in 0..(XG - 1) /\ x \in Nat /\ XG \in Nat
    BY <1>1, Below
  <2>2. m \in 0..(Volume(dims) - 1) /\ Index(dims, m) = idx
    <3>1. Indexes(<<X, G, T, D>>, <<z, w, j, d>>)
      BY Places, <1>1
    <3> QED BY <3>1 DEF Indexes
  <2>3. m = (x * T + j) * D + d
    BY <1>1, NumberIn4, SMTT(30)
  <2>4. Number(<<XG, T, D>>, <<x, j, d>>) = (x * T + j) * D + d
    <3> HIDE DEF x, XG
    <3> QED BY <1>1, <2>1, NumberIn3
  <2>5. At(y, <<x, j, d>>) = y.data[m]
    <3>1. y.dims = <<XG, T, D>>
      BY <1>2
    <3> HIDE DEF y, x, XG, m
    <3> QED BY <3>1, <2>3, <2>4 DEF At
  <2>6. idx[1] = z /\ idx[3] = j /\ idx[4] = d
    OBVIOUS
  <2> HIDE DEF m, idx, dims, y, x, XG
  <2>7. y.data[m] = At(kv, <<idx[1], idx[3], idx[4]>>)
    BY <1>2, <2>2
  <2>8. At(y, <<x, j, d>>) = At(kv, <<z, j, d>>)
    BY <2>5, <2>6, <2>7
  <2> QED BY <2>8 DEF x
<1>4. Shaped3(y, X * G, T, D)
  <2>1. X * G \in Nat
    BY <1>1
  <2> QED BY <1>1, <1>2, <2>1 DEF Shaped3
<1> HIDE DEF y
<1>5. IsRepeated(y, kv, X, T, D)
  BY <1>3, <1>4 DEF IsRepeated, G
<1> QED BY <1>5 DEF y

\* The positions run on from the first, in every sequence.
LEMMA PositionsAt ==
    ASSUME NEW B \in Nat, NEW first \in Nat, NEW S \in Nat
    PROVE  \A b \in 0..(B - 1), s \in 0..(S - 1) : At(Positions(B, first, S), <<b, s>>) = first + s
<1> DEFINE dims == <<B, S>>
           y == Positions(B, first, S)
<1>1. y = [dims |-> dims, data |-> [n \in 0..(Volume(dims) - 1) |-> first + Index(dims, n)[2]]]
  BY DEF Positions, Tabulate
<1>2. ASSUME NEW b \in 0..(B - 1), NEW s \in 0..(S - 1) PROVE At(y, <<b, s>>) = first + s
  <2> DEFINE idx == <<b, s>>
             n == Number(dims, idx)
  <2>1. n \in 0..(Volume(dims) - 1) /\ Index(dims, n) = idx
    <3>1. Indexes(<<B, S>>, <<b, s>>)
      BY Places
    <3> QED BY <3>1 DEF Indexes
  <2>2. At(y, idx) = y.data[n] /\ idx[2] = s
    BY <1>1 DEF At
  <2> HIDE DEF n, idx, dims, y
  <2>3. y.data[n] = first + idx[2]
    BY <1>1, <2>1
  <2> QED BY <2>2, <2>3 DEF idx, y
<1> QED BY <1>2

\* An element of head h of the projection w, rotated to its position.
RotCell(w, hidden, position_ids, b, s, h, d) ==
    [cos |-> ProjCell(w, hidden, b, s, h * head_dim + d),
     sin |-> ProjCell(w, hidden, b, s, h * head_dim + ((d + Half) % head_dim)),
     neg |-> d < Half, freq |-> d % Half, pos |-> At(position_ids, <<b, s>>)]

\* x has the heads of a projection, and y has them rotated.
IsProjected(x, y, w, hidden, position_ids, B, S, n) ==
    /\ Shaped4(x, B, n, S, head_dim) /\ Shaped4(y, B, n, S, head_dim)
    /\ \A b \in 0..(B - 1), h \in 0..(n - 1), s \in 0..(S - 1), d \in 0..(head_dim - 1) :
         /\ At(x, <<b, h, s, d>>) = ProjCell(w, hidden, b, s, h * head_dim + d)
         /\ At(y, <<b, h, s, d>>) = RotCell(w, hidden, position_ids, b, s, h, d)

\* What the heads of a projection hold, before and after the rotation.
LEMMA ProjectedHeads ==
    ASSUME NEW B \in Nat, NEW S \in Nat, NEW n \in Nat, NEW w, NEW position_ids,
           NEW hidden, hidden.dims[1] = B, hidden.dims[2] = S
    PROVE  IsProjected(Heads(Project(w, hidden, n * head_dim), n),
                       Rope(Heads(Project(w, hidden, n * head_dim), n), position_ids),
                       w, hidden, position_ids, B, S, n)
<1> DEFINE H == head_dim
           p == Project(w, hidden, n * H)
           x == Heads(p, n)
           y == Rope(x, position_ids)
<1>1. H \in Nat /\ H # 0 /\ Half \in Nat /\ n * H \in Nat
  BY Widths
<1> HIDE DEF H
<1>2. IsProjection(p, w, hidden, B, S, n * H)
  <2> DEFINE nH == n * H
  <2>1. nH \in Nat
    BY <1>1
  <2> HIDE DEF nH
  <2>2. IsProjection(Project(w, hidden, nH), w, hidden, B, S, nH)
    BY <2>1, ProjectAt
  <2> QED BY <2>2 DEF nH
<1> HIDE DEF p
<1>3. IsHeads(x, p, B, S, n)
  <2>1. p.dims = <<B, S, n * head_dim>>
    BY <1>2 DEF IsProjection, Shaped3, H
  <2> QED BY <2>1, HeadsAt
<1> HIDE DEF x
<1>4. IsRotated(y, x, position_ids, B, n, S)
  <2>1. x.dims = <<B, n, S, head_dim>>
    BY <1>3 DEF IsHeads, Shaped4
  <2> QED BY <2>1, RopeAt
<1> HIDE DEF y
<1>5. ASSUME NEW b \in 0..(B - 1), NEW h \in 0..(n - 1), NEW s \in 0..(S - 1), NEW d \in 0..(H - 1)
      PROVE  At(x, <<b, h, s, d>>) = ProjCell(w, hidden, b, s, h * H + d)
  <2> DEFINE c == h * H + d
  <2>1. c \in 0..(n * H - 1) /\ At(x, <<b, h, s, d>>) = At(p, <<b, s, c>>)
    BY <1>3 DEF IsHeads, H
  <2> HIDE DEF c
  <2>2. At(p, <<b, s, c>>) = ProjCell(w, hidden, b, s, c)
    BY <1>2, <2>1 DEF IsProjection
  <2> QED BY <2>1, <2>2 DEF c
<1>6. ASSUME NEW b \in 0..(B - 1), NEW h \in 0..(n - 1), NEW s \in 0..(S - 1), NEW d \in 0..(H - 1)
      PROVE  At(y, <<b, h, s, d>>) = RotCell(w, hidden, position_ids, b, s, h, d)
  <2> DEFINE e == (d + Half) % H
  <2>1. e \in 0..(H - 1)
    <3>1. d + Half \in Nat /\ H > 0
      BY <1>1
    <3> QED BY <3>1, <1>1, Division
  <2>2. At(x, <<b, h, s, e>>) = ProjCell(w, hidden, b, s, h * H + e)
    <3> HIDE DEF e
    <3> QED BY <2>1, <1>5
  <2>3. At(x, <<b, h, s, d>>) = ProjCell(w, hidden, b, s, h * H + d)
    BY <1>5
  <2>4. At(y, <<b, h, s, d>>) =
                    [cos |-> At(x, <<b, h, s, d>>), sin |-> At(x, <<b, h, s, e>>),
                     neg |-> d < Half, freq |-> d % Half, pos |-> At(position_ids, <<b, s>>)]
    BY <1>4 DEF IsRotated, H
  <2> QED BY <2>2, <2>3, <2>4 DEF RotCell, H
<1>7. Shaped4(x, B, n, S, H) /\ Shaped4(y, B, n, S, H)
  BY <1>3, <1>4 DEF IsHeads, IsRotated, H
<1>8. IsProjected(x, y, w, hidden, position_ids, B, S, n)
  BY <1>5, <1>6, <1>7 DEF IsProjected, H
<1> QED BY <1>8 DEF x, y, p, H

-----------------------------------------------------------------------------
(* The transformer block: attention with the keys and values kept *)

\* A row of head h,
HeadRow(x, h, s) == [d \in 0..(head_dim - 1) |-> At(x, <<h, s, d>>)]

\* and what an output element is made of: the rows up to its own.
SeenRows(q, k, v, x, s, d, P) ==
    {[q |-> HeadRow(q, x, s), k |-> HeadRow(k, x, j), v |-> At(v, <<x, j, d>>)] : j \in 0..(P + s)}

\* Row s of out is made of the rows up to P + s of k and v.
IsAttend(out, q, k, v, X, S, P) ==
    /\ Shaped3(out, X, S, head_dim)
    /\ \A x \in 0..(X - 1), s \in 0..(S - 1), d \in 0..(head_dim - 1) :
         At(out, <<x, s, d>>) = SeenRows(q, k, v, x, s, d, P)

\* Under the mask a row attends to no row after it, and to every other.
LEMMA AttendAt ==
    ASSUME NEW X, NEW S, NEW P \in Nat, NEW q, Shaped3(q, X, S, head_dim),
           NEW k, Shaped3(k, X, P + S, head_dim), NEW v
    PROVE  IsAttend(Attend(q, k, v, AttentionMask(X, S, P)), q, k, v, X, S, P)
<1>0. X \in Nat /\ S \in Nat /\ q.dims = <<X, S, head_dim>> /\ k.dims[2] = P + S
  BY DEF Shaped3
<1> DEFINE dims == <<X, S, head_dim>>
           T == P + S
           mask == AttentionMask(X, S, P)
           out == Attend(q, k, v, mask)
           Seen(x, s) == {j \in 0..(T - 1) : ~At(mask, <<x, s, j>>)}
<1>1. out = [dims |-> dims,
             data |-> [n \in 0..(Volume(dims) - 1) |->
               {[q |-> HeadRow(q, Index(dims, n)[1], Index(dims, n)[2]),
                 k |-> HeadRow(k, Index(dims, n)[1], j),
                 v |-> At(v, <<Index(dims, n)[1], j, Index(dims, n)[3]>>)] :
                    j \in Seen(Index(dims, n)[1], Index(dims, n)[2])}]]
  <2>1. k.dims[2] = T /\ q.dims = dims
    BY <1>0
  <2> HIDE DEF mask, T
  <2> QED BY <2>1 DEF Attend, Tabulate, HeadRow
<1>2. ASSUME NEW x \in 0..(X - 1), NEW s \in 0..(S - 1), NEW d \in 0..(head_dim - 1)
      PROVE  At(out, <<x, s, d>>) =
                {[q |-> HeadRow(q, x, s), k |-> HeadRow(k, x, j), v |-> At(v, <<x, j, d>>)] :
                    j \in 0..(P + s)}
  <2> DEFINE idx == <<x, s, d>>
             n == Number(dims, idx)
  <2>1. n \in 0..(Volume(dims) - 1) /\ Index(dims, n) = idx
    <3>1. Indexes(<<X, S, head_dim>>, <<x, s, d>>)
      BY <1>0, Places, Widths
    <3> QED BY <3>1 DEF Indexes
  <2>2. At(out, idx) = out.data[n]
    BY <1>1 DEF At
  <2>3. idx[1] = x /\ idx[2] = s /\ idx[3] = d
    OBVIOUS
  <2>4. Seen(x, s) = 0..(P + s)
    <3>1. \A j \in 0..(T - 1) : At(mask, <<x, s, j>>) <=> j > P + s
      BY <1>0, MaskAt
    <3>2. T \in Nat /\ P + s < T /\ P + s \in Nat
      BY <1>0
    <3> HIDE DEF mask, T
    <3> QED BY <3>1, <3>2
  <2> HIDE DEF n, idx, dims, out, Seen
  <2>5. out.data[n] =
            {[q |-> HeadRow(q, idx[1], idx[2]), k |-> HeadRow(k, idx[1], j),
              v |-> At(v, <<idx[1], j, idx[3]>>)] : j \in Seen(idx[1], idx[2])}
    BY <1>1, <2>1
  <2>6. out.data[n] =
            {[q |-> HeadRow(q, x, s), k |-> HeadRow(k, x, j), v |-> At(v, <<x, j, d>>)] :
                    j \in 0..(P + s)}
    BY <2>3, <2>4, <2>5
  <2> QED BY <2>2, <2>6 DEF idx, out
<1>3. out.dims = dims
  BY <1>1
<1>4. Shaped3(out, X, S, head_dim)
  BY <1>0, <1>3, Widths DEF Shaped3
<1> QED BY <1>2, <1>4 DEF IsAttend, SeenRows

\* The keys and values kept have the rows of P tokens.
PastOK(kept, B, P) ==
    /\ kept = <<>> => P = 0
    /\ kept # <<>> => /\ Shaped4(kept[1], B, n_kv_heads, P, head_dim)
                            /\ Shaped4(kept[2], B, n_kv_heads, P, head_dim)

\* keys and vals have the rows of kept, and then those of hidden.
IsKept(keys, vals, kept, hidden, position_ids, B, S, P) ==
    /\ Shaped4(keys, B, n_kv_heads, P + S, head_dim)
    /\ Shaped4(vals, B, n_kv_heads, P + S, head_dim)
    /\ \A b \in 0..(B - 1), g \in 0..(n_kv_heads - 1), d \in 0..(head_dim - 1) :
         /\ \A j \in 0..(P - 1) :
              /\ At(keys, <<b, g, j, d>>) = At(kept[1], <<b, g, j, d>>)
              /\ At(vals, <<b, g, j, d>>) = At(kept[2], <<b, g, j, d>>)
         /\ \A s \in 0..(S - 1) :
              /\ At(keys, <<b, g, P + s, d>>) = RotCell("k", hidden, position_ids, b, s, g, d)
              /\ At(vals, <<b, g, P + s, d>>) = ProjCell("v", hidden, b, s, g * head_dim + d)

\* A call keeps what it was given and adds the rows of its own tokens.
LEMMA KeysAndValues ==
    ASSUME NEW B \in Nat, NEW S \in Nat, NEW P \in Nat, NEW position_ids,
           NEW hidden, hidden.dims[1] = B, hidden.dims[2] = S,
           NEW kept, PastOK(kept, B, P)
    PROVE  IsKept(Attention(hidden, position_ids, kept).kv[1],
                  Attention(hidden, position_ids, kept).kv[2],
                  kept, hidden, position_ids, B, S, P)
<1> DEFINE N == n_kv_heads
           H == head_dim
           kraw == Heads(Project("k", hidden, n_kv_heads * head_dim), n_kv_heads)
           k == Rope(kraw, position_ids)
           v == Heads(Project("v", hidden, n_kv_heads * head_dim), n_kv_heads)
           vrot == Rope(v, position_ids)
           keys == IF kept = <<>> THEN k ELSE Cat(kept[1], k)
           vals == IF kept = <<>> THEN v ELSE Cat(kept[2], v)
<1>1. /\ Attention(hidden, position_ids, kept).kv[1] = keys
      /\ Attention(hidden, position_ids, kept).kv[2] = vals
  BY DEF Attention
<1>2. N \in Nat /\ H \in Nat
  BY Widths
<1>3. /\ IsProjected(kraw, k, "k", hidden, position_ids, B, S, N)
      /\ IsProjected(v, vrot, "v", hidden, position_ids, B, S, N)
  BY <1>2, ProjectedHeads
<1>4. /\ Shaped4(k, B, N, S, H) /\ Shaped4(v, B, N, S, H)
      /\ \A b \in 0..(B - 1), g \in 0..(N - 1), s \in 0..(S - 1), d \in 0..(H - 1) :
           /\ At(k, <<b, g, s, d>>) = RotCell("k", hidden, position_ids, b, s, g, d)
           /\ At(v, <<b, g, s, d>>) = ProjCell("v", hidden, b, s, g * head_dim + d)
  <2> HIDE DEF k, v, N, kraw, vrot
  <2> QED BY <1>3 DEF IsProjected, H
<1> HIDE DEF k, v, N, H, keys, vals
<1>5. CASE kept = <<>>
  <2>1. P = 0 /\ keys = k /\ vals = v /\ P + S = S /\ 0..(P - 1) = {}
        /\ \A s \in 0..(S - 1) : P + s = s
    BY <1>5 DEF PastOK, keys, vals
  <2>2. IsKept(keys, vals, kept, hidden, position_ids, B, S, P)
    BY <1>4, <2>1 DEF N, H, IsKept
  <2> QED BY <1>1, <2>2
<1>6. CASE kept # <<>>
  <2> DEFINE old == kept[1]
             oldv == kept[2]
  <2>1. /\ keys = Cat(old, k) /\ vals = Cat(oldv, v)
        /\ Shaped4(old, B, N, P, H) /\ Shaped4(oldv, B, N, P, H)
    BY <1>6 DEF PastOK, N, H, keys, vals
  <2> HIDE DEF old, oldv
  <2>2. IsCat(keys, old, k, B, N, P, H, S) /\ IsCat(vals, oldv, v, B, N, P, H, S)
    BY <1>4, <2>1, CatAt
  <2>3. Shaped4(keys, B, N, P + S, H) /\ Shaped4(vals, B, N, P + S, H)
    BY <2>2 DEF IsCat
  <2>4. ASSUME NEW b \in 0..(B - 1), NEW g \in 0..(N - 1), NEW d \in 0..(H - 1)
        PROVE  /\ \A j \in 0..(P - 1) :
                    /\ At(keys, <<b, g, j, d>>) = At(old, <<b, g, j, d>>)
                    /\ At(vals, <<b, g, j, d>>) = At(oldv, <<b, g, j, d>>)
               /\ \A s \in 0..(S - 1) :
                    /\ At(keys, <<b, g, P + s, d>>) = RotCell("k", hidden, position_ids, b, s, g, d)
                    /\ At(vals, <<b, g, P + s, d>>) = ProjCell("v", hidden, b, s, g * head_dim + d)
    <3>1. ASSUME NEW j \in 0..(P - 1)
          PROVE  /\ At(keys, <<b, g, j, d>>) = At(old, <<b, g, j, d>>)
                 /\ At(vals, <<b, g, j, d>>) = At(oldv, <<b, g, j, d>>)
      BY <2>2 DEF IsCat
    <3>2. ASSUME NEW s \in 0..(S - 1)
          PROVE  /\ At(keys, <<b, g, P + s, d>>) = At(k, <<b, g, s, d>>)
                 /\ At(vals, <<b, g, P + s, d>>) = At(v, <<b, g, s, d>>)
      BY <2>2, SMTT(30) DEF IsCat
    <3> QED BY <1>4, <3>1, <3>2
  <2>5. IsKept(keys, vals, kept, hidden, position_ids, B, S, P)
    BY <2>3, <2>4 DEF IsKept, N, H, old, oldv
  <2> QED BY <1>1, <2>5
<1> QED BY <1>5, <1>6

\* What an element of the attention's output is made of: the query of its own
\* row and head, and a key and a value for each row of the cache up to its own,
\* of the head its group shares.
AttendedCell(keys, vals, hidden, position_ids, b, s, g, w, d, P) ==
    {[q |-> [e \in 0..(head_dim - 1) |->
               RotCell("q", hidden, position_ids, b, s, g * n_kv_groups + w, e)],
      k |-> [e \in 0..(head_dim - 1) |-> At(keys, <<b, g, j, e>>)],
      v |-> At(vals, <<b, g, j, d>>)] : j \in 0..(P + s)}

\* The output of a call on S tokens after P others.
IsAttended(output, keys, vals, hidden, position_ids, B, S, P) ==
    /\ Shaped3(output, B, S, hidden_size)
    /\ \A b \in 0..(B - 1), s \in 0..(S - 1), g \in 0..(n_kv_heads - 1),
          w \in 0..(n_kv_groups - 1), d \in 0..(head_dim - 1) :
         At(output, <<b, s, (g * n_kv_groups + w) * head_dim + d>>) =
             AttendedCell(keys, vals, hidden, position_ids, b, s, g, w, d, P)

\* From a query head to the keys of its group, through all the reshaping between.
LEMMA AttentionAt ==
    ASSUME NEW B \in Nat, NEW S \in Nat, NEW P \in Nat, NEW position_ids,
           NEW hidden, hidden.dims[1] = B, hidden.dims[2] = S,
           NEW kept, PastOK(kept, B, P)
    PROVE  IsAttended(Attention(hidden, position_ids, kept).output,
                      Attention(hidden, position_ids, kept).kv[1],
                      Attention(hidden, position_ids, kept).kv[2],
                      hidden, position_ids, B, S, P)
<1> DEFINE NH == n_heads
           N == n_kv_heads
           G == n_kv_groups
           H == head_dim
           T == P + S
           qraw == Heads(Project("q", hidden, n_heads * head_dim), n_heads)
           q == Rope(qraw, position_ids)
           keys == Attention(hidden, position_ids, kept).kv[1]
           vals == Attention(hidden, position_ids, kept).kv[2]
           qf == Reshape(q, <<B * NH, S, H>>)
           kf == Reshape(keys, <<B * N, T, H>>)
           vf == Reshape(vals, <<B * N, T, H>>)
           rk == RepeatKv(kf)
           rv == RepeatKv(vf)
           out == Attend(qf, rk, rv, AttentionMask(B * NH, S, P))
           un == Reshape(out, <<B, NH, S, H>>)
           tr == Transpose(un)
           output == Reshape(tr, <<B, S, NH * H>>)
<1>1. /\ NH \in Nat /\ N \in Nat /\ G \in Nat /\ H \in Nat /\ T \in Nat
      /\ NH = N * G /\ hidden_size = NH * H
  BY Widths
<1>2. IsKept(keys, vals, kept, hidden, position_ids, B, S, P)
  BY KeysAndValues
<1>3. Shaped4(keys, B, N, T, H) /\ Shaped4(vals, B, N, T, H)
  <2> HIDE DEF keys, vals
  <2> QED BY <1>2 DEF IsKept
<1>4. IsProjected(qraw, q, "q", hidden, position_ids, B, S, NH)
  BY <1>1, ProjectedHeads
<1>5. Shaped4(q, B, NH, S, H)
  <2> HIDE DEF q, qraw
  <2> QED BY <1>4 DEF IsProjected
<1>6. Attention(hidden, position_ids, kept).output = output
  <2>1. q.dims[3] = S /\ keys.dims[3] = T /\ vals.dims[3] = T
    <3> HIDE DEF q, keys, vals
    <3> QED BY <1>3, <1>5 DEF Shaped4
  <2>2. (IF kept = <<>> THEN 0 ELSE kept[1].dims[3]) = P
    BY DEF PastOK, Shaped4
  <2> DEFINE past == IF kept = <<>> THEN 0 ELSE kept[1].dims[3]
             qf0 == Reshape(q, <<B * n_heads, q.dims[3], head_dim>>)
             kf0 == Reshape(keys, <<B * n_kv_heads, keys.dims[3], head_dim>>)
             vf0 == Reshape(vals, <<B * n_kv_heads, vals.dims[3], head_dim>>)
             out0 == Attend(qf0, RepeatKv(kf0), RepeatKv(vf0), AttentionMask(B * n_heads, S, past))
  <2>3. Attention(hidden, position_ids, kept).output =
          Reshape(Transpose(Reshape(out0, <<B, n_heads, S, head_dim>>)), <<B, S, hidden_size>>)
    BY DEF Attention
  <2> HIDE DEF q, keys, vals, past
  <2>4. qf0 = qf /\ kf0 = kf /\ vf0 = vf /\ past = P
    BY <2>1, <2>2 DEF past
  <2> HIDE DEF qf0, kf0, vf0, qf, kf, vf
  <2>5. out0 = out
    BY <2>4
  <2> HIDE DEF out0, out
  <2> QED BY <2>3, <2>5, <1>1
<1> HIDE DEF q, qraw, keys, vals
<1>7. /\ IsFlat(qf, q, B, NH, S, H) /\ IsFlat(kf, keys, B, N, T, H)
      /\ IsFlat(vf, vals, B, N, T, H)
  <2> HIDE DEF NH, N, H, T
  <2> QED BY <1>3, <1>5, FlatAt
<1> HIDE DEF NH, N, G, H, T, qf, kf, vf
<1>8. IsRepeated(rk, kf, B * N, T, H) /\ IsRepeated(rv, vf, B * N, T, H)
  BY <1>7, RepeatKvAt DEF IsFlat
<1>9. (B * N) * G = B * NH /\ B * N \in Nat /\ B * NH \in Nat
  BY <1>1
<1> HIDE DEF rk, rv
<1>10. IsAttend(out, qf, rk, rv, B * NH, S, P)
  <2>1. Shaped3(qf, B * NH, S, H) /\ Shaped3(rk, B * NH, T, H)
    BY <1>7, <1>8, <1>9 DEF IsFlat, IsRepeated, G
  <2> QED BY <2>1, AttendAt DEF H, T
<1> HIDE DEF out
<1>11. IsUnflat(un, out, B, NH, S, H)
  BY <1>1, <1>10, UnflatAt DEF IsAttend, H
<1> HIDE DEF un
<1>12. IsTransposed(tr, un, B, NH, S, H)
  BY <1>11, TransposeAt DEF IsUnflat
<1> HIDE DEF tr
<1>13. IsJoined(output, tr, B, S, NH, H)
  BY <1>12, FlatAt DEF IsTransposed
<1> HIDE DEF output
<1>14. ASSUME NEW b \in 0..(B - 1), NEW s \in 0..(S - 1), NEW g \in 0..(N - 1),
              NEW w \in 0..(G - 1), NEW d \in 0..(H - 1)
       PROVE  At(output, <<b, s, (g * G + w) * H + d>>) =
                 AttendedCell(keys, vals, hidden, position_ids, b, s, g, w, d, P)
  <2> DEFINE h == g * G + w
             z == b * N + g
             x == b * NH + h
  <2>1. h \in 0..(NH - 1) /\ z \in 0..(B * N - 1) /\ x = z * G + w
    BY <1>1, Below
  <2>2. x \in 0..(B * NH - 1)
    <3> HIDE DEF h
    <3> QED BY <1>1, <2>1, Below
  <2> HIDE DEF h, z
  <2>3. At(output, <<b, s, h * H + d>>) = At(tr, <<b, s, h, d>>)
    BY <1>13, <2>1 DEF IsJoined
  <2>4. At(tr, <<b, s, h, d>>) = At(un, <<b, h, s, d>>)
    BY <1>12, <2>1 DEF IsTransposed
  <2>5. At(un, <<b, h, s, d>>) = At(out, <<x, s, d>>)
    BY <1>11, <2>1 DEF IsUnflat
  <2>6. At(out, <<x, s, d>>) = SeenRows(qf, rk, rv, x, s, d, P)
    <3> HIDE DEF x
    <3> QED BY <1>10, <2>2 DEF IsAttend, H
  <2>7. HeadRow(qf, x, s) = [e \in 0..(H - 1) |->
               RotCell("q", hidden, position_ids, b, s, h, e)]
    <3>1. ASSUME NEW e \in 0..(H - 1)
          PROVE  At(qf, <<x, s, e>>) = RotCell("q", hidden, position_ids, b, s, h, e)
      <4>1. At(qf, <<x, s, e>>) = At(q, <<b, h, s, e>>)
        BY <1>7, <2>1 DEF IsFlat
      <4>2. At(q, <<b, h, s, e>>) = RotCell("q", hidden, position_ids, b, s, h, e)
        BY <1>4, <2>1 DEF IsProjected, H
      <4> QED BY <4>1, <4>2
    <3> HIDE DEF x
    <3> QED BY <3>1 DEF HeadRow, H
  <2>8. ASSUME NEW j \in 0..(P + s), NEW e \in 0..(H - 1)
        PROVE  /\ At(rk, <<x, j, e>>) = At(keys, <<b, g, j, e>>)
               /\ At(rv, <<x, j, e>>) = At(vals, <<b, g, j, e>>)
    <3>1. j \in 0..(T - 1)
      BY DEF T
    <3>2. At(rk, <<z * G + w, j, e>>) = At(kf, <<z, j, e>>)
      BY <1>8, <2>1, <3>1 DEF IsRepeated, G
    <3>3. At(rv, <<z * G + w, j, e>>) = At(vf, <<z, j, e>>)
      BY <1>8, <2>1, <3>1 DEF IsRepeated, G
    <3>4. At(kf, <<z, j, e>>) = At(keys, <<b, g, j, e>>)
      BY <1>7, <3>1 DEF IsFlat, z
    <3>5. At(vf, <<z, j, e>>) = At(vals, <<b, g, j, e>>)
      BY <1>7, <3>1 DEF IsFlat, z
    <3> QED BY <2>1, <3>2, <3>3, <3>4, <3>5
  <2>9. ASSUME NEW j \in 0..(P + s)
        PROVE  /\ HeadRow(rk, x, j) = [e \in 0..(H - 1) |-> At(keys, <<b, g, j, e>>)]
               /\ At(rv, <<x, j, d>>) = At(vals, <<b, g, j, d>>)
    <3> HIDE DEF x
    <3> QED BY <2>8 DEF HeadRow, H
  <2> HIDE DEF x
  <2>10. SeenRows(qf, rk, rv, x, s, d, P) =
            {[q |-> [e \in 0..(H - 1) |-> RotCell("q", hidden, position_ids, b, s, h, e)],
              k |-> [e \in 0..(H - 1) |-> At(keys, <<b, g, j, e>>)],
              v |-> At(vals, <<b, g, j, d>>)] : j \in 0..(P + s)}
    BY <2>7, <2>9 DEF SeenRows
  <2> QED BY <2>3, <2>4, <2>5, <2>6, <2>10 DEF AttendedCell, h, G, H
<1>15. Shaped3(output, B, S, hidden_size)
  BY <1>1, <1>13 DEF IsJoined
<1>16. IsAttended(output, keys, vals, hidden, position_ids, B, S, P)
  BY <1>14, <1>15 DEF IsAttended, N, G, H
<1> QED BY <1>6, <1>16 DEF keys, vals

-----------------------------------------------------------------------------
(* ComputeEngine: a call on the next tokens of a sequence *)

\* What Reference is made of: the projection and the rotation of token u.
TokenCell(w, b, u, c) == [w |-> w, col |-> c, deps |-> {<<b, u>>}]
TokenRot(w, b, u, h, d) ==
    [cos |-> TokenCell(w, b, u, h * head_dim + d),
     sin |-> TokenCell(w, b, u, h * head_dim + (IF d < Half THEN d + Half ELSE d - Half)),
     neg |-> d < Half, freq |-> IF d < Half THEN d ELSE d - Half, pos |-> u]
TokenRow(w, b, u, h) == [d \in 0..(head_dim - 1) |-> TokenRot(w, b, u, h, d)]

\* A row of the tokens depends on one token only.
LEMMA TokensAt ==
    ASSUME batch \in Nat, NEW first \in Nat, NEW n \in Nat,
           NEW b \in 0..(batch - 1), NEW s \in 0..(n - 1)
    PROVE  RowDeps(Tokens(first, n), b, s) = {<<b, first + s>>}
<1> DEFINE dims == <<batch, n, hidden_size>>
           x == Tokens(first, n)
<1>1. x = [dims |-> dims,
           data |-> [m \in 0..(Volume(dims) - 1) |->
                       {<<Index(dims, m)[1], first + Index(dims, m)[2]>>}]]
  BY DEF Tokens, Tabulate
<1>2. ASSUME NEW c \in 0..(hidden_size - 1) PROVE At(x, <<b, s, c>>) = {<<b, first + s>>}
  <2> DEFINE idx == <<b, s, c>>
             m == Number(dims, idx)
  <2>1. m \in 0..(Volume(dims) - 1) /\ Index(dims, m) = idx
    <3>1. Indexes(<<batch, n, hidden_size>>, <<b, s, c>>)
      BY Places, Widths
    <3> QED BY <3>1 DEF Indexes
  <2>2. At(x, idx) = x.data[m] /\ idx[1] = b /\ idx[2] = s
    BY <1>1 DEF At
  <2> HIDE DEF m, idx, dims, x
  <2>3. x.data[m] = {<<idx[1], first + idx[2]>>}
    BY <1>1, <2>1
  <2> QED BY <2>2, <2>3 DEF idx, x
<1>3. 0 \in 0..(hidden_size - 1)
  BY Widths
<1> HIDE DEF x
<1>4. RowDeps(x, b, s) = {<<b, first + s>>}
  BY <1>2, <1>3 DEF RowDeps
<1> QED BY <1>4 DEF x

\* The rotation's arithmetic.
LEMMA HalfAway ==
    ASSUME NEW d \in 0..(head_dim - 1)
    PROVE  /\ (d + Half) % head_dim = IF d < Half THEN d + Half ELSE d - Half
           /\ d % Half = IF d < Half THEN d ELSE d - Half
<1>1. head_dim \in Nat /\ Half \in Nat /\ head_dim = Half + Half /\ head_dim > 0
  BY Widths
<1>2. CASE d < Half
  <2>1. d + Half \in 0..(head_dim - 1) /\ d \in 0..(Half - 1)
    BY <1>1, <1>2
  <2> QED BY <1>1, <1>2, <2>1, Small
<1>3. CASE ~(d < Half)
  <2> DEFINE e == d - Half
  <2>1. /\ e \in Nat /\ e < Half /\ e < head_dim
        /\ d + Half = 1 * head_dim + e /\ d = 1 * Half + e
    BY <1>1, <1>3
  <2> HIDE DEF e
  <2>2. (1 * head_dim + e) % head_dim = e /\ (1 * Half + e) % Half = e
    BY <1>1, <2>1, Quotient
  <2> QED BY <1>3, <2>1, <2>2 DEF e
<1> QED BY <1>2, <1>3

\* The projections of a call's tokens, at their positions, are those of the
\* whole sequence,
LEMMA ProjectedTokens ==
    ASSUME batch \in Nat, NEW first \in Nat, NEW n \in Nat, NEW w,
           NEW b \in 0..(batch - 1), NEW s \in 0..(n - 1), NEW c
    PROVE  ProjCell(w, Tokens(first, n), b, s, c) = TokenCell(w, b, first + s, c)
<1>1. RowDeps(Tokens(first, n), b, s) = {<<b, first + s>>}
  BY TokensAt
<1> QED BY <1>1 DEF ProjCell, TokenCell

\* and so are their rotations.
LEMMA RotatedTokens ==
    ASSUME batch \in Nat, NEW first \in Nat, NEW n \in Nat, NEW w,
           NEW b \in 0..(batch - 1), NEW s \in 0..(n - 1), NEW h, NEW d \in 0..(head_dim - 1)
    PROVE  RotCell(w, Tokens(first, n), Positions(batch, first, n), b, s, h, d) =
             TokenRot(w, b, first + s, h, d)
<1> DEFINE x == Tokens(first, n)
           positions == Positions(batch, first, n)
<1>1. \A c : ProjCell(w, x, b, s, c) = TokenCell(w, b, first + s, c)
  BY ProjectedTokens
<1>2. At(positions, <<b, s>>) = first + s
  BY PositionsAt
<1> HIDE DEF x, positions
<1>3. RotCell(w, x, positions, b, s, h, d) = TokenRot(w, b, first + s, h, d)
  BY <1>1, <1>2, HalfAway DEF RotCell, TokenRot
<1> QED BY <1>3 DEF x, positions

\* The cache has the keys and values of the sequence's first P tokens.
CacheHolds(kept, B, P) ==
    /\ PastOK(kept, B, P)
    /\ kept # <<>> =>
         \A b \in 0..(B - 1), g \in 0..(n_kv_heads - 1), j \in 0..(P - 1),
            d \in 0..(head_dim - 1) :
              /\ At(kept[1], <<b, g, j, d>>) = TokenRot("k", b, j, g, d)
              /\ At(kept[2], <<b, g, j, d>>) = TokenCell("v", b, j, g * head_dim + d)

\* The output of a call on n tokens after the first P.
IsReference(output, B, P, n) ==
    /\ Shaped3(output, B, n, hidden_size)
    /\ \A b \in 0..(B - 1), s \in 0..(n - 1), col \in 0..(hidden_size - 1) :
         At(output, <<b, s, col>>) = Reference(b, P + s, col)

\* Reference, by group, head of the group and place in the head.
LEMMA ReferenceIs ==
    ASSUME NEW b, NEW t, NEW g \in Nat, NEW w \in 0..(n_kv_groups - 1),
           NEW d \in 0..(head_dim - 1)
    PROVE  Reference(b, t, (g * n_kv_groups + w) * head_dim + d) =
             {[q |-> TokenRow("q", b, t, g * n_kv_groups + w), k |-> TokenRow("k", b, u, g),
               v |-> TokenCell("v", b, u, g * head_dim + d)] : u \in 0..t}
<1> DEFINE h == g * n_kv_groups + w
           col == h * head_dim + d
<1>1. h \in Nat /\ head_dim \in Nat /\ n_kv_groups \in Nat
  BY Widths
<1>2. col \div head_dim = h /\ col % head_dim = d
  <2> HIDE DEF h
  <2> QED BY <1>1, Quotient
<1>3. h \div n_kv_groups = g
  BY <1>1, Quotient
<1>4. Reference(b, t, col) =
        {[q |-> TokenRow("q", b, t, col \div head_dim),
          k |-> TokenRow("k", b, u, (col \div head_dim) \div n_kv_groups),
          v |-> TokenCell("v", b, u, ((col \div head_dim) \div n_kv_groups) * head_dim
                                      + (col % head_dim))] : u \in 0..t}
  <2> HIDE DEF col
  <2> QED BY DEF Reference, TokenRow, TokenRot, TokenCell, Half
<1> HIDE DEF col, h
<1>5. Reference(b, t, col) =
        {[q |-> TokenRow("q", b, t, h), k |-> TokenRow("k", b, u, g),
          v |-> TokenCell("v", b, u, g * head_dim + d)] : u \in 0..t}
  BY <1>2, <1>3, <1>4
<1> QED BY <1>5 DEF col, h

\* Every column of a hidden state belongs to a head of a group.
LEMMA Columns ==
    ASSUME NEW col \in 0..(hidden_size - 1)
    PROVE  \E g \in 0..(n_kv_heads - 1), w \in 0..(n_kv_groups - 1), d \in 0..(head_dim - 1) :
             col = (g * n_kv_groups + w) * head_dim + d
<1> DEFINE h == col \div head_dim
           d == col % head_dim
           g == h \div n_kv_groups
           w == h % n_kv_groups
<1>1. /\ head_dim \in Nat /\ head_dim > 0 /\ n_kv_groups \in Nat /\ n_kv_groups > 0
      /\ n_heads \in Nat /\ n_kv_heads \in Nat
      /\ n_heads = n_kv_heads * n_kv_groups /\ hidden_size = n_heads * head_dim
      /\ hidden_size \in Nat /\ col \in Nat /\ col < hidden_size
  BY Widths
<1>2. h \in Nat /\ d \in Nat /\ d < head_dim /\ col = h * head_dim + d
  BY <1>1, Division
<1> HIDE DEF h, d
<1>3. h < n_heads
  <2> SUFFICES ASSUME n_heads <= h PROVE FALSE
    BY <1>1, <1>2
  <2>1. n_heads * head_dim <= h * head_dim
    <3>1. CASE n_heads = h
      BY <1>1, <1>2, <3>1
    <3>2. CASE n_heads < h
      BY <1>1, <1>2, <3>2, Multiples
    <3> QED BY <1>1, <1>2, <3>1, <3>2
  <2> QED BY <1>1, <1>2, <2>1
<1>4. g \in Nat /\ w \in Nat /\ w < n_kv_groups /\ h = g * n_kv_groups + w
  BY <1>1, <1>2, Division
<1> HIDE DEF g, w
<1>5. g < n_kv_heads
  <2> SUFFICES ASSUME n_kv_heads <= g PROVE FALSE
    BY <1>1, <1>4
  <2>1. n_kv_heads * n_kv_groups <= g * n_kv_groups
    <3>1. CASE n_kv_heads = g
      BY <1>1, <1>4, <3>1
    <3>2. CASE n_kv_heads < g
      BY <1>1, <1>4, <3>2, Multiples
    <3> QED BY <1>1, <1>4, <3>1, <3>2
  <2> QED BY <1>1, <1>3, <1>4, <2>1
<1>6. g \in 0..(n_kv_heads - 1) /\ w \in 0..(n_kv_groups - 1) /\ d \in 0..(head_dim - 1)
  BY <1>1, <1>2, <1>4, <1>5
<1>7. col = (g * n_kv_groups + w) * head_dim + d
  BY <1>2, <1>4
<1> QED BY <1>6, <1>7

\* A call leaves the cache with the keys and values of its tokens too, and
\* gives each token what one pass over the whole sequence would.
LEMMA CallOnTokens ==
    ASSUME batch \in Nat, NEW P \in Nat, NEW n \in Nat \ {0},
           NEW kept, CacheHolds(kept, batch, P)
    PROVE  LET call == Attention(Tokens(P, n), Positions(batch, P, n), kept)
           IN  CacheHolds(call.kv, batch, P + n) /\ IsReference(call.output, batch, P, n)
<1> DEFINE x == Tokens(P, n)
           positions == Positions(batch, P, n)
           call == Attention(x, positions, kept)
           keys == call.kv[1]
           vals == call.kv[2]
           N == n_kv_heads
           H == head_dim
<1>1. x.dims[1] = batch /\ x.dims[2] = n /\ PastOK(kept, batch, P) /\ n \in Nat
  <2>1. x.dims = <<batch, n, hidden_size>>
    BY DEF Tokens, Tabulate
  <2> HIDE DEF x
  <2> QED BY <2>1 DEF CacheHolds
<1> HIDE DEF x, positions
<1>2. IsKept(keys, vals, kept, x, positions, batch, n, P)
  BY <1>1, KeysAndValues
<1>3. IsAttended(call.output, keys, vals, x, positions, batch, n, P)
  BY <1>1, AttentionAt
<1>4. call.kv = <<keys, vals>>
  BY DEF Attention
<1> HIDE DEF call
<1>5. ASSUME NEW b \in 0..(batch - 1), NEW s \in 0..(n - 1), NEW w, NEW c
      PROVE  ProjCell(w, x, b, s, c) = TokenCell(w, b, P + s, c)
  BY <1>1, ProjectedTokens DEF x
<1>11. ASSUME NEW b \in 0..(batch - 1), NEW s \in 0..(n - 1), NEW w, NEW h, NEW d \in 0..(H - 1)
       PROVE  RotCell(w, x, positions, b, s, h, d) = TokenRot(w, b, P + s, h, d)
  BY <1>1, RotatedTokens DEF x, positions
<1>6. ASSUME NEW b \in 0..(batch - 1), NEW g \in 0..(N - 1), NEW j \in 0..((P + n) - 1),
             NEW d \in 0..(H - 1)
      PROVE  /\ At(keys, <<b, g, j, d>>) = TokenRot("k", b, j, g, d)
             /\ At(vals, <<b, g, j, d>>) = TokenCell("v", b, j, g * H + d)
  <2> HIDE DEF keys, vals, N, H
  <2>1. CASE j < P
    <3>1. j \in 0..(P - 1) /\ kept # <<>>
      BY <1>1, <2>1 DEF PastOK
    <3>2. /\ At(kept[1], <<b, g, j, d>>) = TokenRot("k", b, j, g, d)
          /\ At(kept[2], <<b, g, j, d>>) = TokenCell("v", b, j, g * H + d)
      BY <3>1 DEF CacheHolds, N, H
    <3>3. /\ At(keys, <<b, g, j, d>>) = At(kept[1], <<b, g, j, d>>)
          /\ At(vals, <<b, g, j, d>>) = At(kept[2], <<b, g, j, d>>)
      BY <1>2, <3>1 DEF IsKept, N, H
    <3> QED BY <3>2, <3>3
  <2>2. CASE ~(j < P)
    <3> DEFINE s == j - P
    <3>1. s \in 0..(n - 1) /\ P + s = j
      BY <2>2, <1>1
    <3> HIDE DEF s
    <3>2. /\ At(keys, <<b, g, P + s, d>>) = RotCell("k", x, positions, b, s, g, d)
          /\ At(vals, <<b, g, P + s, d>>) = ProjCell("v", x, b, s, g * H + d)
      BY <1>2, <3>1 DEF IsKept, N, H
    <3> QED BY <1>5, <1>11, <3>1, <3>2
  <2> QED BY <2>1, <2>2
<1>7. CacheHolds(call.kv, batch, P + n)
  <2>1. Shaped4(keys, batch, N, P + n, H) /\ Shaped4(vals, batch, N, P + n, H)
    BY <1>2 DEF IsKept
  <2>2. call.kv # <<>> /\ call.kv[1] = keys /\ call.kv[2] = vals
    BY <1>4
  <2> HIDE DEF keys, vals
  <2>3. PastOK(call.kv, batch, P + n)
    BY <2>1, <2>2 DEF PastOK
  <2> QED BY <1>6, <2>2, <2>3 DEF CacheHolds
<1> HIDE DEF keys, vals
<1>8. ASSUME NEW b \in 0..(batch - 1), NEW s \in 0..(n - 1), NEW g \in 0..(N - 1),
             NEW w \in 0..(n_kv_groups - 1), NEW d \in 0..(H - 1)
      PROVE  At(call.output, <<b, s, (g * n_kv_groups + w) * H + d>>) =
               Reference(b, P + s, (g * n_kv_groups + w) * H + d)
  <2> DEFINE h == g * n_kv_groups + w
  <2>1. At(call.output, <<b, s, h * H + d>>) =
          AttendedCell(keys, vals, x, positions, b, s, g, w, d, P)
    <3> HIDE DEF N, H
    <3> QED BY <1>3 DEF IsAttended, N, H
  <2>2. [e \in 0..(H - 1) |-> RotCell("q", x, positions, b, s, h, e)] = TokenRow("q", b, P + s, h)
    <3> HIDE DEF h, H
    <3> QED BY <1>11 DEF TokenRow, H
  <2>3. ASSUME NEW j \in 0..(P + s)
        PROVE  /\ [e \in 0..(H - 1) |-> At(keys, <<b, g, j, e>>)] = TokenRow("k", b, j, g)
               /\ At(vals, <<b, g, j, d>>) = TokenCell("v", b, j, g * H + d)
    <3>1. j \in 0..((P + n) - 1)
      BY <1>1
    <3> HIDE DEF N, H
    <3> QED BY <1>6, <3>1 DEF TokenRow, H
  <2>4. AttendedCell(keys, vals, x, positions, b, s, g, w, d, P) =
          {[q |-> TokenRow("q", b, P + s, h), k |-> TokenRow("k", b, j, g),
            v |-> TokenCell("v", b, j, g * H + d)] : j \in 0..(P + s)}
    <3> DEFINE qrow == [e \in 0..(H - 1) |-> RotCell("q", x, positions, b, s, h, e)]
    <3>1. AttendedCell(keys, vals, x, positions, b, s, g, w, d, P) =
           {[q |-> qrow, k |-> [e \in 0..(H - 1) |-> At(keys, <<b, g, j, e>>)],
             v |-> At(vals, <<b, g, j, d>>)] : j \in 0..(P + s)}
      BY DEF AttendedCell
    <3>2. qrow = TokenRow("q", b, P + s, h)
      BY <2>2
    <3> HIDE DEF qrow, h, N, H
    <3> QED BY <2>3, <3>1, <3>2
  <2>5. g \in Nat
    BY Widths
  <2>6. Reference(b, P + s, h * H + d) =
          {[q |-> TokenRow("q", b, P + s, h), k |-> TokenRow("k", b, j, g),
            v |-> TokenCell("v", b, j, g * H + d)] : j \in 0..(P + s)}
    BY <2>5, ReferenceIs
  <2> QED BY <2>1, <2>4, <2>6
<1>9. ASSUME NEW b \in 0..(batch - 1), NEW s \in 0..(n - 1), NEW col \in 0..(hidden_size - 1)
      PROVE  At(call.output, <<b, s, col>>) = Reference(b, P + s, col)
  <2>1. PICK g \in 0..(N - 1), w \in 0..(n_kv_groups - 1), d \in 0..(H - 1) :
           col = (g * n_kv_groups + w) * H + d
    BY Columns
  <2> HIDE DEF N, H
  <2> QED BY <1>8, <2>1
<1>10. IsReference(call.output, batch, P, n)
  BY <1>3, <1>9 DEF IsReference, IsAttended
<1> QED BY <1>7, <1>10 DEF call, x, positions

\* The equation that the fold in Rows solves.
Summed(g, calls) ==
    g = [u \in SUBSET (DOMAIN calls) |->
            IF u = {} THEN 0 ELSE g[u \ {Max(u)}] + calls[Max(u)].dims[2]]

\* The same, along the prefixes of the list.
RowsBy(v, calls, n) ==
    v[0] = 0 /\ Rows(calls) = v[n] /\ \A a \in 1..n : v[a] = v[a - 1] + calls[a].dims[2]

\* The rows of the calls are summed up call by call,
LEMMA RowsPrefixes ==
    ASSUME NEW n \in Nat, NEW calls, DOMAIN calls = 1..n, \A a \in 1..n : calls[a].dims[2] \in Nat
    PROVE  \E v \in [0..n -> Nat] : RowsBy(v, calls, n)
<1> DEFINE step == [a \in 1..n |-> [acc \in Nat |-> acc + calls[a].dims[2]]]
<1>1. step \in [1..n -> [Nat -> Nat]] /\ 0 \in Nat
  OBVIOUS
<1>2. PICK g \in [SUBSET (1..n) -> Nat] : FoldsIndices(g, n, 0, step)
  <2> HIDE DEF step
  <2> QED BY <1>1, SequenceFoldExists
<1>3. Summed(g, calls)
  <2>1. ASSUME NEW u \in SUBSET (1..n), u # {}
        PROVE  g[u] = g[u \ {Max(u)}] + calls[Max(u)].dims[2]
    <3>1. Max(u) \in 1..n
      BY <2>1, PrefixIndices
    <3>2. g[u \ {Max(u)}] \in Nat
      BY <1>2
    <3>3. g[u] = step[Max(u)][g[u \ {Max(u)}]]
      <4> HIDE DEF step
      <4> QED BY <1>2, <2>1 DEF FoldsIndices
    <3> QED BY <3>1, <3>2, <3>3
  <2>2. g[{}] = 0
    <3> HIDE DEF step
    <3> QED BY <1>2 DEF FoldsIndices
  <2> HIDE DEF step
  <2> QED BY <1>2, <2>1, <2>2 DEF Summed
<1> DEFINE G == CHOOSE f : Summed(f, calls)
<1>4. Summed(G, calls)
  BY <1>3
<1>5. Rows(calls) = G[1..n]
  <2>1. Rows(calls) = G[DOMAIN calls]
    BY DEF Rows, FoldLeft, MapThenFoldSet, Summed
  <2> HIDE DEF G
  <2> QED BY <2>1
<1> HIDE DEF G, step
<1>6. G[{}] = 0
  BY <1>4, {} \in SUBSET (1..n) DEF Summed
<1>7. ASSUME NEW a \in 1..n PROVE G[1..a] = G[1..(a - 1)] + calls[a].dims[2]
  <2>1. /\ 1..a \in SUBSET (1..n) /\ 1..a # {}
        /\ Max(1..a) = a /\ (1..a) \ {a} = 1..(a - 1)
    BY PrefixIndices
  <2> QED BY <1>4, <2>1 DEF Summed
<1> DEFINE v == [a \in 0..n |-> G[1..a]]
<1>8. v[0] = 0 /\ v[n] = G[1..n]
  BY <1>6, 1..0 = {}
<1>9. ASSUME NEW a \in 1..n PROVE v[a] = v[a - 1] + calls[a].dims[2]
  <2>1. a \in 0..n /\ a - 1 \in 0..n
    OBVIOUS
  <2> QED BY <1>7, <2>1
<1>10. v \in [0..n -> Nat]
  <2> DEFINE T == {a \in Nat : a <= n => v[a] \in Nat}
  <2>1. 0 \in T
    BY <1>8
  <2>2. ASSUME NEW a \in Nat, a \in T PROVE a + 1 \in T
    <3> HIDE DEF v
    <3>1. ASSUME a + 1 <= n PROVE v[a + 1] \in Nat
      <4>1. a + 1 \in 1..n /\ v[a] \in Nat /\ v[a + 1] = v[(a + 1) - 1] + calls[a + 1].dims[2]
        BY <1>9, <2>2, <3>1
      <4>2. calls[a + 1].dims[2] \in Nat /\ (a + 1) - 1 = a
        BY <4>1
      <4> QED BY <4>1, <4>2
    <3> QED BY <3>1
  <2> HIDE DEF T
  <2>3. \A a \in Nat : a \in T
    BY <2>1, <2>2, NumberInduction
  <2>4. \A a \in 0..n : v[a] \in Nat
    <3> HIDE DEF v
    <3> QED BY <2>3 DEF T
  <2> QED BY <2>4
<1> HIDE DEF v
<1> QED BY <1>5, <1>8, <1>9, <1>10 DEF RowsBy

\* A list of calls, each of them with a number of rows.
Calls(calls) ==
    /\ Len(calls) \in Nat /\ calls = [a \in 1..Len(calls) |-> calls[a]]
    /\ \A a \in 1..Len(calls) : calls[a].dims[2] \in Nat

\* so that one more call adds its own.
LEMMA RowsAppend ==
    ASSUME NEW calls, Calls(calls), NEW t, t.dims[2] \in Nat
    PROVE  /\ Calls(Append(calls, t)) /\ Len(Append(calls, t)) = Len(calls) + 1
           /\ Append(calls, t)[Len(calls) + 1] = t
           /\ \A a \in 1..Len(calls) : Append(calls, t)[a] = calls[a]
           /\ Rows(calls) \in Nat
           /\ Rows(Append(calls, t)) = Rows(calls) + t.dims[2]
<1> DEFINE n == Len(calls)
           more == Append(calls, t)
<1>1. n \in Nat /\ DOMAIN calls = 1..n /\ \A a \in 1..n : calls[a].dims[2] \in Nat
  <2> HIDE DEF n
  <2> QED BY DEF Calls, n
<1> DEFINE S == {calls[a] : a \in 1..n} \cup {t}
<1>2. calls \in Seq(S) /\ t \in S
  <2>1. calls = [a \in 1..n |-> calls[a]]
    BY DEF Calls
  <2>2. \A a \in 1..n : calls[a] \in S
    OBVIOUS
  <2>3. calls \in [1..n -> S]
    <3> HIDE DEF S, n
    <3> QED BY <2>1, <2>2
  <2> HIDE DEF n, S
  <2>4. calls \in Seq(S)
    BY <1>1, <2>3
  <2> QED BY <2>4 DEF S
<1> HIDE DEF S
<1>3. /\ DOMAIN more = 1..(n + 1) /\ more[n + 1] = t /\ n + 1 \in Nat
      /\ (\A a \in 1..n : more[a] = calls[a] /\ a \in 1..(n + 1))
      /\ more \in Seq(S) /\ Len(more) = n + 1
  <2>1. /\ more \in Seq(S) /\ Len(more) = n + 1 /\ more[n + 1] = t
        /\ \A a \in 1..n : more[a] = calls[a]
    BY <1>2, AppendFacts
  <2> HIDE DEF n, more
  <2> QED BY <1>1, <2>1
<1> HIDE DEF n, more
<1>4. \A a \in 1..(n + 1) : more[a].dims[2] \in Nat
  <2>1. \A a \in 1..(n + 1) : a = n + 1 \/ a \in 1..n
    BY <1>1
  <2> QED BY <1>1, <1>3, <2>1
<1>5. PICK v \in [0..n -> Nat] : RowsBy(v, calls, n)
  BY <1>1, RowsPrefixes
<1>6. PICK w \in [0..(n + 1) -> Nat] : RowsBy(w, more, n + 1)
  BY <1>3, <1>4, RowsPrefixes
<1>7. v[n] = w[n]
  <2> DEFINE T == {a \in Nat : a <= n => v[a] = w[a]}
  <2>1. 0 \in T
    BY <1>5, <1>6 DEF RowsBy
  <2>2. ASSUME NEW a \in Nat, a \in T PROVE a + 1 \in T
    <3>1. ASSUME a + 1 <= n PROVE v[a + 1] = w[a + 1]
      <4>1. a + 1 \in 1..n /\ a + 1 \in 1..(n + 1) /\ (a + 1) - 1 = a /\ v[a] = w[a]
        BY <1>1, <2>2, <3>1
      <4>2. v[a + 1] = v[a] + calls[a + 1].dims[2]
        BY <1>5, <4>1 DEF RowsBy
      <4>3. w[a + 1] = w[a] + more[a + 1].dims[2]
        BY <1>6, <4>1 DEF RowsBy
      <4> QED BY <1>3, <4>1, <4>2, <4>3
    <3> QED BY <3>1
  <2> HIDE DEF T
  <2>3. n \in T
    BY <1>1, <2>1, <2>2, NumberInduction
  <2> QED BY <2>3, <1>1 DEF T
<1>8. w[n + 1] = w[n] + t.dims[2]
  <2>1. n + 1 \in 1..(n + 1) /\ (n + 1) - 1 = n
    BY <1>1
  <2> QED BY <1>3, <1>6, <2>1 DEF RowsBy
<1>9. Rows(calls) = v[n] /\ Rows(more) = w[n + 1] /\ v[n] \in Nat
  BY <1>1, <1>5, <1>6 DEF RowsBy
<1>10. Len(more) = n + 1
  BY <1>3
<1>11. Calls(more)
  <2>1. more = [a \in 1..(n + 1) |-> more[a]]
    BY <1>3
  <2> QED BY <2>1, <1>3, <1>4, <1>10 DEF Calls
<1> QED BY <1>3, <1>7, <1>8, <1>9, <1>10, <1>11 DEF more, n

\* Before the first call nothing is fed.
LEMMA RowsOfNone == Rows(<<>>) = 0 /\ Calls(<<>>)
<1> DEFINE none == <<>>
           n == 0
<1>1. DOMAIN none = 1..n /\ n \in Nat /\ Len(none) = n /\ \A a \in 1..n : none[a].dims[2] \in Nat
  OBVIOUS
<1>2. none = [a \in 1..n |-> none[a]]
  OBVIOUS
<1> HIDE DEF none, n
<1>3. Calls(none)
  BY <1>1, <1>2 DEF Calls
<1>4. PICK v \in [0..n -> Nat] : RowsBy(v, none, n)
  BY <1>1, RowsPrefixes
<1> QED BY <1>3, <1>4 DEF RowsBy, none, n

\* The calls before one are not changed by one more.
LEMMA EarlierCalls ==
    ASSUME NEW calls, Calls(calls), NEW t, t.dims[2] \in Nat, NEW c \in 1..(Len(calls) + 1)
    PROVE  /\ SubSeq(Append(calls, t), 1, c - 1) = SubSeq(calls, 1, c - 1)
           /\ SubSeq(calls, 1, Len(calls)) = calls
<1> DEFINE n == Len(calls)
           more == Append(calls, t)
<1>1. n \in Nat /\ calls = [a \in 1..n |-> calls[a]]
  BY DEF Calls
<1>2. \A a \in 1..n : more[a] = calls[a]
  BY RowsAppend
<1>3. SubSeq(calls, 1, n) = [a \in 1..n |-> calls[a]]
  <2>1. SubSeq(calls, 1, n) = [a \in 1..n |-> calls[a + 1 - 1]]
    BY <1>1
  <2>2. \A a \in 1..n : a + 1 - 1 = a
    BY <1>1
  <2> HIDE DEF n
  <2> QED BY <2>1, <2>2
<1>4. SubSeq(more, 1, c - 1) = SubSeq(calls, 1, c - 1)
  <2> DEFINE e == c - 1
  <2>1. e \in Nat /\ e <= n
    BY <1>1
  <2> HIDE DEF e, n, more
  <2>2. SubSeq(more, 1, e) = [a \in 1..e |-> more[a]]
    BY <2>1
  <2>3. SubSeq(calls, 1, e) = [a \in 1..e |-> calls[a]]
    BY <2>1
  <2>4. \A a \in 1..e : more[a] = calls[a]
    BY <1>2, <2>1, <1>1
  <2> QED BY <2>2, <2>3, <2>4 DEF e
<1> QED BY <1>1, <1>3, <1>4

-----------------------------------------------------------------------------
(* ComputeEngine: the inductive invariant of decoding *)

\* What decoding keeps.
DecodeInv ==
    /\ batch \in Nat /\ Calls(attended) /\ CacheHolds(layer_past, batch, Fed)
    /\ \A c \in 1..Len(attended) :
         IsReference(attended[c], batch, Rows(SubSeq(attended, 1, c - 1)), attended[c].dims[2])

\* It holds before the first call,
LEMMA DecodeInit == EngineInit => DecodeInv
<1> SUFFICES ASSUME EngineInit PROVE DecodeInv
  OBVIOUS
<1>1. batch \in Nat /\ layer_past = <<>> /\ attended = <<>>
  BY EngineAssumption DEF EngineInit
<1>2. Fed = 0 /\ Calls(attended) /\ Len(attended) = 0
  BY <1>1, RowsOfNone DEF Fed
<1>3. CacheHolds(layer_past, batch, Fed)
  BY <1>1, <1>2 DEF CacheHolds, PastOK
<1> QED BY <1>1, <1>2, <1>3 DEF DecodeInv

\* and each call keeps it, with any number of tokens.
LEMMA DecodeStep ==
    ASSUME DecodeInv, ForwardWithKvCache
    PROVE  DecodeInv'
<1> DEFINE P == Fed
<1>1. P \in Nat /\ batch \in Nat /\ Calls(attended) /\ CacheHolds(layer_past, batch, P)
  <2>1. batch \in Nat /\ Calls(attended) /\ CacheHolds(layer_past, batch, Fed)
    BY DEF DecodeInv
  <2>2. PICK n \in Nat : n = Len(attended)
    BY <2>1 DEF Calls
  <2>3. DOMAIN attended = 1..n /\ \A a \in 1..n : attended[a].dims[2] \in Nat
    BY <2>1, <2>2 DEF Calls
  <2>4. Rows(attended) \in Nat
    <3>1. PICK v \in [0..n -> Nat] : RowsBy(v, attended, n)
      BY <2>3, RowsPrefixes
    <3> QED BY <3>1 DEF RowsBy
  <2> QED BY <2>1, <2>4 DEF Fed
<1>2. PICK n \in 1..(MaxTokens - P) :
        LET call == Attention(Tokens(P, n), Positions(batch, P, n), layer_past)
        IN  /\ attended' = Append(attended, call.output)
            /\ layer_past' = call.kv
            /\ batch' = batch
  BY DEF ForwardWithKvCache
<1> DEFINE call == Attention(Tokens(P, n), Positions(batch, P, n), layer_past)
           out == call.output
           L == Len(attended)
<1>3. attended' = Append(attended, out) /\ layer_past' = call.kv /\ batch' = batch
  BY <1>2
<1>4. n \in Nat \ {0}
  BY <1>1, <1>2, EngineAssumption
<1> HIDE DEF P
<1>5. CacheHolds(call.kv, batch, P + n) /\ IsReference(out, batch, P, n)
  BY <1>1, <1>4, CallOnTokens
<1> HIDE DEF call, out
<1>6. out.dims[2] = n /\ out.dims[2] \in Nat
  BY <1>5 DEF IsReference, Shaped3
<1>7. /\ Calls(attended') /\ Len(attended') = L + 1 /\ attended'[L + 1] = out
      /\ \A a \in 1..L : attended'[a] = attended[a]
      /\ Rows(attended') = P + n
  BY <1>1, <1>3, <1>6, RowsAppend DEF P, Fed
<1>8. \A c \in 1..(L + 1) :
        /\ SubSeq(attended', 1, c - 1) = SubSeq(attended, 1, c - 1)
        /\ SubSeq(attended, 1, L) = attended
  BY <1>1, <1>3, <1>6, EarlierCalls
<1>9. L \in Nat
  BY <1>1 DEF Calls
<1>10. ASSUME NEW c \in 1..L
       PROVE  IsReference(attended[c], batch, Rows(SubSeq(attended, 1, c - 1)), attended[c].dims[2])
  BY DEF DecodeInv
<1> HIDE DEF L
<1>11. ASSUME NEW c \in 1..(L + 1)
       PROVE  IsReference(attended'[c], batch, Rows(SubSeq(attended', 1, c - 1)),
                          attended'[c].dims[2])
  <2>1. CASE c \in 1..L
    BY <1>7, <1>8, <1>10, <2>1
  <2>2. CASE c = L + 1
    <3>1. c - 1 = L
      BY <1>9, <2>2
    <3>2. SubSeq(attended', 1, c - 1) = attended
      BY <1>8, <3>1
    <3>3. Rows(SubSeq(attended', 1, c - 1)) = P
      BY <3>2 DEF P, Fed
    <3> QED BY <1>5, <1>6, <1>7, <2>2, <3>3
  <2> QED BY <1>9, <2>1, <2>2
<1>12. CacheHolds(layer_past', batch, Rows(attended'))
  BY <1>3, <1>5, <1>7
<1> QED BY <1>1, <1>3, <1>7, <1>11, <1>12 DEF DecodeInv, Fed

\* Decoding with the cache gives each token what one pass over the whole
\* sequence would, however the sequence is cut into calls and however long it
\* gets, with any numbers of heads and of groups.
THEOREM DecodingIsFullPass == EngineSpec => []DecodeIsFullPass
<1>1. DecodeInv /\ [EngineNext]_engineVars => DecodeInv'
  <2> SUFFICES ASSUME DecodeInv, [EngineNext]_engineVars PROVE DecodeInv'
    OBVIOUS
  <2>1. CASE ForwardWithKvCache
    BY <2>1, DecodeStep
  <2>2. ASSUME UNCHANGED decode PROVE DecodeInv'
    BY <2>2 DEF DecodeInv, decode, Fed
  <2>3. LoadBatch \/ RunLayer \/ Finish \/ UNCHANGED engineVars => UNCHANGED decode
    BY DEF LoadBatch, RunLayer, Finish, engineVars
  <2> QED BY <2>1, <2>2, <2>3 DEF EngineNext
<1>2. DecodeInv => DecodeIsFullPass
  <2> SUFFICES ASSUME DecodeInv PROVE DecodeIsFullPass
    OBVIOUS
  <2>1. ASSUME NEW c \in DOMAIN attended
        PROVE  c \in 1..Len(attended)
    BY DEF DecodeInv, Calls
  <2>2. ASSUME NEW c \in DOMAIN attended, NEW b \in 0..(batch - 1),
               NEW s \in 0..(attended[c].dims[2] - 1), NEW col \in 0..(hidden_size - 1)
        PROVE  At(attended[c], <<b, s, col>>) =
                 Reference(b, Rows(SubSeq(attended, 1, c - 1)) + s, col)
    BY <2>1 DEF DecodeInv, IsReference
  <2> QED BY <2>2 DEF DecodeIsFullPass
<1> QED BY <1>1, <1>2, DecodeInit, PTL DEF EngineSpec

-----------------------------------------------------------------------------
(* ComputeEngine: a layer, element by element *)

\* What the rows of a hidden state up to row s depend on.
DepsUpTo(hidden, b, s) == UNION {RowDeps(hidden, b, j) : j \in 0..s}

\* y is what a block makes of hidden.
IsForward(y, hidden, B, S) ==
    /\ Shaped3(y, B, S, hidden_size)
    /\ y.data = [n \in 0..(Volume(y.dims) - 1) |-> y.data[n]]
    /\ \A b \in 0..(B - 1), s \in 0..(S - 1), c \in 0..(hidden_size - 1) :
         At(y, <<b, s, c>>) = DepsUpTo(hidden, b, s)

\* A block makes a row of the rows up to it, and of all of them.
LEMMA ForwardAt ==
    ASSUME NEW B, NEW S, NEW hidden, Shaped3(hidden, B, S, hidden_size)
    PROVE  IsForward(Forward(hidden), hidden, B, S)
<1> DEFINE positions == Positions(hidden.dims[1], 0, hidden.dims[2])
           none == <<>>
           call == Attention(hidden, positions, none)
           attn == call.output
           keys == call.kv[1]
           vals == call.kv[2]
           dims == hidden.dims
           DepsOf(e) == UNION {p.q[0].cos.deps \cup p.k[0].cos.deps \cup p.v.deps : p \in e}
           y == Forward(hidden)
<1>1. B \in Nat /\ S \in Nat /\ dims = <<B, S, hidden_size>> /\ 0 + S = S /\ 0 \in Nat
  BY DEF Shaped3
<1>2. y = [dims |-> dims,
           data |-> [n \in 0..(Volume(dims) - 1) |->
                      RowDeps(hidden, Index(dims, n)[1], Index(dims, n)[2])
                        \cup UNION {DepsOf(At(attn, <<Index(dims, n)[1], Index(dims, n)[2], c>>)) :
                                      c \in 0..(hidden_size - 1)}]]
  BY DEF Forward, Tabulate
<1>3. IsKept(keys, vals, none, hidden, positions, B, S, 0)
      /\ IsAttended(attn, keys, vals, hidden, positions, B, S, 0)
  <2>1. PastOK(none, B, 0)
    BY DEF PastOK
  <2>2. hidden.dims[1] = B /\ hidden.dims[2] = S
    BY <1>1
  <2> HIDE DEF positions, none
  <2> QED BY <1>1, <2>1, <2>2, KeysAndValues, AttentionAt
<1> HIDE DEF call, attn, keys, vals, positions, none
<1>4. ASSUME NEW b \in 0..(B - 1), NEW s \in 0..(S - 1), NEW c \in 0..(hidden_size - 1)
      PROVE  DepsOf(At(attn, <<b, s, c>>)) = DepsUpTo(hidden, b, s)
  <2>1. PICK g \in 0..(n_kv_heads - 1), w \in 0..(n_kv_groups - 1), d \in 0..(head_dim - 1) :
           c = (g * n_kv_groups + w) * head_dim + d
    BY Columns
  <2>2. At(attn, <<b, s, c>>) = AttendedCell(keys, vals, hidden, positions, b, s, g, w, d, 0)
    BY <1>3, <2>1 DEF IsAttended
  <2> DEFINE q == [e \in 0..(head_dim - 1) |->
                     RotCell("q", hidden, positions, b, s, g * n_kv_groups + w, e)]
             k(j) == [e \in 0..(head_dim - 1) |-> At(keys, <<b, g, j, e>>)]
             v(j) == At(vals, <<b, g, j, d>>)
  <2>3. At(attn, <<b, s, c>>) = {[q |-> q, k |-> k(j), v |-> v(j)] : j \in 0..s}
    <3>1. 0 + s = s
      OBVIOUS
    <3> QED BY <2>2, <3>1 DEF AttendedCell
  <2>4. 0 \in 0..(head_dim - 1)
    BY Widths
  <2>5. q[0].cos.deps = RowDeps(hidden, b, s)
    BY <2>4 DEF RotCell, ProjCell
  <2>6. ASSUME NEW j \in 0..s
        PROVE  k(j)[0].cos.deps = RowDeps(hidden, b, j) /\ v(j).deps = RowDeps(hidden, b, j)
    <3>1. j \in 0..(S - 1) /\ 0 + j = j
      BY <1>1
    <3>2. /\ At(keys, <<b, g, 0 + j, 0>>) = RotCell("k", hidden, positions, b, j, g, 0)
          /\ At(vals, <<b, g, 0 + j, d>>) = ProjCell("v", hidden, b, j, g * head_dim + d)
      BY <1>3, <2>1, <2>4, <3>1 DEF IsKept
    <3>3. k(j)[0] = RotCell("k", hidden, positions, b, j, g, 0)
      BY <2>4, <3>1, <3>2
    <3>4. k(j)[0].cos.deps = RowDeps(hidden, b, j)
      <4> HIDE DEF k
      <4> QED BY <3>3 DEF RotCell, ProjCell
    <3>5. v(j).deps = RowDeps(hidden, b, j)
      BY <3>1, <3>2 DEF ProjCell
    <3> QED BY <3>4, <3>5
  <2> HIDE DEF q, k, v
  <2> DEFINE Piece(p) == p.q[0].cos.deps \cup p.k[0].cos.deps \cup p.v.deps
             cell(j) == [q |-> q, k |-> k(j), v |-> v(j)]
  <2>7. ASSUME NEW j \in 0..s
        PROVE  Piece(cell(j)) = RowDeps(hidden, b, s) \cup RowDeps(hidden, b, j)
    BY <2>5, <2>6
  <2>8. DepsOf(At(attn, <<b, s, c>>)) = UNION {RowDeps(hidden, b, s) \cup RowDeps(hidden, b, j) :
                                                 j \in 0..s}
    <3>1. DepsOf(At(attn, <<b, s, c>>)) = UNION {Piece(p) : p \in {cell(j) : j \in 0..s}}
      BY <2>3
    <3> HIDE DEF Piece, cell, DepsOf
    <3>2. {Piece(p) : p \in {cell(j) : j \in 0..s}} =
            {RowDeps(hidden, b, s) \cup RowDeps(hidden, b, j) : j \in 0..s}
      BY <2>7
    <3> QED BY <3>1, <3>2
  <2>9. s \in 0..s
    OBVIOUS
  <2> HIDE DEF DepsOf
  <2> QED BY <2>8, <2>9 DEF DepsUpTo
<1> HIDE DEF dims, y
<1>5. ASSUME NEW b \in 0..(B - 1), NEW s \in 0..(S - 1), NEW c \in 0..(hidden_size - 1)
      PROVE  At(y, <<b, s, c>>) = DepsUpTo(hidden, b, s)
  <2> DEFINE idx == <<b, s, c>>
             n == Number(dims, idx)
  <2>1. n \in 0..(Volume(dims) - 1) /\ Index(dims, n) = idx
    <3>1. Indexes(<<B, S, hidden_size>>, <<b, s, c>>)
      BY <1>1, Places, Widths
    <3> QED BY <1>1, <3>1 DEF Indexes
  <2>2. At(y, idx) = y.data[n] /\ idx[1] = b /\ idx[2] = s
    BY <1>2 DEF At
  <2> HIDE DEF n, idx, DepsOf
  <2>3. y.data[n] = RowDeps(hidden, b, s)
                      \cup UNION {DepsOf(At(attn, <<b, s, e>>)) : e \in 0..(hidden_size - 1)}
    BY <1>2, <2>1, <2>2
  <2>4. UNION {DepsOf(At(attn, <<b, s, e>>)) : e \in 0..(hidden_size - 1)} = DepsUpTo(hidden, b, s)
    BY <1>4
  <2>5. RowDeps(hidden, b, s) \subseteq DepsUpTo(hidden, b, s)
    BY s \in 0..s DEF DepsUpTo
  <2> QED BY <2>2, <2>3, <2>4, <2>5 DEF idx
<1>6. y.dims = dims /\ y.data = [n \in 0..(Volume(dims) - 1) |-> y.data[n]]
  BY <1>2
<1> QED BY <1>1, <1>5, <1>6, Widths DEF IsForward, Shaped3, y

\* A layer keeps to the input's cells.
LEMMA LayerType ==
    ASSUME NEW B, NEW S, NEW t, Shaped3(t, B, S, hidden_size), NEW C,
           t.data \in [0..(Volume(t.dims) - 1) -> SUBSET C]
    PROVE  Forward(t).data \in [0..(Volume(Forward(t).dims) - 1) -> SUBSET C]
<1> DEFINE y == Forward(t)
           H == hidden_size
<1>1. IsForward(y, t, B, S)
  BY ForwardAt
<1>2. B \in Nat /\ S \in Nat /\ H \in Nat /\ t.dims = <<B, S, H>>
  BY Widths DEF Shaped3
<1> HIDE DEF y, H
<1>3. ASSUME NEW b \in 0..(B - 1), NEW s \in 0..(S - 1), NEW c \in 0..(H - 1)
      PROVE  At(t, <<b, s, c>>) \in SUBSET C
  <2>1. Indexes(<<B, S, H>>, <<b, s, c>>)
    BY <1>2, Places
  <2> QED BY <1>2, <2>1 DEF Indexes, At
<1>4. ASSUME NEW n \in 0..(Volume(y.dims) - 1) PROVE y.data[n] \in SUBSET C
  <2>1. PICK b \in 0..(B - 1), s \in 0..(S - 1), c \in 0..(H - 1) : y.data[n] = At(y, <<b, s, c>>)
    <3>1. Shaped3(y, B, S, H)
      BY <1>1 DEF IsForward, H
    <3>2. IsElement(y.data[n], y, B, S, H)
      BY <3>1, EveryElement
    <3> QED BY <3>2 DEF IsElement
  <2>2. y.data[n] = DepsUpTo(t, b, s)
    BY <1>1, <2>1 DEF IsForward, H
  <2>3. ASSUME NEW j \in 0..s PROVE RowDeps(t, b, j) \subseteq C
    <3>1. j \in 0..(S - 1)
      BY <1>2
    <3> QED BY <1>3, <3>1 DEF RowDeps, H
  <2> QED BY <2>2, <2>3 DEF DepsUpTo
<1>5. y.data = [n \in 0..(Volume(y.dims) - 1) |-> y.data[n]]
  BY <1>1 DEF IsForward
<1>6. y.data \in [0..(Volume(y.dims) - 1) -> SUBSET C]
  BY <1>4, <1>5
<1> QED BY <1>6 DEF y

\* The shape of the batch that the entries e make,
Batched(e) == IF Len(e) = 1 THEN e[1].shape ELSE <<Len(e)>> \o e[1].shape

\* the input cell of element j of row b of it, when it has S positions to a row,
Cell(e, S, b, j) == IF Len(e) = 1 THEN <<1, b * (S * hidden_size) + j>> ELSE <<b + 1, j>>

\* and the cells of the row up to position s.
Through(e, S, b, s) == {Cell(e, S, b, j) : j \in 0..((s + 1) * hidden_size - 1)}

\* The elements of t are the cells themselves, as loaded,
IsLoaded(t, e, B, S) ==
    \A b \in 0..(B - 1), s \in 0..(S - 1), c \in 0..(hidden_size - 1) :
        At(t, <<b, s, c>>) = {Cell(e, S, b, s * hidden_size + c)}

\* or depend on the cells of their own row up to their position.
IsCausal(t, e, B, S) ==
    \A b \in 0..(B - 1), s \in 0..(S - 1), c \in 0..(hidden_size - 1) :
        At(t, <<b, s, c>>) = Through(e, S, b, s)

\* A layer leaves every element depending on its own row up to its position,
\* on all of that and on nothing else, the first layer as each one after it.
LEMMA LayerAt ==
    ASSUME NEW B, NEW S, NEW t, Shaped3(t, B, S, hidden_size), NEW e,
           IsLoaded(t, e, B, S) \/ IsCausal(t, e, B, S)
    PROVE  IsCausal(Forward(t), e, B, S)
<1> DEFINE H == hidden_size
<1>1. B \in Nat /\ S \in Nat /\ H \in Nat /\ H > 0
  BY Widths DEF Shaped3
<1>2. IsForward(Forward(t), t, B, S)
  BY ForwardAt
<1> HIDE DEF H
<1>3. ASSUME NEW b \in 0..(B - 1), NEW s \in 0..(S - 1)
      PROVE  /\ \A c \in 0..(H - 1) : Cell(e, S, b, s * H + c) \in RowDeps(t, b, s)
             /\ RowDeps(t, b, s) \subseteq Through(e, S, b, s)
  <2>1. RowDeps(t, b, s) = UNION {At(t, <<b, s, c>>) : c \in 0..(H - 1)}
    BY DEF RowDeps, H
  <2>2. \A c \in 0..(H - 1) : s * H + c \in 0..((s + 1) * H - 1)
    <3>1. (s + 1) * H = s * H + H /\ s * H \in Nat
      BY <1>1
    <3> QED BY <1>1, <3>1
  <2>3. \A c \in 0..(H - 1) : Cell(e, S, b, s * H + c) \in Through(e, S, b, s)
    BY <2>2 DEF Through, H
  <2>4. CASE IsLoaded(t, e, B, S)
    <3>1. ASSUME NEW c \in 0..(H - 1)
          PROVE  /\ Cell(e, S, b, s * H + c) \in At(t, <<b, s, c>>)
                 /\ At(t, <<b, s, c>>) \subseteq Through(e, S, b, s)
      <4>1. At(t, <<b, s, c>>) = {Cell(e, S, b, s * H + c)}
        BY <2>4 DEF IsLoaded, H
      <4> QED BY <2>3, <4>1
    <3> QED BY <2>1, <3>1
  <2>5. CASE IsCausal(t, e, B, S)
    <3>1. \A c \in 0..(H - 1) : At(t, <<b, s, c>>) = Through(e, S, b, s)
      BY <2>5 DEF IsCausal, H
    <3> QED BY <2>1, <2>3, <3>1
  <2> QED BY <2>4, <2>5
<1>4. ASSUME NEW b \in 0..(B - 1), NEW s \in 0..(S - 1)
      PROVE  DepsUpTo(t, b, s) = Through(e, S, b, s)
  <2>1. ASSUME NEW j \in 0..s PROVE RowDeps(t, b, j) \subseteq Through(e, S, b, s)
    <3>1. j \in 0..(S - 1)
      BY <1>1
    <3>2. RowDeps(t, b, j) \subseteq Through(e, S, b, j)
      BY <1>3, <3>1
    <3>3. (j + 1) * H <= (s + 1) * H
      <4>1. CASE j = s
        BY <1>1, <4>1
      <4>2. CASE j < s
        <5>1. (j + 1) * H + H <= (s + 1) * H /\ (j + 1) * H \in Nat
          BY <1>1, <4>2, j + 1 \in Nat, s + 1 \in Nat, j + 1 < s + 1, Multiples
        <5> QED BY <1>1, <5>1
      <4> QED BY <4>1, <4>2
    <3>4. 0..((j + 1) * H - 1) \subseteq 0..((s + 1) * H - 1)
      <4>1. (j + 1) * H \in Nat /\ (s + 1) * H \in Nat
        BY <1>1
      <4> DEFINE x == (j + 1) * H
                 y == (s + 1) * H
      <4> HIDE DEF x, y
      <4>2. x \in Nat /\ y \in Nat /\ x <= y
        BY <3>3, <4>1 DEF x, y
      <4>3. 0..(x - 1) \subseteq 0..(y - 1)
        BY <4>2
      <4> QED BY <4>3 DEF x, y
    <3>5. Through(e, S, b, j) \subseteq Through(e, S, b, s)
      BY <3>4 DEF Through, H
    <3> QED BY <3>2, <3>5
  <2>2. ASSUME NEW m \in 0..((s + 1) * H - 1)
        PROVE  \E j \in 0..s : Cell(e, S, b, m) \in RowDeps(t, b, j)
    <3> DEFINE j == m \div H
               c == m % H
    <3>1. (s + 1) * H = s * H + H /\ s * H \in Nat
      BY <1>1
    <3>2. m \in Nat /\ m < s * H + H
      BY <1>1, <3>1
    <3>3. j \in Nat /\ c \in Nat /\ c < H /\ m = j * H + c
      BY <1>1, <3>2, Division
    <3> HIDE DEF j, c
    <3>4. j <= s
      <4> SUFFICES ASSUME s < j PROVE FALSE
        BY <3>3
      <4>1. s * H + H <= j * H /\ j * H \in Nat
        BY <1>1, <3>3, Multiples
      <4> DEFINE x == s * H
                 y == j * H
      <4>2. x + H <= y /\ y \in Nat /\ x \in Nat /\ m < x + H /\ m = y + c
        BY <3>1, <3>2, <3>3, <4>1
      <4> HIDE DEF x, y
      <4> QED BY <1>1, <3>3, <4>2
    <3>5. j \in 0..s /\ j \in 0..(S - 1) /\ c \in 0..(H - 1)
      BY <1>1, <3>3, <3>4
    <3>6. Cell(e, S, b, j * H + c) \in RowDeps(t, b, j)
      BY <1>3, <3>5
    <3> QED BY <3>3, <3>5, <3>6
  <2> QED BY <2>1, <2>2 DEF DepsUpTo, Through, H
<1>5. ASSUME NEW b \in 0..(B - 1), NEW s \in 0..(S - 1), NEW c \in 0..(H - 1)
      PROVE  At(Forward(t), <<b, s, c>>) = Through(e, S, b, s)
  BY <1>2, <1>4 DEF IsForward, H
<1> QED BY <1>5 DEF IsCausal, H

-----------------------------------------------------------------------------
(* ComputeEngine: the batch of the entries, and the rows of an output *)

\* row is row r - 1 of t, flattened.
IsRow(row, t, B, S, r) ==
    /\ DOMAIN row = 1..(S * hidden_size) /\ Len(row) = S * hidden_size
    /\ \A i \in 1..(S * hidden_size) :
         row[i] = At(t, <<r - 1, (i - 1) \div hidden_size, (i - 1) % hidden_size>>)

\* The place of an element of a row.
PlaceInRow(S, i) ==
    /\ (i - 1) \div hidden_size \in 0..(S - 1) /\ (i - 1) % hidden_size \in 0..(hidden_size - 1)
    /\ i - 1 = ((i - 1) \div hidden_size) * hidden_size + ((i - 1) % hidden_size)

\* Every element of a row has one.
LEMMA InRow == ASSUME NEW S \in Nat, NEW i \in 1..(S * hidden_size) PROVE PlaceInRow(S, i)
<1> DEFINE H == hidden_size
           n == i - 1
           s == n \div H
           c == n % H
<1>1. H \in Nat /\ H > 0 /\ n \in Nat /\ n < S * H
  <2>1. hidden_size \in Nat /\ hidden_size > 0
    BY Widths
  <2>2. S * hidden_size \in Nat
    BY <2>1
  <2> QED BY <2>1, <2>2
<1> HIDE DEF H, n
<1>2. s \in Nat /\ c \in Nat /\ c < H /\ n = s * H + c
  BY <1>1, Division
<1> HIDE DEF s, c
<1>3. s < S
  <2> SUFFICES ASSUME S <= s PROVE FALSE
    BY <1>2
  <2>1. S * H <= s * H
    <3>1. CASE S = s
      BY <1>1, <1>2, <3>1
    <3>2. CASE S < s
      BY <1>1, <1>2, <3>2, Multiples
    <3> QED BY <1>2, <3>1, <3>2
  <2>2. S * H \in Nat /\ s * H \in Nat
    BY <1>1, <1>2
  <2> QED BY <1>1, <1>2, <2>1, <2>2
<1>4. s \in 0..(S - 1) /\ c \in 0..(H - 1)
  BY <1>1, <1>2, <1>3
<1> QED BY <1>2, <1>4 DEF H, n, s, c, PlaceInRow

\* There is an output for each row of the batch, with its elements in order.
LEMMA SplitAt ==
    ASSUME NEW B, NEW S, NEW t, Shaped3(t, B, S, hidden_size)
    PROVE  /\ DOMAIN Split(t) = 1..B /\ Len(Split(t)) = B
           /\ \A r \in 1..B : IsRow(Split(t)[r], t, B, S, r)
<1> DEFINE H == hidden_size
           dims == <<S, H>>
<1>1. B \in Nat /\ S \in Nat /\ t.dims = <<B, S, H>> /\ H \in Nat
  BY Widths DEF Shaped3
<1>2. t.dims[1] = B /\ Tail(t.dims) = dims
  BY <1>1
<1>3. Split(t) = [r \in 1..B |-> Flatten(Part(t, r - 1))]
  BY <1>2 DEF Split
<1>4. Volume(dims) = S * H
  <2> HIDE DEF H
  <2>1. Volume(<<S, H>>) = S * H
    BY <1>1, VolumeOfTwo
  <2> QED BY <2>1
<1>5. ASSUME NEW r \in 1..B PROVE IsRow(Flatten(Part(t, r - 1)), t, B, S, r)
  <2> DEFINE p == Part(t, r - 1)
             row == Flatten(p)
  <2>1. p = [dims |-> dims,
             data |-> [n \in 0..(Volume(dims) - 1) |-> At(t, <<r - 1>> \o Index(dims, n))]]
    <3> HIDE DEF dims
    <3> QED BY <1>2 DEF Part, Tabulate
  <2> HIDE DEF p
  <2>2. row = [n \in 1..(S * H) |-> p.data[n - 1]]
    <3>1. p.dims = dims
      BY <2>1
    <3> HIDE DEF dims
    <3> QED BY <3>1, <1>4 DEF Flatten
  <2> HIDE DEF row
  <2>3. ASSUME NEW i \in 1..(S * H)
        PROVE  row[i] = At(t, <<r - 1, (i - 1) \div H, (i - 1) % H>>)
    <3> DEFINE s == (i - 1) \div H
               c == (i - 1) % H
               idx == <<s, c>>
               n == Number(dims, idx)
    <3>1. s \in 0..(S - 1) /\ c \in 0..(H - 1) /\ i - 1 = s * H + c
      <4>1. PlaceInRow(S, i)
        BY <1>1, InRow
      <4> QED BY <4>1 DEF PlaceInRow
    <3> HIDE DEF s, c
    <3>2. n \in 0..(Volume(dims) - 1) /\ Index(dims, n) = idx /\ n = s * H + c
      <4> HIDE DEF H
      <4>1. Number(<<S, H>>, <<s, c>>) = s * H + c /\ Indexes(<<S, H>>, <<s, c>>)
        BY <1>1, <3>1, Indexing2
      <4> QED BY <4>1 DEF Indexes
    <3>3. <<r - 1>> \o idx = <<r - 1, s, c>>
      BY PrependOne
    <3> HIDE DEF n, idx, dims
    <3>4. p.data[n] = At(t, <<r - 1>> \o idx)
      BY <2>1, <3>2
    <3>5. row[i] = p.data[n]
      BY <2>2, <3>1, <3>2
    <3> QED BY <3>3, <3>4, <3>5 DEF s, c
  <2>4. DOMAIN row = 1..(S * H) /\ Len(row) = S * H
    <3>1. S * H \in Nat
      BY <1>1
    <3> HIDE DEF H
    <3> QED BY <2>2, <3>1
  <2> QED BY <2>3, <2>4 DEF IsRow, row, p
<1>6. DOMAIN Split(t) = 1..B /\ Len(Split(t)) = B
  BY <1>1, <1>3
<1>7. ASSUME NEW r \in 1..B PROVE IsRow(Split(t)[r], t, B, S, r)
  <2>1. Split(t)[r] = Flatten(Part(t, r - 1))
    BY <1>3
  <2> QED BY <1>5, <2>1
<1> QED BY <1>6, <1>7

\* What is known of the entries,
Entries(e) ==
    /\ Len(e) \in Nat \ {0} /\ DOMAIN e = 1..Len(e)
    /\ \A n \in 1..Len(e) : /\ e[n].shape \in Seq(Nat \ {0}) /\ e[n].bytes \in Nat
                            /\ Volume(e[n].shape) \in Nat \ {0}

\* The constants say so.
LEMMA InputsAreEntries == ASSUME NEW e \in Inputs PROVE Entries(e)
<1>1. e # <<>> /\ e \in Seq([dtype : STRING, shape : Seq(Nat \ {0}), bytes : Nat])
  BY EngineAssumption
<1>2. Len(e) \in Nat \ {0} /\ DOMAIN e = 1..Len(e)
  BY <1>1
<1>3. ASSUME NEW n \in 1..Len(e)
      PROVE  /\ e[n].shape \in Seq(Nat \ {0}) /\ e[n].bytes \in Nat
             /\ Volume(e[n].shape) \in Nat \ {0}
  <2>1. e[n].shape \in Seq(Nat \ {0}) /\ e[n].bytes \in Nat
    <3> DEFINE R == [dtype : STRING, shape : Seq(Nat \ {0}), bytes : Nat]
    <3>1. e \in Seq(R)
      BY <1>1
    <3>2. e[n] \in R
      <4> HIDE DEF R
      <4> QED BY <3>1, <1>2
    <3> QED BY <3>2
  <2> DEFINE dims == e[n].shape
             k == Len(dims)
  <2>2. k \in Nat /\ DOMAIN dims = 1..k /\ \A a \in 1..k : dims[a] \in Nat \ {0}
    <3> HIDE DEF dims
    <3> QED BY <2>1 DEF dims
  <2> HIDE DEF dims, k
  <2>3. Volume(dims) \in Nat \ {0}
    BY <2>2, VolumePositive
  <2> QED BY <2>1, <2>3 DEF dims
<1> QED BY <1>2, <1>3 DEF Entries

\* and of one that can be read.
IsBuffer(t, e, n) ==
    t.dims = e[n].shape /\ t.data = [i \in 0..(Volume(e[n].shape) - 1) |-> {<<n, i>>}]

\* A readable entry has an element for each place in its shape.
LEMMA BufferAt ==
    ASSUME Entries(entries), NEW n \in DOMAIN entries, Readable(entries[n])
    PROVE  IsBuffer(FromRawBuffer(n), entries, n) /\ Volume(entries[n].shape) <= entries[n].bytes
<1> DEFINE width == ElementSize(entries[1].dtype)
           bytes == entries[n].bytes
           V == Volume(entries[n].shape)
<1>1. bytes \in Nat /\ V \in Nat /\ width \in {2, 4} /\ bytes \div width = V
  BY DEF Entries, ElementSize, Readable
<1>2. IsBuffer(FromRawBuffer(n), entries, n)
  <2>1. FromRawBuffer(n) = [dims |-> entries[n].shape,
                            data |-> [i \in 0..(bytes \div width - 1) |-> {<<n, i>>}]]
    BY DEF FromRawBuffer
  <2> HIDE DEF bytes, width
  <2> QED BY <1>1, <2>1 DEF IsBuffer
<1> HIDE DEF width, bytes, V
<1>3. V <= bytes
  <2>1. /\ bytes = V * width + (bytes % width) /\ bytes % width \in Nat
    BY <1>1, Division
  <2>2. width = 2 \/ width = 4
    BY <1>1
  <2> QED BY <1>1, <2>1, <2>2
<1> QED BY <1>2, <1>3 DEF V, bytes

\* The tensor that the batch of the entries is.
IsBatch(t, e) ==
    /\ t.dims = Batched(e)
    /\ t.data \in [0..(Volume(t.dims) - 1) -> SUBSET Cells]
    /\ \A B, S : t.dims = <<B, S, hidden_size>> => IsLoaded(t, e, B, S)

\* One entry is the batch,
LEMMA SingleBatch ==
    ASSUME Entries(entries), Len(entries) = 1, Readable(entries[1])
    PROVE  IsBatch(FromRawBuffer(1), entries)
<1> DEFINE t == FromRawBuffer(1)
           V == Volume(entries[1].shape)
<1>1. /\ 1 \in DOMAIN entries /\ V \in Nat \ {0} /\ entries[1].bytes \in Nat
      /\ entries[1].shape \in Seq(Nat \ {0})
  BY DEF Entries
<1>2. IsBuffer(t, entries, 1) /\ V <= entries[1].bytes
  BY <1>1, BufferAt
<1> HIDE DEF t
<1>3. t.dims = entries[1].shape /\ t.data = [i \in 0..(V - 1) |-> {<<1, i>>}]
  BY <1>2 DEF IsBuffer
<1> HIDE DEF V
<1>4. t.data \in [0..(V - 1) -> SUBSET Cells]
  <2>1. \A i \in 0..(V - 1) : <<1, i>> \in Cells
    BY <1>1, <1>2 DEF Cells
  <2> QED BY <1>3, <2>1
<1>5. ASSUME NEW B, NEW S, t.dims = <<B, S, hidden_size>> PROVE IsLoaded(t, entries, B, S)
  <2> DEFINE H == hidden_size
  <2>1. B \in Nat /\ S \in Nat /\ H \in Nat
    <3>1. <<B, S, hidden_size>> \in Seq(Nat \ {0})
      BY <1>1, <1>3, <1>5
    <3> DEFINE q == <<B, S, hidden_size>>
    <3>2. q \in Seq(Nat \ {0}) /\ Len(q) = 3 /\ q[1] = B /\ q[2] = S
      BY <3>1
    <3> HIDE DEF q
    <3>3. q[1] \in Nat /\ q[2] \in Nat
      BY <3>2
    <3> QED BY <3>2, <3>3, Widths
  <2> SUFFICES ASSUME NEW b \in 0..(B - 1), NEW s \in 0..(S - 1), NEW c \in 0..(H - 1)
               PROVE  At(t, <<b, s, c>>) = {Cell(entries, S, b, s * H + c)}
    BY DEF IsLoaded
  <2> HIDE DEF H
  <2>2. /\ Number(<<B, S, H>>, <<b, s, c>>) = (b * S + s) * H + c
        /\ Indexes(<<B, S, H>>, <<b, s, c>>)
    BY <2>1, Indexing3
  <2>3. (b * S + s) * H + c \in 0..(V - 1)
    <3>1. V = Volume(<<B, S, H>>)
      BY <1>3, <1>5 DEF V, H
    <3> HIDE DEF V
    <3> QED BY <2>2, <3>1 DEF Indexes
  <2> DEFINE i == (b * S + s) * H + c
  <2>4. At(t, <<b, s, c>>) = t.data[i]
    BY <1>5, <2>2 DEF At, H
  <2>5. i = b * (S * H) + (s * H + c)
    BY <2>1
  <2>6. Cell(entries, S, b, s * H + c) = <<1, b * (S * H) + (s * H + c)>>
    BY DEF Cell, H
  <2> HIDE DEF i
  <2>7. t.data[i] = {<<1, i>>}
    BY <1>3, <2>3 DEF i
  <2> QED BY <2>4, <2>5, <2>6, <2>7
<1>6. t.dims = Batched(entries) /\ V = Volume(t.dims)
  BY <1>3 DEF Batched, V
<1>7. IsBatch(t, entries)
  BY <1>4, <1>5, <1>6 DEF IsBatch
<1> QED BY <1>7 DEF t

\* and several are stacked.
Buffers == [n \in DOMAIN entries |-> FromRawBuffer(n)]

\* Stacked, they have a row each.
LEMMA StackIs ==
    ASSUME Entries(entries), Len(entries) # 1,
           \A n \in DOMAIN entries : Readable(entries[n]),
           \A n \in DOMAIN entries : entries[n].shape = entries[1].shape
    PROVE  IsBatch(Stack(Buffers), entries)
<1> DEFINE N == Len(entries)
           shape == entries[1].shape
           k == Len(shape)
           V == Volume(shape)
           dims == <<N>> \o shape
           t == Stack(Buffers)
<1>1. /\ N \in Nat \ {0} /\ DOMAIN entries = 1..N /\ 1 \in 1..N
      /\ shape \in Seq(Nat \ {0}) /\ k \in Nat /\ V \in Nat \ {0} /\ entries[1].bytes \in Nat
  BY DEF Entries
<1>2. ASSUME NEW n \in 1..N
      PROVE  /\ Buffers[n].dims = shape
             /\ Buffers[n].data = [i \in 0..(V - 1) |-> {<<n, i>>}]
  <2>1. n \in DOMAIN entries /\ entries[n].shape = shape /\ Readable(entries[n])
    BY <1>1
  <2>2. IsBuffer(FromRawBuffer(n), entries, n)
    BY <2>1, BufferAt
  <2>3. Buffers[n] = FromRawBuffer(n)
    BY <2>1 DEF Buffers
  <2> QED BY <2>1, <2>2, <2>3 DEF IsBuffer
<1>3. V <= entries[1].bytes
  BY <1>1, BufferAt
<1>4. DOMAIN Buffers = 1..N /\ Len(Buffers) = N /\ Buffers[1].dims = shape
  <2>1. DOMAIN Buffers = 1..N
    BY <1>1 DEF Buffers
  <2>2. Len(Buffers) = N
    <3> HIDE DEF N
    <3> QED BY <1>1, <2>1 DEF Buffers
  <2> QED BY <1>1, <1>2, <2>1, <2>2
<1>5. t = [dims |-> dims,
           data |-> [m \in 0..(Volume(dims) - 1) |->
                      At(Buffers[Index(dims, m)[1] + 1], Tail(Index(dims, m)))]]
  <2>1. <<Len(Buffers)>> \o Buffers[1].dims = dims
    BY <1>4
  <2> HIDE DEF dims
  <2> QED BY <2>1 DEF Stack, Tabulate
<1>6. IsPrepended(dims, N, shape, Nat \ {0})
  <2> HIDE DEF N, shape
  <2> QED BY <1>1, Prepend
<1> HIDE DEF t, dims, shape, k, V, N
<1>7. /\ dims \in Seq(Nat \ {0}) /\ Len(dims) = k + 1 /\ dims[1] = N
      /\ \A a \in 1..k : dims[a + 1] = shape[a]
  BY <1>6 DEF IsPrepended, k
<1>8. ASSUME NEW n \in 1..N, NEW idx, \A a \in 1..k : idx[a] \in 0..(shape[a] - 1)
      PROVE  /\ Number(shape, idx) \in 0..(V - 1)
             /\ At(Buffers[n], idx) = {<<n, Number(shape, idx)>>}
  <2>1. DOMAIN shape = 1..k /\ \A a \in 1..k : shape[a] \in Nat \ {0}
    BY <1>1 DEF k
  <2>2. Number(shape, idx) \in 0..(V - 1)
    BY <1>1, <1>8, <2>1, NumberBelow DEF V
  <2>3. At(Buffers[n], idx) = Buffers[n].data[Number(shape, idx)]
    BY <1>2 DEF At
  <2> QED BY <1>2, <2>2, <2>3
<1>9. ASSUME NEW m \in 0..(Volume(dims) - 1)
      PROVE  t.data[m] \in SUBSET Cells
  <2> DEFINE idx == Index(dims, m)
             n == idx[1] + 1
  <2>1. m \in Nat /\ DOMAIN dims = 1..(k + 1)
    <3>1. Volume(dims) \in Nat
      <4>1. \A a \in 1..(k + 1) : dims[a] \in Nat \ {0}
        BY <1>1, <1>7
      <4> QED BY <1>1, <1>7, <4>1, k + 1 \in Nat, VolumePositive
    <3> QED BY <3>1, <1>7, <1>1
  <2>2. \A a \in 1..(k + 1) : idx[a] \in 0..(dims[a] - 1)
    BY <1>1, <1>7, <2>1, k + 1 \in Nat, IndexWithin
  <2>3. idx = [a \in 1..(k + 1) |-> idx[a]]
    BY <2>1 DEF Index
  <2> HIDE DEF idx
  <2>4. n \in 1..N
    BY <1>1, <1>7, <2>2
  <2>5. Tail(idx) = [a \in 1..k |-> idx[a + 1]]
    <3>1. Len(idx) = k + 1
      BY <1>1, <2>3
    <3>2. (k + 1) - 1 = k
      BY <1>1
    <3> QED BY <1>1, <2>3, <3>1, <3>2
  <2>6. \A a \in 1..k : Tail(idx)[a] \in 0..(shape[a] - 1)
    <3>1. \A a \in 1..k : a + 1 \in 1..(k + 1) /\ dims[a + 1] = shape[a]
      BY <1>1, <1>7
    <3> QED BY <2>2, <2>5, <3>1
  <2> DEFINE i == Number(shape, Tail(idx))
  <2>7. i \in 0..(V - 1) /\ At(Buffers[n], Tail(idx)) = {<<n, i>>}
    BY <1>8, <2>4, <2>6
  <2>8. t.data[m] = At(Buffers[n], Tail(idx))
    BY <1>5 DEF idx
  <2> HIDE DEF n, i
  <2>9. <<n, i>> \in Cells
    <3>1. n \in DOMAIN entries /\ i \in 0..(entries[1].bytes - 1)
      BY <1>1, <1>3, <2>4, <2>7
    <3> QED BY <3>1 DEF Cells
  <2> QED BY <2>7, <2>8, <2>9
<1>10. t.data \in [0..(Volume(dims) - 1) -> SUBSET Cells] /\ t.dims = dims
  <2>1. t.dims = dims /\ t.data = [m \in 0..(Volume(dims) - 1) |-> t.data[m]]
    BY <1>5
  <2> QED BY <1>9, <2>1
<1>11. ASSUME NEW B, NEW S, t.dims = <<B, S, hidden_size>> PROVE IsLoaded(t, entries, B, S)
  <2> DEFINE H == hidden_size
             q == <<B, S, H>>
  <2>1. dims = q /\ q[1] = B /\ q[2] = S /\ q[3] = H /\ Len(q) = 3
    BY <1>10, <1>11
  <2> HIDE DEF q, H
  <2>2. k = 2 /\ B = N /\ S = shape[1] /\ H = shape[2]
    <3>1. k = 2
      <4>1. Len(dims) = k + 1 /\ Len(dims) = 3
        BY <1>7, <2>1
      <4>2. k + 1 = 3 /\ k \in Nat
        BY <1>1, <4>1
      <4> QED BY <4>2
    <3>2. dims[1 + 1] = shape[1] /\ dims[2 + 1] = shape[2]
      BY <1>7, <3>1
    <3> QED BY <1>7, <2>1, <3>1, <3>2
  <2>3. shape = <<S, H>> /\ B \in Nat /\ S \in Nat /\ H \in Nat
    <3>1. shape \in Seq(Nat \ {0}) /\ Len(shape) = 2
      BY <1>1, <2>2 DEF k
    <3>2. shape = <<shape[1], shape[2]>> /\ shape[1] \in Nat \ {0} /\ shape[2] \in Nat \ {0}
      BY <3>1, Pair
    <3> QED BY <1>1, <2>2, <3>2
  <2>4. ASSUME NEW b \in 0..(B - 1), NEW s \in 0..(S - 1), NEW c \in 0..(H - 1)
        PROVE  At(t, <<b, s, c>>) = {Cell(entries, S, b, s * H + c)}
    <3> DEFINE idx == <<b, s, c>>
               m == Number(dims, idx)
    <3>1. m \in 0..(Volume(dims) - 1) /\ Index(dims, m) = idx
      <4>1. Indexes(<<B, S, H>>, <<b, s, c>>)
        BY <2>3, Places
      <4> QED BY <2>1, <4>1 DEF Indexes, q
    <3>2. At(t, idx) = t.data[m]
      BY <1>10 DEF At
    <3>3. idx[1] = b /\ Tail(idx) = <<s, c>>
      OBVIOUS
    <3> HIDE DEF m, idx
    <3>4. t.data[m] = At(Buffers[b + 1], <<s, c>>)
      BY <1>5, <3>1, <3>3
    <3>5. b + 1 \in 1..N
      BY <2>2, <2>3
    <3>6. Number(shape, <<s, c>>) = s * H + c
      BY <2>3, Indexing2
    <3>7. \A a \in 1..k : <<s, c>>[a] \in 0..(shape[a] - 1)
      BY <2>2
    <3>8. At(Buffers[b + 1], <<s, c>>) = {<<b + 1, Number(shape, <<s, c>>)>>}
      BY <1>8, <3>5, <3>7
    <3>9. Cell(entries, S, b, s * H + c) = <<b + 1, s * H + c>>
      BY DEF Cell
    <3> QED BY <3>2, <3>4, <3>6, <3>8, <3>9 DEF idx
  <2> QED BY <2>4 DEF IsLoaded, H
<1>12. t.dims = Batched(entries)
  BY <1>10 DEF Batched, dims, N, shape
<1>13. IsBatch(t, entries)
  <2>1. t.data \in [0..(Volume(t.dims) - 1) -> SUBSET Cells]
    BY <1>10
  <2> QED BY <1>11, <1>12, <2>1 DEF IsBatch
<1> QED BY <1>13 DEF t

\* The batch of several entries has a dimension more than they have.
LEMMA BatchedIs ==
    ASSUME NEW e, Entries(e)
    PROVE  /\ Batched(e) \in Seq(Nat \ {0})
           /\ Len(e) # 1 => Len(Batched(e)) = Len(e[1].shape) + 1 /\ Batched(e)[1] = Len(e)
<1> DEFINE N == Len(e)
           shape == e[1].shape
<1>1. shape \in Seq(Nat \ {0}) /\ N \in Nat \ {0}
  BY DEF Entries
<1>2. CASE N = 1
  <2>1. Batched(e) = shape
    BY <1>2 DEF Batched
  <2> QED BY <1>1, <1>2, <2>1
<1>3. CASE N # 1
  <2> DEFINE dims == <<N>> \o shape
  <2>1. Batched(e) = dims
    BY <1>3 DEF Batched
  <2> HIDE DEF N, shape
  <2>2. IsPrepended(dims, N, shape, Nat \ {0})
    BY <1>1, Prepend
  <2> HIDE DEF dims
  <2> QED BY <2>1, <2>2 DEF IsPrepended, N, shape
<1> QED BY <1>2, <1>3

\* The shape of the batch is the entries' own, or that behind their number,
ShapeFits(e) ==
    /\ Len(e[1].shape) = IF Len(e) = 1 THEN 3 ELSE 2
    /\ Last(e[1].shape) = hidden_size

\* so that a block accepts the one just if the other fits.
LEMMA BatchFits ==
    ASSUME NEW e, Entries(e)
    PROVE  ShapeFits(e) <=> Len(Batched(e)) = 3 /\ Batched(e)[3] = hidden_size
<1> DEFINE N == Len(e)
           shape == e[1].shape
           k == Len(shape)
<1>1. shape \in Seq(Nat \ {0}) /\ N \in Nat \ {0} /\ k \in Nat
  BY DEF Entries
<1>2. CASE N = 1
  <2>1. Batched(e) = shape
    BY <1>2 DEF Batched
  <2> QED BY <1>2, <2>1 DEF ShapeFits, Last
<1>3. CASE N # 1
  <2> DEFINE dims == <<N>> \o shape
  <2>1. Batched(e) = dims
    BY <1>3 DEF Batched
  <2>2. ShapeFits(e) <=> k = 2 /\ shape[2] = hidden_size
    BY <1>3 DEF ShapeFits, Last
  <2> HIDE DEF N, shape
  <2>3. IsPrepended(dims, N, shape, Nat \ {0})
    BY <1>1, Prepend
  <2> HIDE DEF dims
  <2>4. Len(dims) = k + 1 /\ \A a \in 1..k : dims[a + 1] = shape[a]
    BY <2>3 DEF IsPrepended
  <2> HIDE DEF k
  <2>5. k = 2 => dims[3] = shape[2]
    <3>1. k = 2 => 2 \in 1..k /\ 2 + 1 = 3
      OBVIOUS
    <3> QED BY <2>4, <3>1
  <2>6. Len(dims) = 3 <=> k = 2
    BY <1>1, <2>4
  <2> QED BY <2>1, <2>2, <2>5, <2>6
<1> QED BY <1>2, <1>3

-----------------------------------------------------------------------------
(* ComputeEngine: the inductive invariant of the terminal pass *)

\* Before the first layer each element is its own cell,
Loaded(t, e) ==
    Len(t.dims) = 3 /\ t.dims[3] = hidden_size => IsLoaded(t, e, t.dims[1], t.dims[2])

\* and after it what the rows up to its own are.
Passed(t, e) ==
    /\ Shaped3(t, t.dims[1], t.dims[2], hidden_size)
    /\ IsCausal(t, e, t.dims[1], t.dims[2])

\* The entries can be read, and stacked.
Loadable(e) == \A n \in DOMAIN e : Readable(e[n]) /\ e[n].shape = e[1].shape

\* What holds between the steps of the pass.
PassInv ==
    /\ EngineTypeOK
    /\ Entries(entries)
    /\ stage \in {"decode", "load"} => layer = start_layer
    /\ stage \in {"layers", "done"} => current.dims = Batched(entries) /\ Loadable(entries)
    /\ stage = "layers" => current # None
    /\ stage = "layers" /\ layer = start_layer => Loaded(current, entries)
    /\ stage \in {"layers", "done"} /\ layer > start_layer =>
          /\ Passed(current, entries)
          /\ entries[1].dtype = "F32" /\ start_layer..(layer - 1) \subseteq blocks
    /\ stage = "done" => layer = end_layer + 1 /\ outputs = Split(current)
    /\ stage = "error" => ~Acceptable

\* It holds before the tensors are loaded,
LEMMA PassInit == EngineInit => PassInv
<1> SUFFICES ASSUME EngineInit PROVE PassInv
  OBVIOUS
<1>1. /\ entries \in Inputs /\ current = None /\ layer = start_layer /\ outputs = <<>>
      /\ stage \in {"decode", "load"}
  BY DEF EngineInit
<1>2. Entries(entries)
  BY <1>1, InputsAreEntries
<1>3. EngineTypeOK
  BY <1>1, EngineAssumption DEF EngineTypeOK
<1> QED BY <1>1, <1>2, <1>3 DEF PassInv

\* after they are,
LEMMA LoadStep ==
    ASSUME PassInv, LoadBatch
    PROVE  PassInv'
<1>1. /\ Entries(entries) /\ stage = "load" /\ layer = start_layer /\ EngineTypeOK
      /\ outputs = <<>>
      /\ UNCHANGED <<entries, layer, outputs>>
  BY DEF PassInv, LoadBatch, EngineTypeOK
<1>2. Cells' = Cells
  BY <1>1 DEF Cells
<1>3. CASE /\ \A n \in DOMAIN entries : Readable(entries[n])
           /\ \A n \in DOMAIN entries : entries[n].shape = entries[1].shape
  <2>1. /\ current' = IF Len(entries) = 1 THEN FromRawBuffer(1) ELSE Stack(Buffers)
        /\ stage' = "layers"
    BY <1>3 DEF LoadBatch, Batch, Buffers
  <2>2. IsBatch(current', entries)
    <3>1. CASE Len(entries) = 1
      <4>1. 1 \in DOMAIN entries
        BY <1>1 DEF Entries
      <4> QED BY <1>1, <1>3, <2>1, <3>1, <4>1, SingleBatch
    <3>2. CASE Len(entries) # 1
      BY <1>1, <1>3, <2>1, <3>2, StackIs
    <3> QED BY <3>1, <3>2
  <2>3. /\ current'.dims = Batched(entries)
        /\ current'.data \in [0..(Volume(current'.dims) - 1) -> SUBSET Cells]
    BY <2>2 DEF IsBatch
  <2> DEFINE dims == current'.dims
  <2>7. ASSUME Len(dims) = 3, dims[3] = hidden_size
        PROVE  IsLoaded(current', entries, dims[1], dims[2])
    <3>1. dims \in Seq(Nat \ {0})
      BY <1>1, <2>3, BatchedIs
    <3>2. dims = <<dims[1], dims[2], hidden_size>>
      <4> HIDE DEF dims
      <4> QED BY <2>7, <3>1, Triple
    <3> QED BY <2>2, <3>2 DEF IsBatch
  <2>8. Loaded(current', entries)
    BY <2>7 DEF Loaded
  <2>4. EngineTypeOK'
    BY <1>1, <1>2, <2>1, <2>3 DEF EngineTypeOK
  <2>5. current' # None
    BY <2>1 DEF None, FromRawBuffer, Stack, Tabulate
  <2>6. ~(layer' > start_layer)
    BY <1>1, EngineAssumption
  <2>9. Loadable(entries)'
    BY <1>1, <1>3 DEF Loadable, Readable
  <2> QED BY <1>1, <2>1, <2>3, <2>4, <2>5, <2>6, <2>8, <2>9 DEF PassInv
<1>4. CASE ~ /\ \A n \in DOMAIN entries : Readable(entries[n])
             /\ \A n \in DOMAIN entries : entries[n].shape = entries[1].shape
  <2>1. stage' = "error" /\ current' = current
    BY <1>4 DEF LoadBatch
  <2>2. EngineTypeOK'
    BY <1>1, <1>2, <2>1 DEF EngineTypeOK
  <2>3. ~Acceptable
    <3>1. SUFFICES ASSUME Acceptable PROVE FALSE
      OBVIOUS
    <3>2. \A n \in DOMAIN entries : Readable(entries[n]) /\ entries[n].shape = entries[1].shape
      BY <3>1 DEF Acceptable, Readable, ElementSize
    <3> QED BY <1>4, <3>2
  <2>4. ~Acceptable'
    BY <1>1, <2>3 DEF Acceptable
  <2> QED BY <1>1, <2>1, <2>2, <2>4 DEF PassInv
<1> QED BY <1>3, <1>4

\* after each layer,
LEMMA LayerStep ==
    ASSUME PassInv, RunLayer
    PROVE  PassInv'
<1>1. /\ Entries(entries) /\ stage = "layers" /\ EngineTypeOK /\ outputs = <<>>
      /\ layer \in start_layer..(end_layer + 1) /\ layer <= end_layer
      /\ current.dims = Batched(entries) /\ Loadable(entries) /\ current # None
      /\ current.data \in [0..(Volume(current.dims) - 1) -> SUBSET Cells]
      /\ UNCHANGED <<entries, outputs>>
  BY DEF PassInv, RunLayer, EngineTypeOK
<1>2. Cells' = Cells
  BY <1>1 DEF Cells
<1> DEFINE Fits == /\ layer \in blocks
                   /\ Len(current.dims) = 3 /\ current.dims[3] = hidden_size
                   /\ entries[1].dtype = "F32"
<1>3. CASE Fits
  <2> DEFINE B == current.dims[1]
             S == current.dims[2]
  <2>1. current' = Forward(current) /\ layer' = layer + 1 /\ stage' = stage
    BY <1>3 DEF RunLayer
  <2>2. Shaped3(current, B, S, hidden_size)
    <3> DEFINE dims == current.dims
    <3>1. dims \in Seq(Nat \ {0}) /\ Len(dims) = 3
      BY <1>1, <1>3, BatchedIs
    <3> HIDE DEF dims
    <3>2. /\ dims = <<dims[1], dims[2], dims[3]>>
          /\ dims[1] \in Nat \ {0} /\ dims[2] \in Nat \ {0} /\ dims[3] \in Nat \ {0}
      BY <3>1, Triple
    <3> QED BY <1>3, <3>2 DEF Shaped3, dims
  <2>3. IsLoaded(current, entries, B, S) \/ IsCausal(current, entries, B, S)
    <3>1. CASE layer = start_layer
      <4>1. Loaded(current, entries)
        BY <1>1, <3>1 DEF PassInv
      <4> QED BY <1>3, <4>1 DEF Loaded
    <3>2. CASE layer > start_layer
      BY <1>1, <3>2 DEF PassInv, Passed
    <3> QED BY <1>1, <3>1, <3>2, EngineAssumption
  <2>4. IsCausal(Forward(current), entries, B, S)
    BY <2>2, <2>3, LayerAt
  <2>5. IsForward(Forward(current), current, B, S)
    BY <2>2, ForwardAt
  <2>6. Forward(current).dims = current.dims
    BY <2>2, <2>5 DEF IsForward, Shaped3
  <2>7. Passed(current', entries)
    BY <2>1, <2>2, <2>4, <2>6 DEF Passed, Shaped3
  <2>8. current'.data \in [0..(Volume(current'.dims) - 1) -> SUBSET Cells]
    BY <1>1, <2>1, <2>2, LayerType
  <2>9. current' # None
    BY <2>1 DEF None, Forward, Tabulate
  <2>10. layer' \in start_layer..(end_layer + 1) /\ layer' # start_layer
    BY <1>1, <2>1, EngineAssumption
  <2>12. start_layer..(layer' - 1) \subseteq blocks
    <3>1. layer = start_layer \/ start_layer..(layer - 1) \subseteq blocks
      BY <1>1, EngineAssumption DEF PassInv
    <3>2. \A l \in start_layer..(layer' - 1) : l = layer \/ l \in start_layer..(layer - 1)
      BY <1>1, <2>1, EngineAssumption
    <3>3. layer = start_layer => start_layer..(layer - 1) = {}
      BY <1>1, EngineAssumption
    <3> QED BY <1>3, <3>1, <3>2, <3>3
  <2>11. EngineTypeOK'
    BY <1>1, <1>2, <2>1, <2>8, <2>10 DEF EngineTypeOK
  <2>13. Loadable(entries)'
    BY <1>1 DEF Loadable, Readable
  <2> QED BY <1>1, <1>3, <2>1, <2>6, <2>7, <2>9, <2>10, <2>11, <2>12, <2>13 DEF PassInv
<1>4. CASE ~Fits
  <2>1. stage' = "error" /\ current' = current /\ layer' = layer
    BY <1>4 DEF RunLayer
  <2>2. EngineTypeOK'
    BY <1>1, <1>2, <2>1 DEF EngineTypeOK
  <2>3. ~Acceptable
    <3>1. SUFFICES ASSUME Acceptable PROVE FALSE
      OBVIOUS
    <3>2. ShapeFits(entries) /\ entries[1].dtype = "F32"
      BY <3>1 DEF Acceptable, ShapeFits
    <3>3. Len(current.dims) = 3 /\ current.dims[3] = hidden_size
      BY <1>1, <3>2, BatchFits
    <3>4. layer \in blocks
      <4>1. layer \in start_layer..end_layer
        BY <1>1, EngineAssumption
      <4> QED BY <3>1, <4>1 DEF Acceptable
    <3> QED BY <1>4, <3>2, <3>3, <3>4
  <2>4. ~Acceptable'
    BY <1>1, <2>3 DEF Acceptable
  <2> QED BY <1>1, <2>1, <2>2, <2>4 DEF PassInv
<1> QED BY <1>3, <1>4

\* after the last one
LEMMA FinishStep ==
    ASSUME PassInv, Finish
    PROVE  PassInv'
<1>1. /\ stage = "layers" /\ layer > end_layer /\ outputs' = Split(current) /\ stage' = "done"
      /\ UNCHANGED <<entries, current, layer>> /\ layer \in start_layer..(end_layer + 1)
  BY DEF PassInv, Finish, EngineTypeOK
<1>2. Cells' = Cells
  BY <1>1 DEF Cells
<1>3. EngineTypeOK'
  BY <1>1, <1>2 DEF PassInv, EngineTypeOK
<1>4. layer > start_layer /\ layer = end_layer + 1
  BY <1>1, EngineAssumption
<1>5. /\ Entries(entries) /\ current.dims = Batched(entries) /\ Loadable(entries)
      /\ Passed(current, entries)
      /\ entries[1].dtype = "F32" /\ start_layer..(layer - 1) \subseteq blocks
  BY <1>1, <1>4 DEF PassInv
<1>6. Loadable(entries)'
  BY <1>1, <1>5 DEF Loadable, Readable
<1> QED BY <1>1, <1>3, <1>4, <1>5, <1>6 DEF PassInv

\* and so after every step, those of decoding included.
LEMMA PassStep ==
    ASSUME PassInv, [EngineNext]_engineVars
    PROVE  PassInv'
<1>1. ASSUME UNCHANGED <<entries, current, layer, outputs, stage>> PROVE PassInv'
  BY <1>1 DEF PassInv, EngineTypeOK, Cells, Acceptable, Loadable, Readable
<1>2. ForwardWithKvCache \/ UNCHANGED engineVars
        => UNCHANGED <<entries, current, layer, outputs, stage>>
  BY DEF ForwardWithKvCache, engineVars, pass
<1> QED BY <1>1, <1>2, LoadStep, LayerStep, FinishStep DEF EngineNext

\* The invariant holds throughout.
LEMMA PassIsKept == EngineSpec => []PassInv
BY PassInit, PassStep, PTL DEF EngineSpec

\* What a finished pass has given for a batch of B rows of S positions.
IsAnswer(out, e, B, S) ==
    /\ B \in Nat \ {0} /\ S \in Nat \ {0} /\ Batched(e) = <<B, S, hidden_size>>
    /\ DOMAIN out = 1..B /\ Len(out) = B
    /\ \A r \in 1..B :
          /\ DOMAIN out[r] = 1..(S * hidden_size) /\ Len(out[r]) = S * hidden_size
          /\ \A i \in 1..(S * hidden_size) :
                out[r][i] = Through(e, S, r - 1, (i - 1) \div hidden_size)

\* The invariant says so of every pass that is done.
LEMMA AnswerIs ==
    ASSUME PassInv, stage = "done"
    PROVE  IsAnswer(outputs, entries, current.dims[1], current.dims[2])
<1> DEFINE B == current.dims[1]
           S == current.dims[2]
           H == hidden_size
<1>1. /\ Entries(entries) /\ outputs = Split(current) /\ current.dims = Batched(entries)
      /\ Shaped3(current, B, S, H) /\ IsCausal(current, entries, B, S)
  <2>1. layer > start_layer
    BY EngineAssumption DEF PassInv
  <2> QED BY <2>1 DEF PassInv, Passed
<1>2. current.dims = <<B, S, H>> /\ B \in Nat /\ S \in Nat
  BY <1>1 DEF Shaped3
<1>3. B \in Nat \ {0} /\ S \in Nat \ {0}
  <2> DEFINE dims == current.dims
  <2>1. dims \in Seq(Nat \ {0}) /\ Len(dims) = 3
    BY <1>1, <1>2, BatchedIs
  <2> HIDE DEF dims
  <2>2. dims[1] \in Nat \ {0} /\ dims[2] \in Nat \ {0}
    BY <2>1, Triple
  <2> QED BY <2>2 DEF dims
<1> HIDE DEF B, S
<1>4. /\ DOMAIN Split(current) = 1..B /\ Len(Split(current)) = B
      /\ \A r \in 1..B : IsRow(Split(current)[r], current, B, S, r)
  BY <1>1, SplitAt DEF H
<1>5. ASSUME NEW r \in 1..B
      PROVE  /\ DOMAIN outputs[r] = 1..(S * H) /\ Len(outputs[r]) = S * H
             /\ \A i \in 1..(S * H) : outputs[r][i] = Through(entries, S, r - 1, (i - 1) \div H)
  <2>1. IsRow(outputs[r], current, B, S, r)
    BY <1>1, <1>4
  <2>2. ASSUME NEW i \in 1..(S * H)
        PROVE  outputs[r][i] = Through(entries, S, r - 1, (i - 1) \div H)
    <3>1. PlaceInRow(S, i)
      BY <1>2, InRow DEF H
    <3> DEFINE s == (i - 1) \div H
               c == (i - 1) % H
    <3>2. s \in 0..(S - 1) /\ c \in 0..(H - 1)
      BY <3>1 DEF PlaceInRow, H
    <3>3. outputs[r][i] = At(current, <<r - 1, s, c>>)
      BY <2>1 DEF IsRow, H
    <3>4. r - 1 \in 0..(B - 1)
      BY <1>2
    <3> HIDE DEF s, c
    <3>5. At(current, <<r - 1, s, c>>) = Through(entries, S, r - 1, s)
      BY <1>1, <3>2, <3>4 DEF IsCausal, H
    <3> QED BY <3>3, <3>5 DEF s
  <2> QED BY <2>1, <2>2 DEF IsRow, H
<1>6. IsAnswer(outputs, entries, B, S)
  BY <1>1, <1>2, <1>3, <1>4, <1>5 DEF IsAnswer, H
<1> QED BY <1>6 DEF B, S

\* The invariant is strong enough for the dependencies,
LEMMA CausalIfKept == PassInv => OutputsAreCausal
<1> SUFFICES ASSUME PassInv, NEW r \in DOMAIN outputs, NEW i \in DOMAIN outputs[r]
             PROVE  outputs[r][i] =
                      {<<IF Len(entries) = 1 THEN 1 ELSE r,
                         (IF Len(entries) = 1 THEN (r - 1) * Len(outputs[r]) ELSE 0) + j>> :
                         j \in 0..(((i - 1) \div hidden_size + 1) * hidden_size - 1)}
  BY DEF OutputsAreCausal
<1> DEFINE B == current.dims[1]
           S == current.dims[2]
           s == (i - 1) \div hidden_size
           e == entries
<1>1. stage = "done"
  <2>1. outputs # <<>>
    OBVIOUS
  <2> QED BY <2>1 DEF PassInv, EngineTypeOK
<1>2. IsAnswer(outputs, e, B, S)
  BY <1>1, AnswerIs
<1> HIDE DEF B, S, e
<1>3. r \in 1..B /\ i \in 1..(S * hidden_size) /\ Len(outputs[r]) = S * hidden_size /\ B \in Nat
  BY <1>2 DEF IsAnswer
<1>4. outputs[r][i] = Through(e, S, r - 1, s)
  BY <1>2, <1>3 DEF IsAnswer
<1>5. Through(e, S, r - 1, s)
        = {Cell(e, S, r - 1, j) : j \in 0..((s + 1) * hidden_size - 1)}
  BY DEF Through
<1> HIDE DEF s
<1> DEFINE J == 0..((s + 1) * hidden_size - 1)
<1>6. J \subseteq Int
  OBVIOUS
<1> HIDE DEF J
<1>7. CASE Len(e) = 1
  <2>1. \A j \in J : Cell(e, S, r - 1, j) = <<1, (r - 1) * Len(outputs[r]) + j>>
    BY <1>3, <1>7 DEF Cell
  <2> QED BY <1>4, <1>5, <1>7, <2>1 DEF J, s, e
<1>8. CASE Len(e) # 1
  <2>1. \A j \in J : Cell(e, S, r - 1, j) = <<r, 0 + j>>
    <3>1. (r - 1) + 1 = r /\ \A j \in J : 0 + j = j
      BY <1>3, <1>6
    <3> QED BY <1>8, <3>1 DEF Cell
  <2> QED BY <1>4, <1>5, <1>8, <2>1 DEF J, s, e
<1> QED BY <1>7, <1>8

\* for what is refused,
LEMMA ExactIfKept == PassInv => RefusalsAreExact
<1> SUFFICES ASSUME PassInv PROVE RefusalsAreExact
  OBVIOUS
<1>1. ASSUME stage = "done" PROVE Acceptable
  <2>1. layer > start_layer /\ layer - 1 = end_layer
    BY <1>1, EngineAssumption DEF PassInv
  <2>2. /\ Entries(entries) /\ Loadable(entries) /\ entries[1].dtype = "F32"
        /\ start_layer..end_layer \subseteq blocks
        /\ current.dims = Batched(entries) /\ Passed(current, entries)
    BY <1>1, <2>1 DEF PassInv
  <2>3. Len(current.dims) = 3 /\ current.dims[3] = hidden_size
    BY <2>2 DEF Passed, Shaped3
  <2>4. ShapeFits(entries)
    BY <2>2, <2>3, BatchFits
  <2>5. \A n \in DOMAIN entries : /\ entries[n].shape = entries[1].shape
                                 /\ entries[n].bytes \div 4 = Volume(entries[1].shape)
    BY <2>2 DEF Loadable, Readable, ElementSize
  <2> QED BY <2>2, <2>4, <2>5 DEF Acceptable, ShapeFits
<1>2. ASSUME stage = "error" PROVE ~Acceptable
  BY <1>2 DEF PassInv
<1> QED BY <1>1, <1>2 DEF RefusalsAreExact

\* and for which answers have the shape they are given.
LEMMA MatchIfKept ==
    ASSUME PassInv, Len(entries) = 1, stage = "done"
    PROVE  OutputShapeMatches <=> entries[1].shape[1] = 1
<1> DEFINE B == current.dims[1]
           S == current.dims[2]
           H == hidden_size
<1>1. IsAnswer(outputs, entries, B, S)
  BY AnswerIs
<1>2. Answer.data = outputs[1] /\ Answer.shape = entries[1].shape
  BY DEF Answer
<1> HIDE DEF B, S
<1>3. entries[1].shape = <<B, S, H>>
  BY <1>1 DEF IsAnswer, Batched
<1>4. B \in Nat \ {0} /\ S \in Nat \ {0} /\ H \in Nat \ {0}
  BY <1>1, Widths DEF IsAnswer
<1>5. Len(outputs[1]) = S * H
  <2>1. 1 \in 1..B
    BY <1>4
  <2> QED BY <1>1, <2>1 DEF IsAnswer
<1> HIDE DEF H
<1>6. Volume(<<B, S, H>>) = B * S * H
  BY <1>4, VolumeOfThree
<1>7. S * H = B * S * H <=> B = 1
  <2>1. S * H \in Nat \ {0}
    <3>1. 0 * H + H <= S * H /\ S * H \in Nat
      BY <1>4, 0 < S, 0 \in Nat, Multiples
    <3> QED BY <1>4, <3>1
  <2> DEFINE row == S * H
  <2>2. B * S * H = B * row
    BY <1>4
  <2> HIDE DEF row
  <2>3. row \in Nat \ {0}
    BY <2>1 DEF row
  <2>4. B # 1 => 1 * row + row <= B * row
    <3> SUFFICES ASSUME B # 1 PROVE 1 * row + row <= B * row
      OBVIOUS
    <3>1. 1 < B /\ 1 \in Nat
      BY <1>4
    <3> QED BY <1>4, <2>3, <3>1, Multiples
  <2>5. row = B * row <=> B = 1
    BY <1>4, <2>3, <2>4
  <2> QED BY <2>2, <2>5 DEF row
<1>8. entries[1].shape[1] = B
  BY <1>3
<1> QED BY <1>2, <1>3, <1>5, <1>6, <1>7, <1>8 DEF OutputShapeMatches

\* No pass, with layers and entries of any kind, leaves the engine in a state
\* out of its type: an element of the hidden state depends on bytes of the
\* entries, and there are outputs only after the last layer.
THEOREM EngineTypes == EngineSpec => []EngineTypeOK
<1>1. PassInv => EngineTypeOK
  BY DEF PassInv
<1> QED BY <1>1, PassIsKept, PTL

\* batched_process_terminal_pass gives each position of each row of the batch
\* what every position of that row up to it makes of it, and nothing else,
\* with any number of layers, heads and groups and any batch.
THEOREM TerminalPassIsCausal == EngineSpec => []OutputsAreCausal
BY PassIsKept, CausalIfKept, PTL

\* batched_process_terminal_pass fails for exactly the entries that its blocks
\* cannot run on, told from the entries alone, and for any number of layers.
THEOREM RefusalsExact == EngineSpec => []RefusalsAreExact
BY PassIsKept, ExactIfKept, PTL

\* handle_terminal_hop's "output shape matches the input" holds of an answer
\* if, and only if, the request is a batch of one sequence.
THEOREM ShapeMatchesForOne ==
    EngineSpec => [](Len(entries) = 1 /\ stage = "done" =>
                        (OutputShapeMatches <=> entries[1].shape[1] = 1))
<1>1. PassInv => (Len(entries) = 1 /\ stage = "done" =>
                    (OutputShapeMatches <=> entries[1].shape[1] = 1))
  BY MatchIfKept
<1> QED BY <1>1, PassIsKept, PTL

-----------------------------------------------------------------------------
(* Compute: both components *)

\* What is proved of each component alone holds of it beside the other.
THEOREM PartsBehaveAlone == ComputeSpec => Spec /\ EngineSpec
<1>1. ComputeInit => Init /\ EngineInit
  BY DEF ComputeInit
<1>2. [ComputeNext]_computeVars => [Next]_vars /\ [EngineNext]_engineVars
  BY DEF ComputeNext, UseMemory, UseEngine, computeVars
<1> QED BY <1>1, <1>2, PTL DEF ComputeSpec, Spec, EngineSpec
=============================================================================
