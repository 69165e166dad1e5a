-------------------------- MODULE HandleTable_proofs ---------------------------
(***************************************************************************)
(* For a table of any size and any number of generations: the free list    *)
(* is consistent, closed handles do not become valid before the generation *)
(* counter has wrapped, and the table implements a map.                    *)
(***************************************************************************)
EXTENDS HandleTable, FiniteSetTheorems, TLAPS

(***************************************************************************)
(* The inductive invariant.  The counter tells how many handles were       *)
(* created since an issued one, except for one wrap, which is what lets    *)
(* Create drop exactly the records whose generation it reuses.             *)
(***************************************************************************)
IssuedOK ==
    \A r \in issued :
        /\ r.handle \in [top : {0}, slot : Slots, gen : Generations]
        /\ \/ next_generation = r.handle.gen + r.age + 1
           \/ next_generation = r.handle.gen + r.age + 1 - (GenLimit - 1)

IInv == TableTypeOK /\ FreeListConsistent /\ IssuedOK /\ NoStaleHandle

\* There are finitely many empty slots.
LEMMA FreeSlotsFinite ==
    /\ IsFiniteSet(Slots) /\ Cardinality(Slots) = MAX_COUNT
    /\ IsFiniteSet(FreeSlots) /\ Cardinality(FreeSlots) \in Nat
<1>1. IsFiniteSet(Slots) /\ Cardinality(Slots) = MAX_COUNT
    BY FS_Interval, HandleAssumption DEF Slots
<1>2. FreeSlots \in SUBSET Slots
    BY DEF FreeSlots
<1>3. QED
    BY <1>1, <1>2, FS_Subset, FS_CardinalityType

\* A table whose slots are all empty and linked in order has a consistent free list.
LEMMA EmptyTableChain ==
    ASSUME generations = [i \in Slots |-> i + 1], objects = [i \in Slots |-> Null],
           next_free_slot = 0
    PROVE  FreeListConsistent
<1> DEFINE chain == [i \in 0..MAX_COUNT |-> i]
<1>1. FreeSlots = Slots /\ Cardinality(FreeSlots) = MAX_COUNT
    BY FreeSlotsFinite DEF FreeSlots
<1>2. chain \in [0..MAX_COUNT -> 0..MAX_COUNT] /\ chain[0] = 0 /\ chain[MAX_COUNT] = MAX_COUNT
    BY HandleAssumption
<1>3. \A i \in 0..(MAX_COUNT - 1) : i \in Slots /\ chain[i] = i /\ chain[i + 1] = i + 1
    BY HandleAssumption DEF Slots
<1> HIDE DEF chain
<1>4. Leads(chain, MAX_COUNT)
    BY <1>1, <1>2, <1>3 DEF Leads, Slots
<1>5. QED
    BY <1>1, <1>2, <1>4 DEF FreeListConsistent

\* Create takes the first slot of the free list.
LEMMA CreateChain ==
    ASSUME TableTypeOK, FreeListConsistent, NEW obj \in Objects, Create(obj)
    PROVE  FreeListConsistent'
<1> DEFINE slot == next_free_slot
<1>0. PICK n : n = Cardinality(FreeSlots)
    OBVIOUS
<1>1. PICK chain \in [0..n -> 0..MAX_COUNT] : Leads(chain, n)
    BY <1>0 DEF FreeListConsistent
<1>2. n \in Nat /\ n # 0 /\ slot \in FreeSlots
    BY <1>0, <1>1, FreeSlotsFinite, HandleAssumption DEF Leads, Create, HasFreeSlot, FreeSlots, Slots
<1>3. FreeSlots' = FreeSlots \ {slot}
    BY <1>2, HandleAssumption DEF FreeSlots, Create, TableTypeOK
<1>4. Cardinality(FreeSlots') = n - 1
    BY <1>0, <1>2, <1>3, FreeSlotsFinite, FS_RemoveElement
<1> DEFINE rest == [i \in 0..(n - 1) |-> chain[i + 1]]
<1>5. rest \in [0..(n - 1) -> 0..MAX_COUNT] /\ Leads(rest, n - 1)'
    <2>1. rest \in [0..(n - 1) -> 0..MAX_COUNT] /\ rest[n - 1] = MAX_COUNT
        BY <1>1, <1>2 DEF Leads
    <2>2. rest[0] = next_free_slot'
        BY <1>1, <1>2 DEF Leads, Create
    <2>3. ASSUME NEW i \in 0..((n - 1) - 1)
          PROVE  rest[i] \in FreeSlots' /\ generations'[rest[i]] = rest[i + 1]
        <3>1. rest[i] = chain[i + 1] /\ rest[i + 1] = chain[(i + 1) + 1] /\ i + 1 \in 0..(n - 1)
            BY <1>2
        <3>2. chain[i + 1] \in FreeSlots /\ chain[i + 1] # chain[0]
            BY <1>1, <1>2, <3>1 DEF Leads
        <3>3. generations'[chain[i + 1]] = generations[chain[i + 1]]
            BY <1>1, <3>2 DEF Leads, Create, TableTypeOK, FreeSlots
        <3>4. generations[chain[i + 1]] = chain[(i + 1) + 1]
            BY <1>1, <3>1 DEF Leads
        <3>5. QED
            BY <1>1, <1>3, <3>1, <3>2, <3>3, <3>4 DEF Leads
    <2>4. ASSUME NEW i \in 0..((n - 1) - 1), NEW j \in 0..((n - 1) - 1), rest[i] = rest[j]
          PROVE  i = j
        <3>1. i + 1 \in 0..(n - 1) /\ j + 1 \in 0..(n - 1) /\ chain[i + 1] = chain[j + 1]
            BY <1>2, <2>4
        <3>2. i + 1 = j + 1
            BY <1>1, <3>1 DEF Leads
        <3>3. QED
            BY <3>2
    <2>5. ASSUME NEW s \in FreeSlots' PROVE \E i \in 0..((n - 1) - 1) : rest[i] = s
        <3>1. PICK i \in 0..(n - 1) : chain[i] = s
            BY <1>1, <1>3 DEF Leads
        <3>2. i # 0
            BY <1>1, <1>3, <3>1 DEF Leads
        <3>3. i - 1 \in 0..((n - 1) - 1) /\ rest[i - 1] = s
            BY <1>2, <3>1, <3>2
        <3>4. QED
            BY <3>3
    <2>6. QED
        BY <2>1, <2>2, <2>3, <2>4, <2>5 DEF Leads
<1>6. QED
    BY <1>4, <1>5 DEF FreeListConsistent

\* Close puts its slot at the head of the free list.
LEMMA CloseChain ==
    ASSUME TableTypeOK, FreeListConsistent, NEW handle \in Handles, Close(handle)
    PROVE  FreeListConsistent'
<1>0. PICK n : n = Cardinality(FreeSlots)
    OBVIOUS
<1>1. PICK chain \in [0..n -> 0..MAX_COUNT] : Leads(chain, n)
    BY <1>0 DEF FreeListConsistent
<1>2. PICK slot \in Slots : slot = GetSlot(handle) /\ slot \notin FreeSlots
    BY HandleAssumption DEF Close, IsValid, GetSlot, Handles, Slots, FreeSlots
<1>3. FreeSlots' = FreeSlots \cup {slot}
    BY <1>2, HandleAssumption DEF FreeSlots, Close, TableTypeOK
<1>4. n \in Nat /\ Cardinality(FreeSlots') = n + 1
    BY <1>0, <1>2, <1>3, FreeSlotsFinite, FS_AddElement
<1> DEFINE longer == [i \in 0..(n + 1) |-> IF i = 0 THEN slot ELSE chain[i - 1]]
<1>5. longer \in [0..(n + 1) -> 0..MAX_COUNT] /\ Leads(longer, n + 1)'
    <2>1. longer \in [0..(n + 1) -> 0..MAX_COUNT] /\ longer[n + 1] = MAX_COUNT
        BY <1>1, <1>4, HandleAssumption DEF Leads, Slots
    <2>2. longer[0] = next_free_slot'
        BY <1>2, <1>4 DEF Close
    <2>3. ASSUME NEW i \in 0..((n + 1) - 1)
          PROVE  longer[i] \in FreeSlots' /\ generations'[longer[i]] = longer[i + 1]
        <3>1. CASE i = 0
            <4>1. longer[0] = slot /\ longer[0 + 1] = chain[0]
                BY <1>4
            <4>2. generations'[slot] = next_free_slot
                BY <1>2 DEF Close, TableTypeOK
            <4>3. QED
                BY <1>1, <1>3, <3>1, <4>1, <4>2 DEF Leads
        <3>2. CASE i # 0
            <4>1. i - 1 \in 0..(n - 1) /\ longer[i] = chain[i - 1] /\ longer[i + 1] = chain[(i - 1) + 1]
                BY <1>4, <3>2
            <4>2. chain[i - 1] \in FreeSlots /\ generations[chain[i - 1]] = chain[(i - 1) + 1]
                BY <1>1, <4>1 DEF Leads
            <4>3. generations'[chain[i - 1]] = generations[chain[i - 1]]
                BY <1>2, <4>2 DEF Close, TableTypeOK, FreeSlots
            <4>4. QED
                BY <1>3, <4>1, <4>2, <4>3
        <3>3. QED
            BY <3>1, <3>2
    <2>4. ASSUME NEW i \in 0..((n + 1) - 1), NEW j \in 0..((n + 1) - 1), longer[i] = longer[j]
          PROVE  i = j
        <3>1. \A k \in 0..((n + 1) - 1) :
                  k # 0 => k - 1 \in 0..(n - 1) /\ longer[k] = chain[k - 1] /\ longer[k] # slot
            BY <1>1, <1>2, <1>4 DEF Leads
        <3>2. longer[0] = slot
            BY <1>4
        <3>3. CASE i # 0 /\ j # 0
            <4>1. i - 1 = j - 1
                BY <1>1, <2>4, <3>1, <3>3 DEF Leads
            <4>2. QED
                BY <4>1
        <3>4. QED
            BY <2>4, <3>1, <3>2, <3>3
    <2>5. ASSUME NEW s \in FreeSlots' PROVE \E i \in 0..((n + 1) - 1) : longer[i] = s
        <3>1. CASE s = slot
            BY <1>4, <3>1
        <3>2. CASE s # slot
            <4>1. PICK i \in 0..(n - 1) : chain[i] = s
                BY <1>1, <1>3, <3>2 DEF Leads
            <4>2. i + 1 \in 0..((n + 1) - 1) /\ longer[i + 1] = s
                BY <1>4, <4>1
            <4>3. QED
                BY <4>2
        <3>3. QED
            BY <3>1, <3>2
    <2>6. QED
        BY <2>1, <2>2, <2>3, <2>4, <2>5 DEF Leads
<1>6. QED
    BY <1>4, <1>5 DEF FreeListConsistent

\* Create keeps the types, ages the records, and drops the one whose generation it reuses.
LEMMA CreateIInv ==
    ASSUME IInv, NEW obj \in Objects, Create(obj)
    PROVE  IInv'
<1> USE HandleAssumption
<1>1. next_free_slot \in Slots
    BY DEF IInv, TableTypeOK, Create, HasFreeSlot, Slots
<1>2. generations[next_free_slot] \in 0..MAX_COUNT
    <2>1. PICK chain \in [0..Cardinality(FreeSlots) -> 0..MAX_COUNT] :
              Leads(chain, Cardinality(FreeSlots))
        BY DEF IInv, FreeListConsistent
    <2>2. Cardinality(FreeSlots) # 0
        BY <1>1, <2>1 DEF Leads, Slots
    <2>3. QED
        BY <2>1, <2>2, FreeSlotsFinite DEF Leads
<1>3. /\ objects' \in [Slots -> Objects \cup {Null}] /\ next_free_slot' \in 0..MAX_COUNT
      /\ generations' \in [Slots -> 0..(MAX_COUNT + GenLimit)] /\ next_generation' \in Generations
    BY <1>1, <1>2 DEF IInv, TableTypeOK, Create, Bump, Generations
<1>4. ASSUME NEW r \in issued'
      PROVE  \/ r = [handle |-> Handle(next_free_slot, next_generation), age |-> 0, closed |-> FALSE]
             \/ \E s \in issued : /\ s.age + 1 < GenLimit - 1
                                 /\ r = [s EXCEPT !.age = s.age + 1]
    BY <1>4 DEF Create, Aged
<1>5. ASSUME NEW r \in issued'
      PROVE  /\ r \in [handle : Handles, age : 0..(GenLimit - 2), closed : BOOLEAN]
             /\ r.handle \in [top : {0}, slot : Slots, gen : Generations]
             /\ \/ next_generation' = r.handle.gen + r.age + 1
                \/ next_generation' = r.handle.gen + r.age + 1 - (GenLimit - 1)
             /\ r.closed => ~IsValid(r.handle)'
    <2>1. CASE r = [handle |-> Handle(next_free_slot, next_generation), age |-> 0, closed |-> FALSE]
        BY <1>1, <2>1 DEF IInv, TableTypeOK, Handle, Handles, Slots, Generations, Create, Bump
    <2>2. ASSUME NEW s \in issued, s.age + 1 < GenLimit - 1, r = [s EXCEPT !.age = s.age + 1]
          PROVE  /\ r \in [handle : Handles, age : 0..(GenLimit - 2), closed : BOOLEAN]
                 /\ r.handle \in [top : {0}, slot : Slots, gen : Generations]
                 /\ \/ next_generation' = r.handle.gen + r.age + 1
                    \/ next_generation' = r.handle.gen + r.age + 1 - (GenLimit - 1)
                 /\ r.closed => ~IsValid(r.handle)'
        <3>1. s \in [handle : Handles, age : 0..(GenLimit - 2), closed : BOOLEAN]
            BY DEF IInv, TableTypeOK
        <3>2. r.handle = s.handle /\ r.age = s.age + 1 /\ r.closed = s.closed
            BY <2>2, <3>1
        <3>3. s.handle \in [top : {0}, slot : Slots, gen : Generations]
            BY DEF IInv, IssuedOK
        <3>4. \/ next_generation = s.handle.gen + s.age + 1
              \/ next_generation = s.handle.gen + s.age + 1 - (GenLimit - 1)
            BY DEF IInv, IssuedOK
        <3>5. s.handle.gen \in 1..(GenLimit - 1) /\ s.age \in 0..(GenLimit - 2)
              /\ next_generation \in 1..(GenLimit - 1)
            BY <3>1, <3>3 DEF IInv, TableTypeOK, Generations
        <3>6. next_generation' = IF next_generation + 1 >= GenLimit THEN 1 ELSE next_generation + 1
            BY DEF Create, Bump
        <3>7. \/ next_generation' = s.handle.gen + (s.age + 1) + 1
              \/ next_generation' = s.handle.gen + (s.age + 1) + 1 - (GenLimit - 1)
            BY <2>2, <3>4, <3>5, <3>6
        <3>8. s.handle.gen # next_generation
            BY <2>2, <3>4, <3>5
        <3>9. s.closed => ~IsValid(s.handle)'
            BY <1>1, <3>1, <3>3, <3>8
               DEF IInv, NoStaleHandle, IsValid, GetSlot, GetGeneration, Create, TableTypeOK, Handles
        <3>10. r \in [handle : Handles, age : 0..(GenLimit - 2), closed : BOOLEAN]
            BY <2>2, <3>1
        <3>11. QED
            BY <3>2, <3>3, <3>7, <3>9, <3>10 DEF IsValid
    <2>3. QED
        BY <1>4, <2>1, <2>2
<1>6. TableTypeOK'
    BY <1>3, <1>5 DEF TableTypeOK
<1>7. IssuedOK' /\ NoStaleHandle'
    BY <1>5 DEF IssuedOK, NoStaleHandle
<1>8. FreeListConsistent'
    BY CreateChain DEF IInv
<1>9. QED
    BY <1>6, <1>7, <1>8 DEF IInv

\* Close keeps it: the record it closes belongs to the slot it empties.
LEMMA CloseIInv ==
    ASSUME IInv, NEW handle \in Handles, Close(handle)
    PROVE  IInv'
<1> USE HandleAssumption
<1>1. PICK slot \in Slots : slot = GetSlot(handle)
    BY DEF Close, IsValid, GetSlot, Handles, Slots
<1>2. /\ objects' \in [Slots -> Objects \cup {Null}] /\ next_free_slot' \in 0..MAX_COUNT
      /\ generations' \in [Slots -> 0..(MAX_COUNT + GenLimit)] /\ next_generation' = next_generation
    BY <1>1 DEF IInv, TableTypeOK, Close, Slots
<1>3. ASSUME NEW r \in issued'
      PROVE  /\ r \in [handle : Handles, age : 0..(GenLimit - 2), closed : BOOLEAN]
             /\ r.handle \in [top : {0}, slot : Slots, gen : Generations]
             /\ \/ next_generation' = r.handle.gen + r.age + 1
                \/ next_generation' = r.handle.gen + r.age + 1 - (GenLimit - 1)
             /\ r.closed => ~IsValid(r.handle)'
    <2>1. PICK s \in issued : r = [s EXCEPT !.closed = s.closed \/ s.handle = Handle(slot, handle.gen)]
        BY <1>1, <1>3 DEF Close
    <2>2. s \in [handle : Handles, age : 0..(GenLimit - 2), closed : BOOLEAN]
        BY DEF IInv, TableTypeOK
    <2>3. /\ r.handle = s.handle /\ r.age = s.age
          /\ r.closed = (s.closed \/ s.handle = Handle(slot, handle.gen))
        BY <2>1, <2>2
    <2>4. r \in [handle : Handles, age : 0..(GenLimit - 2), closed : BOOLEAN]
        BY <2>1, <2>2
    <2>5. /\ s.handle \in [top : {0}, slot : Slots, gen : Generations]
          /\ \/ next_generation = s.handle.gen + s.age + 1
             \/ next_generation = s.handle.gen + s.age + 1 - (GenLimit - 1)
        BY DEF IInv, IssuedOK
    <2>6. CASE s.handle.slot = slot
        <3>1. objects'[slot] = Null
            BY <1>1 DEF IInv, TableTypeOK, Close
        <3>2. ~IsValid(r.handle)'
            BY <2>3, <2>6, <3>1 DEF IsValid, GetSlot
        <3>3. QED
            BY <1>2, <2>3, <2>4, <2>5, <3>2
    <2>7. CASE s.handle.slot # slot
        <3>1. s.handle # Handle(slot, handle.gen)
            BY <2>7 DEF Handle
        <3>2. r.closed = s.closed
            BY <2>2, <2>3, <3>1
        <3>3. IsValid(s.handle)' <=> IsValid(s.handle)
            BY <1>1, <2>5, <2>7 DEF IInv, TableTypeOK, IsValid, GetSlot, GetGeneration, Close
        <3>4. s.closed => ~IsValid(s.handle)
            BY DEF IInv, NoStaleHandle
        <3>5. IsValid(r.handle)' <=> IsValid(s.handle)'
            BY <2>3 DEF IsValid
        <3>6. QED
            BY <1>2, <2>3, <2>4, <2>5, <3>2, <3>3, <3>4, <3>5
    <2>8. QED
        BY <2>6, <2>7
<1>4. TableTypeOK'
    BY <1>2, <1>3 DEF IInv, TableTypeOK
<1>5. IssuedOK' /\ NoStaleHandle'
    BY <1>3 DEF IssuedOK, NoStaleHandle
<1>6. FreeListConsistent'
    BY CloseChain DEF IInv
<1>7. QED
    BY <1>4, <1>5, <1>6 DEF IInv

\* Clear empties every slot.
LEMMA ClearIInv == IInv /\ Clear => IInv'
<1> USE HandleAssumption
<1> SUFFICES ASSUME IInv, Clear PROVE IInv'
    OBVIOUS
<1>1. /\ objects' \in [Slots -> Objects \cup {Null}] /\ next_free_slot' \in 0..MAX_COUNT
      /\ generations' \in [Slots -> 0..(MAX_COUNT + GenLimit)] /\ next_generation' = next_generation
    BY DEF Clear, Slots
<1>2. \A s \in Slots : objects'[s] = Null
    BY DEF Clear
<1>3. ASSUME NEW r \in issued'
      PROVE  /\ r \in [handle : Handles, age : 0..(GenLimit - 2), closed : BOOLEAN]
             /\ r.handle \in [top : {0}, slot : Slots, gen : Generations]
             /\ \/ next_generation' = r.handle.gen + r.age + 1
                \/ next_generation' = r.handle.gen + r.age + 1 - (GenLimit - 1)
             /\ ~IsValid(r.handle)'
    <2>1. PICK s \in issued : r = [s EXCEPT !.closed = TRUE]
        BY <1>3 DEF Clear
    <2>2. s \in [handle : Handles, age : 0..(GenLimit - 2), closed : BOOLEAN]
        BY DEF IInv, TableTypeOK
    <2>3. r \in [handle : Handles, age : 0..(GenLimit - 2), closed : BOOLEAN]
          /\ r.handle = s.handle /\ r.age = s.age
        BY <2>1, <2>2
    <2>4. /\ s.handle \in [top : {0}, slot : Slots, gen : Generations]
          /\ \/ next_generation = s.handle.gen + s.age + 1
             \/ next_generation = s.handle.gen + s.age + 1 - (GenLimit - 1)
        BY DEF IInv, IssuedOK
    <2>5. ~IsValid(r.handle)'
        BY <1>2, <2>3, <2>4 DEF IsValid, GetSlot
    <2>6. QED
        BY <1>1, <2>3, <2>4, <2>5
<1>4. TableTypeOK'
    BY <1>1, <1>3 DEF IInv, TableTypeOK
<1>5. IssuedOK' /\ NoStaleHandle'
    BY <1>3 DEF IssuedOK, NoStaleHandle
<1>6. FreeListConsistent'
    <2>1. FreeSlots' = Slots
        BY <1>2 DEF FreeSlots
    <2> DEFINE chain == [i \in 0..MAX_COUNT |-> i]
    <2>2. chain \in [0..MAX_COUNT -> 0..MAX_COUNT] /\ chain[0] = 0 /\ chain[MAX_COUNT] = MAX_COUNT
        OBVIOUS
    <2>3. \A i \in 0..(MAX_COUNT - 1) : i \in Slots /\ chain[i] = i /\ chain[i + 1] = i + 1
        BY DEF Slots
    <2> HIDE DEF chain
    <2>4. Leads(chain, MAX_COUNT)'
        BY <2>1, <2>2, <2>3 DEF Leads, Slots, Clear
    <2>5. QED
        BY <2>1, <2>2, <2>4, FreeSlotsFinite DEF FreeListConsistent
<1>7. QED
    BY <1>4, <1>5, <1>6 DEF IInv

\* A new table satisfies the invariant.
LEMMA InitIInv == TableInit => IInv
<1> SUFFICES ASSUME TableInit PROVE IInv
    OBVIOUS
<1>1. TableTypeOK /\ IssuedOK /\ NoStaleHandle
    BY HandleAssumption DEF TableInit, TableTypeOK, IssuedOK, NoStaleHandle, Slots, Generations
<1>2. QED
    BY <1>1, EmptyTableChain DEF TableInit, IInv

\* Every operation keeps it.
LEMMA NextIInv == IInv /\ [TableNext]_tableVars => IInv'
<1> SUFFICES ASSUME IInv, [TableNext]_tableVars PROVE IInv'
    OBVIOUS
<1>1. ASSUME NEW handle \in Handles, Duplicate(handle) PROVE IInv'
    <2>1. GetGeneric(handle) \in Objects
        BY <1>1, HandleAssumption
           DEF Duplicate, IsValid, GetGeneric, GetSlot, IInv, TableTypeOK, Slots, Handles
    <2>2. QED
        BY <1>1, <2>1, CreateIInv DEF Duplicate
<1>2. CASE UNCHANGED tableVars
    <2>1. TableTypeOK' /\ IssuedOK'
        BY <1>2 DEF IInv, TableTypeOK, IssuedOK, tableVars
    <2>2. NoStaleHandle'
        BY <1>2 DEF IInv, NoStaleHandle, IsValid, tableVars
    <2>3. PICK n : n = Cardinality(FreeSlots)
        OBVIOUS
    <2>4. FreeSlots' = FreeSlots
        BY <1>2 DEF FreeSlots, tableVars
    <2>5. \A chain : Leads(chain, n) => Leads(chain, n)'
        BY <1>2, <2>4 DEF Leads, tableVars
    <2>6. FreeListConsistent'
        BY <2>3, <2>4, <2>5, Zenon DEF IInv, FreeListConsistent
    <2>7. QED
        BY <2>1, <2>2, <2>6 DEF IInv
<1>3. QED
    BY <1>1, <1>2, CreateIInv, CloseIInv, ClearIInv DEF TableNext

\* The free list is consistent in every reachable state of the table.
THEOREM FreeListAlwaysConsistent == TableSpec => []FreeListConsistent
<1>1. IInv => FreeListConsistent
    BY DEF IInv
<1>2. QED
    BY <1>1, InitIInv, NextIInv, PTL DEF TableSpec

\* A closed handle stays invalid until the generations have wrapped around.
THEOREM ClosedHandlesStayInvalid == TableSpec => []NoStaleHandle
<1>1. IInv => NoStaleHandle
    BY DEF IInv
<1>2. QED
    BY <1>1, InitIInv, NextIInv, PTL DEF TableSpec

(***************************************************************************)
(* Refinement: the valid handles with bit 31 clear are the domain of the   *)
(* abstract map.                                                           *)
(***************************************************************************)
Valid == {k \in Handles : k.top = 0 /\ IsValid(k)}

\* A handle is its three fields.
LEMMA HandleFields ==
    ASSUME NEW k \in Handles, k.top = 0 PROVE k = Handle(k.slot, k.gen)
BY DEF Handles, Handle

\* Slots beyond the table have no valid handle.
LEMMA OpenIsValid == Open = Valid
BY HandleAssumption DEF Open, Valid, IsValid, GetSlot, Handles, Slots

\* Also after a step.
LEMMA OpenStaysValid == (Open = Valid)'
BY OpenIsValid, PTL

\* While a slot is free there are fewer than MAX_COUNT open handles: each has its own slot.
LEMMA OpenBelowCapacity ==
    ASSUME IInv, next_free_slot < MAX_COUNT, objects[next_free_slot] = Null
    PROVE  Cardinality(Valid) < MAX_COUNT
<1> USE HandleAssumption
<1> DEFINE f == [h \in Valid |-> h.slot]
           T == Slots \ {next_free_slot}
<1>1. next_free_slot \in Slots
    BY DEF IInv, TableTypeOK, Slots
<1>2. IsFiniteSet(T) /\ Cardinality(T) = MAX_COUNT - 1
    BY <1>1, FreeSlotsFinite, FS_RemoveElement
<1>3. \A h \in Valid : h.slot \in T /\ h.gen = generations[h.slot]
    BY DEF Valid, IsValid, GetSlot, GetGeneration, Handles, Slots
<1>4. \A h, k \in Valid : h.slot = k.slot => h = k
    BY <1>3, HandleFields DEF Valid
<1>5. f \in Injection(Valid, T)
    BY <1>3, <1>4 DEF Injection, IsInjective
<1>6. IsFiniteSet(Valid) /\ Cardinality(Valid) <= Cardinality(T)
    BY <1>2, <1>5, FS_Injection
<1>7. QED
    BY <1>2, <1>6, FS_CardinalityType

\* Create adds one handle that was not open.
LEMMA CreateOpens ==
    ASSUME IInv, NEW obj \in Objects, Create(obj)
    PROVE  \E h \in Handles : HM!Create(h, obj)
<1> USE HandleAssumption
<1>0. PICK slot, h : slot = next_free_slot /\ h = Handle(next_free_slot, next_generation)
    OBVIOUS
<1>1. slot \in Slots /\ slot < MAX_COUNT /\ objects[slot] = Null
    <2>0. PICK n : n = Cardinality(FreeSlots)
        OBVIOUS
    <2>1. PICK chain \in [0..n -> 0..MAX_COUNT] : Leads(chain, n)
        BY <2>0 DEF IInv, FreeListConsistent
    <2>2. n \in Nat
        BY <2>0, FreeSlotsFinite
    <2>3. n # 0
        BY <2>1 DEF Leads, Create, HasFreeSlot
    <2>4. QED
        BY <1>0, <2>1, <2>2, <2>3 DEF Leads, FreeSlots, Create, HasFreeSlot
<1>2. h \in Handles /\ h.top = 0 /\ h.slot = slot /\ h.gen = next_generation
    BY <1>0, <1>1 DEF Handle, Handles, IInv, TableTypeOK, Generations, Slots
<1>3. h \notin Valid
    BY <1>1, <1>2 DEF Valid, IsValid, GetSlot
<1>4. objects'[slot] = obj /\ generations'[slot] = next_generation /\ obj # Null
    BY <1>0, <1>1 DEF Create, IInv, TableTypeOK
<1>5. \A k \in Handles : k.slot # slot =>
          /\ IsValid(k)' <=> IsValid(k)
          /\ GetGeneric(k)' = GetGeneric(k)
    BY <1>0, <1>1 DEF Create, IInv, TableTypeOK, IsValid, GetGeneric, GetSlot, GetGeneration, Handles, Slots
<1>6. \A k \in Handles : k.slot = slot /\ k.top = 0 => (IsValid(k)' <=> k = h)
    BY <1>0, <1>1, <1>2, <1>4, HandleFields DEF IsValid, GetSlot, GetGeneration
<1>7. GetGeneric(h)' = obj
    BY <1>2, <1>4, <1>6 DEF GetGeneric, GetSlot
<1>8. \A k \in Valid : k.slot # slot
    BY <1>1 DEF Valid, IsValid, GetSlot
<1>9. Valid' = Valid \cup {h}
    BY <1>2, <1>5, <1>6, <1>8, Zenon DEF Valid
<1>10. [k \in Valid |-> GetGeneric(k)]' = [k \in Valid \cup {h} |->
           IF k = h THEN obj ELSE [j \in Valid |-> GetGeneric(j)][k]]
    <2>1. \A k \in Valid \cup {h} :
             GetGeneric(k)' = IF k = h THEN obj ELSE [j \in Valid |-> GetGeneric(j)][k]
        <3>1. \A k \in Valid : k \in Handles /\ k # h
            BY <1>3 DEF Valid
        <3>2. \A k \in Valid : GetGeneric(k)' = GetGeneric(k)
            BY <1>5, <1>8, <3>1
        <3>3. QED
            BY <1>7, <3>1, <3>2
    <2>2. QED
        BY <1>9, <2>1, Zenon
<1>11. Cardinality(Valid) < MAX_COUNT
    BY <1>0, <1>1, OpenBelowCapacity
<1>12. QED
    BY <1>2, <1>3, <1>10, <1>11, OpenIsValid, OpenStaysValid, Zenon
       DEF HM!Create, HM!Cardinality, Cardinality

\* Close removes the handle, with bit 31 cleared, and no other.
LEMMA CloseCloses ==
    ASSUME IInv, NEW handle \in Handles, Close(handle)
    PROVE  \E h \in Handles : HM!Close(h)
<1> USE HandleAssumption
<1>0. PICK slot, h : slot = handle.slot /\ h = Handle(handle.slot, handle.gen)
    OBVIOUS
<1>1. slot \in Slots /\ slot < MAX_COUNT /\ objects'[slot] = Null
    BY <1>0 DEF Close, IsValid, GetSlot, Handles, Slots, IInv, TableTypeOK
<1>2. h \in Handles /\ h.top = 0 /\ h.slot = slot /\ h.gen = handle.gen
    BY <1>0 DEF Handle, Handles
<1>3. h \in Valid
    BY <1>0, <1>2 DEF Valid, Close, IsValid, GetSlot, GetGeneration
<1>4. \A k \in Handles : k.slot # slot =>
          /\ IsValid(k)' <=> IsValid(k)
          /\ GetGeneric(k)' = GetGeneric(k)
    BY <1>0, <1>1
       DEF Close, IInv, TableTypeOK, IsValid, GetGeneric, GetSlot, GetGeneration, Handles, Slots
<1>5. \A k \in Handles : k.slot = slot => ~IsValid(k)'
    BY <1>1 DEF IsValid, GetSlot
<1>6. \A k \in Valid : k.slot = slot => k = h
    <2> SUFFICES ASSUME NEW k \in Valid, k.slot = slot PROVE k = h
        OBVIOUS
    <2>1. k \in Handles /\ k.top = 0 /\ k.gen = generations[slot] /\ handle.gen = generations[slot]
        BY <1>0 DEF Valid, Close, IsValid, GetSlot, GetGeneration
    <2>2. QED
        BY <1>0, <2>1, HandleFields
<1>7. Valid' = Valid \ {h}
    BY <1>2, <1>4, <1>5, <1>6, Zenon DEF Valid
<1>8. [k \in Valid |-> GetGeneric(k)]' = [k \in Valid \ {h} |-> [j \in Valid |-> GetGeneric(j)][k]]
    <2>1. \A k \in Valid \ {h} : GetGeneric(k)' = [j \in Valid |-> GetGeneric(j)][k]
        <3>1. \A k \in Valid \ {h} : k \in Handles /\ k.slot # slot
            BY <1>6 DEF Valid
        <3>2. QED
            BY <1>4, <3>1
    <2>2. QED
        BY <1>7, <2>1, Zenon
<1>9. QED
    BY <1>2, <1>3, <1>8, OpenIsValid, OpenStaysValid, Zenon DEF HM!Close, HM!Without

\* A table without objects is the empty map.
LEMMA EmptyIsEmpty ==
    ASSUME objects = [i \in Slots |-> Null]
    PROVE  Open = {}
BY DEF Open, IsValid, GetSlot

\* The table implements the abstract map from handles to objects.
THEOREM TableImplementsMap == TableSpec => ImplementsHandleMap
<1>1. TableInit => HM!Init
    <2> SUFFICES ASSUME TableInit PROVE HM!Init
        OBVIOUS
    <2>1. Open = {}
        BY EmptyIsEmpty DEF TableInit
    <2>2. QED
        BY <2>1, Zenon DEF HM!Init
<1>2. IInv /\ [TableNext]_tableVars => [HM!Next]_[h \in Open |-> GetGeneric(h)]
    <2> SUFFICES ASSUME IInv, [TableNext]_tableVars
                 PROVE  [HM!Next]_[h \in Open |-> GetGeneric(h)]
        OBVIOUS
    <2>1. ASSUME NEW obj \in Objects, Create(obj) PROVE HM!Next
        BY <2>1, CreateOpens, Zenon DEF HM!Next
    <2>2. ASSUME NEW handle \in Handles, Close(handle) PROVE HM!Next
        BY <2>2, CloseCloses, Zenon DEF HM!Next
    <2>3. ASSUME NEW handle \in Handles, Duplicate(handle) PROVE HM!Next
        <3>1. GetGeneric(handle) \in Objects
            BY <2>3, HandleAssumption
               DEF Duplicate, IsValid, GetGeneric, GetSlot, IInv, TableTypeOK, Slots, Handles
        <3>2. PICK obj \in Objects : obj = GetGeneric(handle)
            BY <3>1
        <3>3. QED
            BY <2>1, <2>3, <3>2, Zenon DEF Duplicate
    <2>4. CASE Clear
        <3>1. Open' = {}
            BY <2>4 DEF Clear, Open, IsValid, GetSlot
        <3>2. HM!Clear
            BY <3>1, Zenon DEF HM!Clear
        <3>3. QED
            BY <3>2, Zenon DEF HM!Next
    <2>5. CASE UNCHANGED tableVars
        BY <2>5 DEF tableVars, IsValid, GetGeneric, Open
    <2>6. QED
        BY <2>1, <2>2, <2>3, <2>4, <2>5, Zenon DEF TableNext
<1>3. QED
    BY <1>1, <1>2, InitIInv, NextIInv, PTL DEF TableSpec, ImplementsHandleMap, HM!Spec
=============================================================================
