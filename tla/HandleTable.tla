------------------------------ MODULE HandleTable ------------------------------
(***************************************************************************)
(* Kernel::HandleTable: the handles of one process.  A handle is a 32-bit  *)
(* word with two fields, a slot and the generation of the slot; the free   *)
(* slots are linked through the generations of the empty ones.             *)
(***************************************************************************)
EXTENDS Naturals, FiniteSets

CONSTANTS
    MAX_COUNT,      \* slots of the table (4096)
    GenLimit,       \* 1 << 15: generations are 1 .. GenLimit - 1
    SlotLimit,      \* 1 << 16: what the u16 of GetSlot can hold
    Objects,        \* kernel objects
    Null            \* no object

ASSUME HandleAssumption ==
    /\ MAX_COUNT \in Nat \ {0} /\ SlotLimit \in Nat /\ MAX_COUNT <= SlotLimit
    /\ GenLimit \in Nat /\ GenLimit > 2
    /\ Null \notin Objects

VARIABLES
    objects,            \* the object of each slot
    generations,        \* the generation of a used slot, the next free slot of a free one
    next_generation,
    next_free_slot,
    issued              \* history: the handles Create returned lately, with the number of
                        \* handles created since, and whether each has been closed

tableVars == <<objects, generations, next_generation, next_free_slot, issued>>

Slots == 0..(MAX_COUNT - 1)
Generations == 1..(GenLimit - 1)

\* The fields of a u32: bit 31, bits 30..15, bits 14..0.
Handles == [top : 0..1, slot : 0..(SlotLimit - 1), gen : 0..(GenLimit - 1)]

\* generation | (slot << 15); a slot is below 4096, so that bit 31 is 0.
Handle(slot, generation) == [top |-> 0, slot |-> slot, gen |-> generation]

\* handle >> 15 has 17 bits and becomes a u16: bit 31 of the handle is lost.
GetSlot(handle) == handle.slot

GetGeneration(handle) == handle.gen

\* Mutant of IsValid.
IsValid_AnyGeneration(handle) == GetSlot(handle) < MAX_COUNT /\ objects[GetSlot(handle)] # Null

IsValid(handle) ==
    /\ GetSlot(handle) < MAX_COUNT
    /\ objects[GetSlot(handle)] # Null
    /\ generations[GetSlot(handle)] = GetGeneration(handle)

GetGeneric(handle) == IF IsValid(handle) THEN objects[GetSlot(handle)] ELSE Null

HasFreeSlot == next_free_slot < MAX_COUNT

\* Mutant of Bump.
Bump_Never(generation) == generation

\* next_generation++, and 1 again when it no longer fits 15 bits.
Bump(generation) == IF generation + 1 >= GenLimit THEN 1 ELSE generation + 1

Aged == {[r EXCEPT !.age = @ + 1] : r \in {s \in issued : s.age + 1 < GenLimit - 1}}

\* HandleTable::Create with a free slot; without one it returns an error.
Create(obj) ==
    LET slot == next_free_slot
        generation == next_generation
    IN  /\ HasFreeSlot
        /\ next_free_slot' = generations[slot]
        /\ next_generation' = Bump(generation)
        /\ generations' = [generations EXCEPT ![slot] = generation]
        /\ objects' = [objects EXCEPT ![slot] = obj]
        /\ issued' = Aged \cup
               {[handle |-> Handle(slot, generation), age |-> 0, closed |-> FALSE]}

\* Mutant of Close.
Close_NoLink(handle) ==
    LET slot == GetSlot(handle)
    IN  /\ IsValid(handle)
        /\ objects' = [objects EXCEPT ![slot] = Null]
        /\ next_free_slot' = slot
        /\ issued' = {[r EXCEPT !.closed = @ \/ r.handle = Handle(slot, handle.gen)] : r \in issued}
        /\ UNCHANGED <<next_generation, generations>>

\* HandleTable::Close with a valid handle; another one is an error.
Close(handle) ==
    LET slot == GetSlot(handle)
    IN  /\ IsValid(handle)
        /\ objects' = [objects EXCEPT ![slot] = Null]
        /\ generations' = [generations EXCEPT ![slot] = next_free_slot]
        /\ next_free_slot' = slot
        /\ issued' = {[r EXCEPT !.closed = @ \/ r.handle = Handle(slot, handle.gen)] : r \in issued}
        /\ UNCHANGED next_generation

\* HandleTable::Duplicate with a valid handle.
Duplicate(handle) == IsValid(handle) /\ Create(GetGeneric(handle))

\* HandleTable::Clear: every slot is free again, in order.
Clear ==
    /\ generations' = [i \in Slots |-> i + 1]
    /\ objects' = [i \in Slots |-> Null]
    /\ next_free_slot' = 0
    /\ issued' = {[r EXCEPT !.closed = TRUE] : r \in issued}
    /\ UNCHANGED next_generation

TableInit ==
    /\ generations = [i \in Slots |-> i + 1]
    /\ objects = [i \in Slots |-> Null]
    /\ next_free_slot = 0
    /\ next_generation = 1
    /\ issued = {}

TableNext ==
    \/ \E obj \in Objects : Create(obj)
    \/ \E handle \in Handles : Close(handle) \/ Duplicate(handle)
    \/ Clear

TableSpec == TableInit /\ [][TableNext]_tableVars

--------------------------------------------------------------------------------
FreeSlots == {s \in Slots : objects[s] = Null}

\* The table's fields have their types: a generation fits its 15 bits and is never 0.
TableTypeOK ==
    /\ objects \in [Slots -> Objects \cup {Null}]
    /\ generations \in [Slots -> 0..(MAX_COUNT + GenLimit)]
    /\ next_generation \in Generations
    /\ next_free_slot \in 0..MAX_COUNT
    /\ issued \subseteq [handle : Handles, age : 0..(GenLimit - 2), closed : BOOLEAN]

\* The n slots of chain, from next_free_slot to the end of the table, are the empty ones.
Leads(chain, n) ==
    /\ chain[0] = next_free_slot /\ chain[n] = MAX_COUNT
    /\ \A i \in 0..(n - 1) : chain[i] \in FreeSlots /\ generations[chain[i]] = chain[i + 1]
    /\ \A i, j \in 0..(n - 1) : chain[i] = chain[j] => i = j
    /\ \A s \in FreeSlots : \E i \in 0..(n - 1) : chain[i] = s

\* From next_free_slot, the generations of the empty slots lead through each of them
\* exactly once and then out of the table: Create never hands out a slot in use, reports
\* OutOfHandles only when all slots are in use, and Close never cuts off or closes a
\* loop in the list.
FreeListConsistent ==
    \E chain \in [0..Cardinality(FreeSlots) -> 0..MAX_COUNT] : Leads(chain, Cardinality(FreeSlots))

\* "To prevent accidental use of a freed Handle whose slot has already been reused"
\* (handle_table.h:30): a handle that was closed is not valid again, however its slot is
\* reused, as long as fewer than GenLimit - 1 handles were created after it was.
NoStaleHandle == \A r \in issued : r.closed => ~IsValid(r.handle)

\* The valid handles with bit 31 clear.
Open == {k \in [top : {0}, slot : Slots, gen : 0..(GenLimit - 1)] : IsValid(k)}
HM == INSTANCE HandleMap WITH map <- [h \in Open |-> GetGeneric(h)]

\* The table is a map from handles to objects that loses, confuses and duplicates none.
ImplementsHandleMap == HM!Spec
=============================================================================
