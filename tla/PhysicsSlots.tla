----------------------------- MODULE PhysicsSlots ------------------------------
(***************************************************************************)
(* The slots of lib/grim/phx/avbd.h: physics components live in an array,  *)
(* their holders keep handles of a slot and its generation, and deleted    *)
(* slots are listed through a word of their own, which a live component    *)
(* uses for its mass.                                                      *)
(***************************************************************************)
EXTENDS Integers, Sequences, SequencesExt

CONSTANTS
  Slots,        \* MAX_PHYSICS_COMPONENTS
  Masses,       \* bit patterns of the masses written
  Generations,  \* 2^32, the values of a generation, which wraps
  MaxHeld       \* bound: handles held at a time

VARIABLES
  generation,   \* [slot -> components[slot].generation]
  next_empty,   \* [slot -> components[slot].next_empty, or the bits of .mass]
  components_count,
  first_free,   \* first_free_component_slot_idx
  held,         \* handles given out and not deleted by their holder
  deleted,      \* handles deleted
  wrapped       \* history: slots whose generation has come round to 0

state == <<generation, next_empty, components_count, first_free>>
physicsVars == <<state, held, deleted, wrapped>>

Idx == 0 .. Slots - 1
Handle == [idx : Idx, generation : Nat]

\* physics_state_create; the arena's memory is zero.
Init ==
  /\ generation = [s \in Idx |-> 0] /\ next_empty = [s \in Idx |-> 0]
  /\ components_count = 0 /\ first_free = 0
  /\ held = <<>> /\ deleted = {} /\ wrapped = {}

\* A component takes the first free slot; when that is the slot past all those used
\* so far the count grows, after it was read for the new first free slot.  A link
\* that is really a mass may lead past the array: the state ends there.
physics_component_create ==
  /\ first_free \in Idx /\ Len(held) < MaxHeld
  /\ LET filled == first_free = components_count IN
       /\ first_free' = IF filled THEN components_count ELSE next_empty[first_free]
       /\ components_count' = components_count + (IF filled THEN 1 ELSE 0)
  /\ next_empty' = [next_empty EXCEPT ![first_free] = 0]
  /\ held' = Append(held, [idx |-> first_free, generation |-> generation[first_free]])
  /\ UNCHANGED <<generation, deleted, wrapped>>

Valid(handle) == generation[handle.idx] = handle.generation

\* A handle that is out of date changes nothing.  The generation is a u32.
physics_component_delete(handle) ==
  /\ next_empty' = [next_empty EXCEPT ![handle.idx] = IF Valid(handle) THEN first_free ELSE @]
  /\ first_free' = IF Valid(handle) THEN handle.idx ELSE first_free
  /\ generation' = [generation EXCEPT ![handle.idx] = IF Valid(handle) THEN (@ + 1) % Generations ELSE @]
  /\ wrapped' = wrapped \cup {s \in Idx : generation'[s] < generation[s]}
  /\ UNCHANGED components_count

\* A holder deletes its component, or again one that was deleted before.
DeleteHeld ==
  \E k \in DOMAIN held :
    /\ physics_component_delete(held[k])
    /\ deleted' = deleted \cup {held[k]}
    /\ held' = RemoveAt(held, k)

DeleteAgain ==
  /\ \E handle \in deleted : physics_component_delete(handle)
  /\ UNCHANGED <<held, deleted>>

\* physics_component_get, and a mass written through the pointer it returns.
SetMass ==
  /\ \E k \in DOMAIN held, mass \in Masses :
       Valid(held[k]) /\ next_empty' = [next_empty EXCEPT ![held[k].idx] = mass]
  /\ UNCHANGED <<generation, components_count, first_free, held, deleted, wrapped>>

Next == physics_component_create \/ DeleteHeld \/ DeleteAgain \/ SetMass

Spec == Init /\ [][Next]_physicsVars

-------------------------------------------------------------------------------
(* Properties. *)

\* Once a handle was deleted it is refused, whatever its slot is used for since and
\* however many holders had it, until the slot's generation has come round.
DeletedIsRefused == \A handle \in deleted : handle.idx \in wrapped \/ ~Valid(handle)

\* "when a component slot is empty, ... idx points to the next empty entity": the slot
\* the next component will take is not in use, so that no two components are one.
NextSlotIsEmpty ==
  first_free \in Idx /\ \A k \in DOMAIN held : Valid(held[k]) => held[k].idx # first_free
===============================================================================
