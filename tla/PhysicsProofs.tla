----------------------------- MODULE PhysicsProofs -----------------------------
(***************************************************************************)
(* A proof about the slots of physics components: a deleted handle stays   *)
(* refused, although two components can share a slot.                      *)
(***************************************************************************)
EXTENDS PhysicsSlots, SequenceTheorems, TLAPS

\* A handle's generation is the slot's or an earlier one, as long as the slot's has not
\* come round.
Reached(handle) == handle.idx \in wrapped \/ handle.generation <= generation[handle.idx]
Passed(handle) == handle.idx \in wrapped \/ handle.generation < generation[handle.idx]

\* The generation of a slot is past that of every handle deleted, and not before that
\* of any handle held, until it comes round.
PhysicsInv ==
  /\ generation \in [Idx -> Nat]
  /\ held \in Seq(Handle)
  /\ \A k \in DOMAIN held : Reached(held[k])
  /\ deleted \subseteq Handle
  /\ \A handle \in deleted : Passed(handle)

\* A sequence without one of its elements has no new ones.
LEMMA RemovedFrom ==
  ASSUME NEW S, NEW s \in Seq(S), NEW k \in 1 .. Len(s)
  PROVE  /\ RemoveAt(s, k) \in Seq(S)
         /\ \A i \in DOMAIN RemoveAt(s, k) : \E j \in DOMAIN s : RemoveAt(s, k)[i] = s[j]
<1> DEFINE before == SubSeq(s, 1, k - 1)
           after == SubSeq(s, k + 1, Len(s))
<1>1. /\ before \in Seq(S) /\ Len(before) \in Nat
      /\ \A i \in 1 .. Len(before) : \E j \in DOMAIN s : before[i] = s[j]
  OBVIOUS
<1>2. /\ after \in Seq(S) /\ Len(after) \in Nat
      /\ \A i \in 1 .. Len(after) : \E j \in DOMAIN s : after[i] = s[j]
  OBVIOUS
<1>3. RemoveAt(s, k) = before \o after
  BY DEF RemoveAt
<1> HIDE DEF before, after
<1>4. /\ before \o after \in Seq(S) /\ Len(before \o after) = Len(before) + Len(after)
      /\ \A i \in 1 .. Len(before) + Len(after) :
           (before \o after)[i] = IF i <= Len(before) THEN before[i] ELSE after[i - Len(before)]
  BY <1>1, <1>2, ConcatProperties
<1>5. DOMAIN (before \o after) = 1 .. Len(before) + Len(after)
  BY <1>4
<1>6. ASSUME NEW i \in 1 .. Len(before) + Len(after)
      PROVE  \E j \in DOMAIN s : (before \o after)[i] = s[j]
  <2>1. CASE i <= Len(before)
    BY <1>1, <1>4, <2>1
  <2>2. CASE i > Len(before)
    <3>1. i - Len(before) \in 1 .. Len(after)
      BY <1>1, <1>2, <2>2
    <3> QED BY <1>1, <1>2, <1>4, <2>2, <3>1
  <2> QED BY <1>1, <2>1, <2>2
<1> QED BY <1>3, <1>4, <1>5, <1>6

\* A deletion moves the generation of one slot, past the handle it was given, and every
\* other handle is as far as it was.
LEMMA DeleteSafe ==
  ASSUME Generations \in Nat \ {0, 1}, PhysicsInv, NEW handle \in Handle, Reached(handle),
         physics_component_delete(handle)
  PROVE  /\ generation' \in [Idx -> Nat]
         /\ \A other \in Handle : Reached(other) => Reached(other)'
         /\ \A other \in Handle : Passed(other) => Passed(other)'
         /\ Passed(handle)'
<1>1. /\ handle.idx \in Idx /\ handle.generation \in Nat /\ generation[handle.idx] \in Nat
  BY DEF Handle, PhysicsInv
<1>2. /\ generation' = [generation EXCEPT ![handle.idx] =
                          IF Valid(handle) THEN (@ + 1) % Generations ELSE @]
      /\ wrapped' = wrapped \cup {s \in Idx : generation'[s] < generation[s]}
  BY DEF physics_component_delete
<1>3. (generation[handle.idx] + 1) % Generations \in Nat
  BY <1>1
<1>4. generation' \in [Idx -> Nat]
  BY <1>1, <1>2, <1>3 DEF PhysicsInv
<1>5. ASSUME NEW s \in Idx PROVE s \in wrapped' \/ generation[s] <= generation'[s]
  BY <1>2, <1>4 DEF PhysicsInv
<1>6. ASSUME NEW other \in Handle
      PROVE  /\ Reached(other) => Reached(other)'
             /\ Passed(other) => Passed(other)'
  <2>1. other.idx \in Idx /\ other.generation \in Nat
    BY DEF Handle
  <2>2. generation[other.idx] \in Nat /\ generation'[other.idx] \in Nat
    BY <1>4, <2>1 DEF PhysicsInv
  <2>3. other.idx \in wrapped => other.idx \in wrapped'
    BY <1>2
  <2> QED BY <1>5, <2>1, <2>2, <2>3 DEF Reached, Passed
<1>7. Passed(handle)'
  <2>1. CASE handle.idx \in wrapped'
    BY <2>1 DEF Passed
  <2>2. CASE handle.idx \notin wrapped'
    <3>1. /\ generation[handle.idx] <= generation'[handle.idx]
          /\ handle.generation <= generation[handle.idx]
      BY <1>1, <1>2, <1>5, <2>2 DEF Reached
    <3>2. CASE Valid(handle)
      <4>1. generation'[handle.idx] = (handle.generation + 1) % Generations
        BY <1>1, <1>2, <3>2 DEF PhysicsInv, Valid
      <4>2. generation'[handle.idx] # handle.generation
        BY <1>1, <4>1
      <4> QED BY <1>1, <1>4, <3>1, <4>2 DEF Passed
    <3>3. CASE ~Valid(handle)
      <4>1. handle.generation < generation[handle.idx]
        BY <1>1, <3>1, <3>3 DEF Valid
      <4> QED BY <1>1, <1>4, <3>1, <4>1 DEF Passed
    <3> QED BY <3>2, <3>3
  <2> QED BY <2>1, <2>2
<1> QED BY <1>4, <1>6, <1>7

LEMMA PhysicsInvStep ==
  ASSUME Generations \in Nat \ {0, 1}, PhysicsInv, [Next]_physicsVars PROVE PhysicsInv'
<1>1. CASE physics_component_create
  <2> DEFINE new == [idx |-> first_free, generation |-> generation[first_free]]
  <2>1. /\ first_free \in Idx /\ held' = Append(held, new)
        /\ UNCHANGED <<generation, deleted, wrapped>>
    BY <1>1 DEF physics_component_create
  <2>2. new \in Handle /\ new.generation = generation[new.idx] /\ generation[new.idx] \in Nat
    BY <2>1 DEF PhysicsInv, Handle
  <2> HIDE DEF new
  <2>3. /\ held' \in Seq(Handle)
        /\ \A k \in DOMAIN held' : (k \in DOMAIN held /\ held'[k] = held[k]) \/ held'[k] = new
    BY <2>1, <2>2 DEF PhysicsInv
  <2>4. ASSUME NEW k \in DOMAIN held' PROVE Reached(held[k])'
    <3>1. CASE held'[k] = new
      BY <2>1, <2>2, <3>1 DEF Reached
    <3>2. CASE k \in DOMAIN held /\ held'[k] = held[k]
      BY <2>1, <3>2 DEF PhysicsInv, Reached
    <3> QED BY <2>3, <3>1, <3>2
  <2>5. \A handle \in deleted' : Passed(handle)'
    BY <2>1 DEF PhysicsInv, Passed
  <2> QED BY <2>1, <2>3, <2>4, <2>5 DEF PhysicsInv
<1>2. CASE DeleteHeld
  <2>1. PICK k \in DOMAIN held :
          /\ physics_component_delete(held[k])
          /\ deleted' = deleted \cup {held[k]} /\ held' = RemoveAt(held, k)
    BY <1>2 DEF DeleteHeld
  <2>2. held[k] \in Handle /\ Reached(held[k]) /\ k \in 1 .. Len(held)
    BY <2>1 DEF PhysicsInv
  <2>3. /\ held' \in Seq(Handle)
        /\ \A i \in DOMAIN held' : \E j \in DOMAIN held : held'[i] = held[j]
    BY <2>1, <2>2, RemovedFrom DEF PhysicsInv
  <2>4. /\ generation' \in [Idx -> Nat]
        /\ \A other \in Handle : Reached(other) => Reached(other)'
        /\ \A other \in Handle : Passed(other) => Passed(other)'
    BY <2>1, <2>2, DeleteSafe
  <2>5. \A handle \in Handle : handle = held[k] => Passed(handle)'
    BY <2>1, <2>2, DeleteSafe
  <2>6. ASSUME NEW i \in DOMAIN held' PROVE Reached(held[i])'
    <3>1. PICK j \in DOMAIN held : held'[i] = held[j]
      BY <2>3
    <3>2. held[j] \in Handle /\ Reached(held[j])
      BY DEF PhysicsInv
    <3>3. \A other \in Handle : other = held'[i] => Reached(other)'
      BY <2>4, <3>1, <3>2
    <3> QED BY <3>1, <3>2, <3>3 DEF Reached
  <2>7. deleted' \subseteq Handle /\ \A handle \in deleted' : Passed(handle)'
    BY <2>1, <2>2, <2>4, <2>5 DEF PhysicsInv
  <2> QED BY <2>3, <2>4, <2>6, <2>7 DEF PhysicsInv
<1>3. CASE DeleteAgain
  <2>1. PICK handle \in deleted : physics_component_delete(handle)
    BY <1>3 DEF DeleteAgain
  <2>2. handle \in Handle /\ Reached(handle)
    BY <2>1 DEF PhysicsInv, Handle, Passed, Reached
  <2>3. /\ generation' \in [Idx -> Nat]
        /\ \A other \in Handle : Reached(other) => Reached(other)'
        /\ \A other \in Handle : Passed(other) => Passed(other)'
    BY <2>1, <2>2, DeleteSafe
  <2>4. held' = held /\ deleted' = deleted
    BY <1>3 DEF DeleteAgain
  <2>5. ASSUME NEW k \in DOMAIN held' PROVE Reached(held[k])'
    <3>1. held[k] \in Handle /\ Reached(held[k]) /\ held'[k] = held[k]
      BY <2>4 DEF PhysicsInv
    <3>2. \A other \in Handle : other = held'[k] => Reached(other)'
      BY <2>3, <3>1
    <3> QED BY <3>1, <3>2 DEF Reached
  <2>6. \A other \in deleted' : Passed(other)'
    BY <2>3, <2>4 DEF PhysicsInv
  <2> QED BY <2>3, <2>4, <2>5, <2>6 DEF PhysicsInv
<1>4. CASE SetMass
  BY <1>4 DEF SetMass, PhysicsInv, Reached, Passed
<1>5. CASE UNCHANGED physicsVars
  BY <1>5 DEF physicsVars, state, PhysicsInv, Reached, Passed
<1> QED BY <1>1, <1>2, <1>3, <1>4, <1>5 DEF Next

\* However slots are shared and used again, and however often holders delete, a handle
\* that was deleted never reaches a component again while the generation of its slot has
\* not come round, which takes 2^32 deletions of that slot.
THEOREM DeletedStaysRefused ==
  ASSUME Generations \in Nat \ {0, 1} PROVE Spec => []DeletedIsRefused
<1>1. Init => PhysicsInv
  BY DEF Init, PhysicsInv, Idx
<1>2. PhysicsInv => DeletedIsRefused
  BY DEF PhysicsInv, Passed, DeletedIsRefused, Valid, Handle
<1>3. PhysicsInv /\ [Next]_physicsVars => PhysicsInv'
  BY PhysicsInvStep
<1> QED BY <1>1, <1>2, <1>3, PTL DEF Spec
===============================================================================
