------------------------------ MODULE RingBuff ------------------------------
(***************************************************************************)
(* The ring of lib/grim/mem/buff.h as operators on a record of its fields. *)
(* Every element is one value: what the code moves with memcpy and         *)
(* element_size is moved whole.  The code masks with cap - 1, which is     *)
(* "% cap" because ring_buff_create_with_cap only makes powers of two.     *)
(***************************************************************************)
EXTENDS Naturals

CONSTANT Zero    \* what memset leaves in a slot that was popped

mod(rb, x) == x % rb.cap

ring_buff_create_with_cap(pow2_cap) ==
    [data |-> [i \in 0 .. 2 ^ pow2_cap - 1 |-> Zero],
     read |-> 0, write |-> 0, cap |-> 2 ^ pow2_cap]

(* The assertion of ring_buff_push, the push, and what it returns. *)
MayPush(rb) == rb.read # mod(rb, rb.write + 1)
ring_buff_push(rb, element) ==
    [rb EXCEPT !.data[rb.write] = element, !.write = mod(rb, rb.write + 1)]

\* Mutant: the ring is called full when its last slot is taken.
FullAtCap(rb) == rb.read = rb.write

IsFull(rb) == rb.read = mod(rb, rb.write + 1)

(* The assertion of ring_buff_pop, the element it takes, and the pop. *)
MayPop(rb) == rb.read # rb.write
Oldest(rb) == rb.data[rb.read]
ring_buff_pop(rb) ==
    [rb EXCEPT !.data[rb.read] = Zero, !.read = mod(rb, rb.read + 1)]
IsEmpty(rb) == rb.write = rb.read

(* What ring_buff_peek returns; it leaves the ring as it is. *)
ring_buff_peek(rb) == rb.write # rb.read

(* The elements between the read and the write index, oldest first. *)
Count(rb) == mod(rb, rb.write + rb.cap - rb.read)
Contents(rb) == [i \in 1 .. Count(rb) |-> rb.data[mod(rb, rb.read + i - 1)]]
=============================================================================
