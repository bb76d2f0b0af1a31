-------------------------- MODULE FrameLoopProofs ---------------------------
(***************************************************************************)
(* Proofs about FrameLoop, for any sizes of the window, any wrap of the    *)
(* frame count, one to three images, any capacity of the ring and any      *)
(* number of presents waiting.  The first part is about the ring of        *)
(* RingBuff; the invariant then says of every submission which present     *)
(* will follow it, and of every present which fence it will open.          *)
(***************************************************************************)
EXTENDS FrameLoop, SequenceTheorems, TLAPS

Cap == 2 ^ Pow2Cap
Ring(S) == [data : [0 .. Cap - 1 -> S], read : 0 .. Cap - 1, write : 0 .. Cap - 1, cap : {Cap}]

LEMMA CapIsNat == Cap \in Nat /\ Cap >= 2
<1> DEFINE Pow == [n \in 1 .. 15 |-> 2 ^ n]
<1>1. /\ Pow[1] = 2 /\ Pow[2] = 4 /\ Pow[3] = 8 /\ Pow[4] = 16 /\ Pow[5] = 32 /\ Pow[6] = 64
      /\ Pow[7] = 128 /\ Pow[8] = 256 /\ Pow[9] = 512 /\ Pow[10] = 1024 /\ Pow[11] = 2048
      /\ Pow[12] = 4096 /\ Pow[13] = 8192 /\ Pow[14] = 16384 /\ Pow[15] = 32768
    OBVIOUS
<1>2. Cap = Pow[Pow2Cap]
    BY CapAssumption DEF Cap
<1> HIDE DEF Pow
<1> QED BY <1>1, <1>2, CapAssumption

(* The remainder, up to twice the divisor. *)
LEMMA Modulo ==
    ASSUME NEW c \in Nat \ {0}, NEW x \in 0 .. 2 * c - 1
    PROVE  x % c = IF x < c THEN x ELSE x - c
OBVIOUS

(* Where the element with the given number is kept. *)
Wrapped(x) == IF x < Cap THEN x ELSE x - Cap
Place(rb, i) == Wrapped(rb.read + i - 1)

(* Seen from the next index, everything is one place nearer.               *)
LEMMA WrappedNext ==
    ASSUME NEW r \in 0 .. Cap - 1, NEW i \in 1 .. Cap - 2
    PROVE  /\ Wrapped((IF r + 1 = Cap THEN 0 ELSE r + 1) + i - 1) = Wrapped(r + (i + 1) - 1)
           /\ Wrapped(r + (i + 1) - 1) # r
<1>1. Cap \in Nat
    BY CapIsNat
<1> HIDE DEF Cap
<1> QED BY <1>1 DEF Wrapped

LEMMA RingContents ==
    ASSUME NEW S, NEW rb \in Ring(S)
    PROVE  /\ Count(rb) = IF rb.write >= rb.read THEN rb.write - rb.read
                          ELSE rb.write + Cap - rb.read
           /\ Count(rb) \in 0 .. Cap - 1
           /\ DOMAIN Contents(rb) = 1 .. Count(rb)
           /\ \A i \in 1 .. Count(rb) : /\ Contents(rb)[i] = rb.data[Place(rb, i)]
                                        /\ Place(rb, i) \in 0 .. Cap - 1
                                        /\ Contents(rb)[i] \in S
<1>1. /\ rb.read \in 0 .. Cap - 1 /\ rb.write \in 0 .. Cap - 1 /\ rb.cap = Cap
      /\ rb.data \in [0 .. Cap - 1 -> S]
    BY DEF Ring
<1>2. Cap \in Nat \ {0} /\ Cap >= 2
    BY CapIsNat
<1> DEFINE Rem(x) == x % Cap
<1>a. \A x \in 0 .. 2 * Cap - 1 : Rem(x) = IF x < Cap THEN x ELSE x - Cap
    BY <1>2, Modulo
<1>b. \A x : mod(rb, x) = Rem(x)
    BY <1>1 DEF mod
<1> HIDE DEF Cap, Rem
<1>3. /\ rb.write + Cap - rb.read \in 0 .. 2 * Cap - 1
      /\ Count(rb) = Rem(rb.write + Cap - rb.read)
    BY <1>1, <1>2, <1>b DEF Count
<1>4. /\ Count(rb) = IF rb.write >= rb.read THEN rb.write - rb.read
                     ELSE rb.write + Cap - rb.read
      /\ Count(rb) \in 0 .. Cap - 1
    BY <1>1, <1>2, <1>3, <1>a
<1>5. \A i \in 1 .. Count(rb) : /\ rb.read + i - 1 \in 0 .. 2 * Cap - 1
                                /\ mod(rb, rb.read + i - 1) = Place(rb, i)
                                /\ Place(rb, i) \in 0 .. Cap - 1
  <2> SUFFICES ASSUME NEW i \in 1 .. Count(rb)
               PROVE  /\ rb.read + i - 1 \in 0 .. 2 * Cap - 1
                      /\ mod(rb, rb.read + i - 1) = Place(rb, i)
                      /\ Place(rb, i) \in 0 .. Cap - 1
      OBVIOUS
  <2>1. rb.read + i - 1 \in 0 .. 2 * Cap - 1
      BY <1>1, <1>2, <1>4
  <2>2. Rem(rb.read + i - 1) = Place(rb, i)
      BY <1>1, <1>2, <1>a, <2>1 DEF Place, Wrapped
  <2>3. Place(rb, i) \in 0 .. Cap - 1
      BY <1>1, <1>2, <2>1 DEF Place, Wrapped
  <2> QED BY <1>b, <2>1, <2>2, <2>3
<1>6. /\ DOMAIN Contents(rb) = 1 .. Count(rb)
      /\ \A i \in 1 .. Count(rb) : Contents(rb)[i] = rb.data[mod(rb, rb.read + i - 1)]
    BY DEF Contents
<1>7. \A i \in 1 .. Count(rb) : rb.data[Place(rb, i)] \in S
    BY <1>1, <1>5
<1> QED BY <1>4, <1>5, <1>6, <1>7

(* The index after another. *)
LEMMA NextIndex ==
    ASSUME NEW S, NEW rb \in Ring(S), NEW x \in 0 .. Cap - 1
    PROVE  /\ mod(rb, x + 1) = IF x + 1 = Cap THEN 0 ELSE x + 1
           /\ mod(rb, x + 1) \in 0 .. Cap - 1
<1>1. Cap \in Nat \ {0} /\ Cap >= 2 /\ rb.cap = Cap
    BY CapIsNat DEF Ring
<1> HIDE DEF Cap
<1>2. x + 1 \in 0 .. 2 * Cap - 1
    BY <1>1
<1> QED BY <1>1, <1>2, Modulo DEF mod

LEMMA RingCreated ==
    ASSUME NEW S, None \in S
    PROVE  LET rb == ring_buff_create_with_cap(Pow2Cap)
           IN  rb \in Ring(S) /\ Count(rb) = 0 /\ MayPush(rb)
<1> DEFINE rb == ring_buff_create_with_cap(Pow2Cap)
<1>1. rb.read = 0 /\ rb.write = 0 /\ 0 \in 0 .. Cap - 1
    BY CapIsNat DEF ring_buff_create_with_cap
<1>2. rb \in Ring(S)
    BY <1>1 DEF ring_buff_create_with_cap, Ring, Cap
<1> HIDE DEF rb
<1>3. Count(rb) = 0
    BY <1>1, <1>2, RingContents
<1>4. mod(rb, rb.write + 1) # rb.read
    BY <1>1, <1>2, NextIndex, CapIsNat
<1> QED BY <1>2, <1>3, <1>4 DEF MayPush, rb

(* A push adds the element at the end. *)
LEMMA RingPushed ==
    ASSUME NEW S, NEW rb \in Ring(S), NEW e \in S, MayPush(rb)
    PROVE  LET new == ring_buff_push(rb, e)
           IN  /\ new \in Ring(S)
               /\ Count(new) = Count(rb) + 1
               /\ \A i \in 1 .. Count(rb) : Contents(new)[i] = Contents(rb)[i]
               /\ Contents(new)[Count(rb) + 1] = e
<1> DEFINE new == ring_buff_push(rb, e)
           after == mod(rb, rb.write + 1)
<1>1. /\ rb.read \in 0 .. Cap - 1 /\ rb.write \in 0 .. Cap - 1 /\ rb.cap = Cap
      /\ rb.data \in [0 .. Cap - 1 -> S]
    BY DEF Ring
<1>2. Cap \in Nat /\ Cap >= 2
    BY CapIsNat
<1>3. after = (IF rb.write + 1 = Cap THEN 0 ELSE rb.write + 1) /\ after \in 0 .. Cap - 1
    BY <1>1, NextIndex
<1>4. after # rb.read
    BY DEF MayPush
<1> HIDE DEF after
<1>5. /\ new.read = rb.read /\ new.write = after
      /\ new.data = [rb.data EXCEPT ![rb.write] = e]
      /\ new \in Ring(S)
    BY <1>1, <1>3 DEF Ring, ring_buff_push, after
<1> HIDE DEF new, Cap
<1>6. /\ Count(new) = IF new.write >= new.read THEN new.write - new.read
                      ELSE new.write + Cap - new.read
      /\ \A i \in 1 .. Count(new) : Contents(new)[i] = new.data[Place(new, i)]
  <2>1. new \in Ring(S)
      BY <1>5
  <2> QED BY <2>1, RingContents
<1>7. /\ Count(rb) = IF rb.write >= rb.read THEN rb.write - rb.read
                     ELSE rb.write + Cap - rb.read
      /\ \A i \in 1 .. Count(rb) : /\ Contents(rb)[i] = rb.data[Place(rb, i)]
                                   /\ Place(rb, i) \in 0 .. Cap - 1
    BY RingContents
<1>8. Count(new) = Count(rb) + 1
    BY SMTT(20), <1>1, <1>2, <1>3, <1>4, <1>5, <1>6, <1>7
<1>9. \A i \in 1 .. Count(rb) : Place(new, i) = Place(rb, i) /\ Place(rb, i) # rb.write
    BY <1>1, <1>2, <1>5, <1>7 DEF Place, Wrapped
<1>10. Place(new, Count(rb) + 1) = rb.write
    BY <1>1, <1>2, <1>5, <1>7 DEF Place, Wrapped
<1>11. Count(rb) \in Nat
    BY <1>1, <1>2, <1>7
<1>12. \A i \in 1 .. Count(rb) : Contents(new)[i] = Contents(rb)[i]
    BY <1>1, <1>5, <1>6, <1>7, <1>8, <1>9, <1>11
<1>13. Contents(new)[Count(rb) + 1] = e
  <2>1. new.data[rb.write] = e
      BY <1>1, <1>5
  <2>2. Count(rb) + 1 \in 1 .. Count(new)
      BY <1>8, <1>11
  <2> QED BY <1>6, <1>10, <2>1, <2>2
<1> QED BY <1>5, <1>8, <1>12, <1>13 DEF new

(* A pop takes the oldest element, which is the first; there is room then. *)
LEMMA RingPopped ==
    ASSUME NEW S, None \in S, NEW rb \in Ring(S), ring_buff_peek(rb)
    PROVE  LET new == ring_buff_pop(rb)
           IN  /\ new \in Ring(S) /\ MayPush(new)
               /\ Count(rb) >= 1 /\ Count(new) = Count(rb) - 1
               /\ Oldest(rb) = Contents(rb)[1]
               /\ \A i \in 1 .. Count(rb) - 1 : Contents(new)[i] = Contents(rb)[i + 1]
<1> DEFINE new == ring_buff_pop(rb)
           after == mod(rb, rb.read + 1)
<1>1. /\ rb.read \in 0 .. Cap - 1 /\ rb.write \in 0 .. Cap - 1 /\ rb.cap = Cap
      /\ rb.data \in [0 .. Cap - 1 -> S]
    BY DEF Ring
<1>2. Cap \in Nat /\ Cap >= 2
    BY CapIsNat
<1>3. after = (IF rb.read + 1 = Cap THEN 0 ELSE rb.read + 1) /\ after \in 0 .. Cap - 1
    BY <1>1, NextIndex
<1>4. rb.write # rb.read
    BY DEF ring_buff_peek
<1> HIDE DEF after
<1>5. /\ new.read = after /\ new.write = rb.write
      /\ new.data = [rb.data EXCEPT ![rb.read] = None]
      /\ new \in Ring(S)
    BY <1>1, <1>3 DEF Ring, ring_buff_pop, after
<1> HIDE DEF new, Cap
<1>6. /\ Count(new) = IF new.write >= new.read THEN new.write - new.read
                      ELSE new.write + Cap - new.read
      /\ \A i \in 1 .. Count(new) : Contents(new)[i] = new.data[Place(new, i)]
  <2>1. new \in Ring(S)
      BY <1>5
  <2> QED BY <2>1, RingContents
<1>7. /\ Count(rb) = IF rb.write >= rb.read THEN rb.write - rb.read
                     ELSE rb.write + Cap - rb.read
      /\ \A i \in 1 .. Count(rb) : /\ Contents(rb)[i] = rb.data[Place(rb, i)]
                                   /\ Place(rb, i) \in 0 .. Cap - 1
    BY RingContents
<1>8. Count(rb) \in Nat /\ Count(rb) >= 1 /\ Count(new) = Count(rb) - 1
    BY SMTT(20), <1>1, <1>2, <1>3, <1>4, <1>5, <1>6, <1>7
<1>9. \A i \in 1 .. Count(rb) - 1 : /\ i + 1 \in 1 .. Count(rb) /\ i \in 1 .. Count(new)
                                    /\ Place(new, i) = Place(rb, i + 1)
                                    /\ Place(rb, i + 1) # rb.read
  <2> SUFFICES ASSUME NEW i \in 1 .. Count(rb) - 1
               PROVE  /\ i + 1 \in 1 .. Count(rb) /\ i \in 1 .. Count(new)
                      /\ Place(new, i) = Place(rb, i + 1)
                      /\ Place(rb, i + 1) # rb.read
      OBVIOUS
  <2>1. i \in Nat /\ i >= 1 /\ i < Count(rb) /\ Count(rb) < Cap
      BY <1>1, <1>2, <1>7, <1>8
  <2>a. /\ Wrapped((IF rb.read + 1 = Cap THEN 0 ELSE rb.read + 1) + i - 1)
              = Wrapped(rb.read + (i + 1) - 1)
        /\ Wrapped(rb.read + (i + 1) - 1) # rb.read
    <3>1. i \in 1 .. Cap - 2
        BY <1>2, <1>8, <2>1
    <3>2. rb.read \in 0 .. Cap - 1
        BY <1>1
    <3> QED BY <3>1, <3>2, WrappedNext
  <2>2. Place(new, i) = Place(rb, i + 1)
      BY <1>3, <1>5, <2>a DEF Place
  <2>3. Place(rb, i + 1) # rb.read
      BY <2>a DEF Place
  <2> QED BY <1>8, <2>1, <2>2, <2>3
<1>10. \A i \in 1 .. Count(rb) - 1 : Contents(new)[i] = Contents(rb)[i + 1]
    BY <1>1, <1>5, <1>6, <1>7, <1>9
<1>11. Oldest(rb) = Contents(rb)[1]
  <2>1. Place(rb, 1) = rb.read /\ 1 \in 1 .. Count(rb)
      BY <1>1, <1>2, <1>8 DEF Place, Wrapped
  <2> QED BY <1>7, <2>1 DEF Oldest
<1>12. MayPush(new)
  <2>1. mod(new, new.write + 1) = IF new.write + 1 = Cap THEN 0 ELSE new.write + 1
      BY <1>1, <1>5, NextIndex
  <2> QED BY <1>1, <1>2, <1>3, <1>4, <1>5, <2>1 DEF MayPush
<1> QED BY <1>5, <1>8, <1>10, <1>11, <1>12 DEF new
-----------------------------------------------------------------------------
(* The invariant. *)

Pair(s) == [gen |-> s.gen, image |-> s.image]
Queued(p, q) == \E j \in DOMAIN q : q[j] = p
Draining == pc \in {"drain_start", "drain_end"}

(* The ring has room but between a push that filled it and its emptying. *)
RingInv == GarbageAccounted /\ (~Draining => MayPush(garbage))

(* A slot's fence closes and opens with its submissions.                   *)
SlotsInv ==
    /\ \A j, k \in DOMAIN submits : j # k => submits[j].frame # submits[k].frame
    /\ pc = "acquire" => render_finish[frame_idx]
    /\ pc = "draw" => \A k \in DOMAIN submits : submits[k].frame # frame_idx
    /\ FencesWillOpen

(* Each submission is followed by the present of its image, which cannot   *)
(* complete before it; while that is pending the image's fence is closed   *)
(* and the image not given out again.                                      *)
PresentsInv ==
    /\ \A k \in DOMAIN submits :
          \/ Queued(Pair(submits[k]), presents)
          \/ pc \in {"present", "exited"} /\ Pair(submits[k]) = Shown
    /\ \A j, k \in DOMAIN submits : j # k => Pair(submits[j]) # Pair(submits[k])
    /\ \A j \in DOMAIN presents :
          presents[j].gen \in alive => ~present_done[presents[j].gen][presents[j].image]
    /\ \A j \in DOMAIN presents :
          presents[j].gen = swapchain => owner[presents[j].image] = "queued"
    /\ \A j, k \in DOMAIN presents : j # k => presents[j] # presents[k]
    /\ pc \in {"draw", "present"} => \A k \in DOMAIN presents : presents[k] # Shown

(* Once the queues are waited for at the end, nothing is submitted.        *)
LiveInv ==
    /\ GpuUsesLiveObjects
    /\ pc \in {"cleanup_target", "done"} => submits = << >>

(* A window of another size is remembered until the target has its size.   *)
SizeInv ==
    /\ resized \/ extent = window
    /\ pc \in {"poll", "frame_end"} \/ Draining => ~resized

IInv == TypeOK /\ RingInv /\ SlotsInv /\ PresentsInv /\ LiveInv /\ SizeInv
-----------------------------------------------------------------------------
(* Types. *)

Submission == [gen : Generations, frame : Indices, image : Indices]
Presentation == [gen : Generations, image : Indices]

LEMMA AppendIsSeq ==
    ASSUME NEW S, NEW s \in Seq(S), NEW e \in S
    PROVE  /\ Append(s, e) \in Seq(S)
           /\ DOMAIN Append(s, e) = 1 .. Len(s) + 1
           /\ \A k \in 1 .. Len(s) : Append(s, e)[k] = s[k]
           /\ Append(s, e)[Len(s) + 1] = e
    OBVIOUS

LEMMA TailIsSeq ==
    ASSUME NEW S, NEW s \in Seq(S), s # << >>
    PROVE  /\ Tail(s) \in Seq(S) /\ Len(s) \in Nat /\ Len(s) >= 1
           /\ DOMAIN Tail(s) = 1 .. Len(s) - 1
           /\ \A k \in 1 .. Len(s) - 1 : Tail(s)[k] = s[k + 1]
           /\ Head(s) = s[1] /\ Head(s) \in S
    OBVIOUS

LEMMA IndexTypes ==
    ASSUME TypeOK
    PROVE  /\ Indices = 0 .. Images - 1 /\ Images \in Nat /\ Images >= 1
           /\ frame_idx \in Indices /\ image_idx \in Indices
           /\ Opened \in [Indices -> BOOLEAN] /\ \A i \in Indices : Opened[i] = TRUE
           /\ AllFree \in [Indices -> {"free", "app", "queued", "shown"}]
           /\ \A i \in Indices : AllFree[i] = "free"
<1>1. frame_count \in Nat /\ image_idx \in Indices
    BY WrapAssumption DEF TypeOK
<1>2. frame_count % Images \in 0 .. Images - 1
    BY <1>1, ImagesAssumption
<1> QED BY <1>1, <1>2, ImagesAssumption DEF Indices, frame_idx, Opened, AllFree

(* The two queues, whose elements are records. *)
LEMMA QueueTypes ==
    ASSUME TypeOK
    PROVE  /\ submits \in Seq(Submission) /\ presents \in Seq(Presentation)
           /\ DOMAIN submits = 1 .. Len(submits) /\ Len(submits) \in Nat
           /\ DOMAIN presents = 1 .. Len(presents) /\ Len(presents) \in Nat
           /\ \A k \in DOMAIN submits : /\ submits[k].gen \in Generations
                                        /\ submits[k].frame \in Indices
                                        /\ submits[k].image \in Indices
                                        /\ Pair(submits[k]) \in Presentation
           /\ \A k \in DOMAIN presents : /\ presents[k] \in Presentation
                                         /\ presents[k].gen \in Generations
                                         /\ presents[k].image \in Indices
<1>1. submits \in Seq(Submission) /\ presents \in Seq(Presentation)
    BY DEF TypeOK, Submission, Presentation
<1>2. /\ DOMAIN submits = 1 .. Len(submits) /\ Len(submits) \in Nat
      /\ DOMAIN presents = 1 .. Len(presents) /\ Len(presents) \in Nat
      /\ \A k \in DOMAIN submits : submits[k] \in Submission
      /\ \A k \in DOMAIN presents : presents[k] \in Presentation
    BY <1>1
<1>3. /\ \A s \in Submission : s.gen \in Generations /\ s.frame \in Indices /\ s.image \in Indices
      /\ \A p \in Presentation : p.gen \in Generations /\ p.image \in Indices
      /\ \A s \in Submission : [gen |-> s.gen, image |-> s.image] \in Presentation
    BY DEF Submission, Presentation
<1> QED BY <1>1, <1>2, <1>3 DEF Pair

LEMMA TwoPresentations ==
    ASSUME NEW p \in Presentation, NEW q \in Presentation
    PROVE  p = q <=> p.gen = q.gen /\ p.image = q.image
BY DEF Presentation

LEMMA RingTypes ==
    ASSUME TypeOK
    PROVE  /\ garbage \in Ring(Generations \cup {None})
           /\ Count(garbage) \in Nat /\ DOMAIN Retired = 1 .. Count(garbage)
<1>1. garbage \in Ring(Generations \cup {None})
    BY DEF TypeOK, Ring, Cap
<1> QED BY <1>1, RingContents, CapIsNat DEF Retired
-----------------------------------------------------------------------------
(* What the operations on the ring and on the generations do. *)

(* A new generation comes to life, the old one goes to the ring.           *)
LEMMA RecreateEffect ==
    ASSUME IInv, NEW full, NEW next, ~Draining, pc # "done", Recreate(full, next),
           full \in {"drain_start", "drain_end"}, next \notin {"done"}
    PROVE  \E new \in Generations :
              /\ new \notin alive /\ swapchain' = new /\ swapchain \in alive
              /\ \A k \in DOMAIN presents : presents[k].gen # new
              /\ alive' = alive \cup {new}
              /\ present_done' \in [alive' -> [Indices -> BOOLEAN]]
              /\ \A g \in alive : present_done'[g] = present_done[g]
              /\ garbage' \in Ring(Generations \cup {None})
              /\ RingInv'
<1>1. PICK new \in Generations : Free(new) /\ swapchain' = new /\ present_done' = Created(new)
    BY DEF Recreate
<1>2. new \notin alive /\ \A k \in DOMAIN presents : presents[k].gen # new
    BY <1>1 DEF Free
<1>3. /\ alive' = alive \cup {new} /\ \A g \in alive : present_done'[g] = present_done[g]
      /\ present_done' \in [alive' -> [Indices -> BOOLEAN]]
  <2>1. present_done \in [alive -> [Indices -> BOOLEAN]] /\ Opened \in [Indices -> BOOLEAN]
      BY IndexTypes DEF IInv, TypeOK
  <2> HIDE DEF Opened
  <2> QED BY <1>1, <1>2, <2>1 DEF Created, alive
<1>4. /\ garbage \in Ring(Generations \cup {None}) /\ Count(garbage) \in Nat
      /\ DOMAIN Retired = 1 .. Count(garbage)
      /\ swapchain \in Generations \cup {None}
    BY RingTypes DEF IInv, TypeOK
<1>5. /\ \A j, k \in DOMAIN Retired : j # k => Retired[j] # Retired[k]
      /\ alive = Range(Retired) \cup {swapchain} /\ swapchain \notin Range(Retired)
      /\ MayPush(garbage)
    BY DEF IInv, RingInv, GarbageAccounted
<1>6. /\ garbage' = ring_buff_push(garbage, swapchain)
      /\ pc' = IF IsFull(garbage') THEN full ELSE next
    BY DEF Recreate
<1>7. /\ garbage' \in Ring(Generations \cup {None}) /\ Count(garbage)' = Count(garbage) + 1
      /\ \A i \in 1 .. Count(garbage) : Retired'[i] = Retired[i]
      /\ Retired'[Count(garbage) + 1] = swapchain
    BY <1>4, <1>5, <1>6, RingPushed DEF Retired
<1>8. DOMAIN Retired' = 1 .. Count(garbage) + 1
    BY <1>7, RingContents DEF Retired
<1>9. Range(Retired') = Range(Retired) \cup {swapchain}
  <2>1. 1 .. Count(garbage) + 1 = (1 .. Count(garbage)) \cup {Count(garbage) + 1}
      BY <1>4
  <2> QED BY <1>4, <1>7, <1>8, <2>1 DEF Range
<1>10. \A j, k \in DOMAIN Retired' : j # k => Retired'[j] # Retired'[k]
  <2>1. \A j \in 1 .. Count(garbage) : Retired[j] # swapchain
      BY <1>4, <1>5 DEF Range
  <2> QED BY <1>4, <1>5, <1>7, <1>8, <2>1
<1>11. alive' = Range(Retired') \cup {swapchain'} /\ swapchain' \notin Range(Retired')
    BY <1>1, <1>2, <1>3, <1>5, <1>9
<1>12. RingInv'
    BY <1>6, <1>10, <1>11 DEF RingInv, GarbageAccounted, Draining, IsFull, MayPush
<1> QED BY <1>1, <1>2, <1>3, <1>5, <1>7, <1>12

(* Generations are destroyed, and the fences of the others left alone.     *)
LEMMA DestroyedEffect ==
    ASSUME TypeOK, NEW gs, present_done' = Destroyed(gs)
    PROVE  /\ alive' = alive \ gs
           /\ present_done' \in [alive' -> [Indices -> BOOLEAN]]
           /\ \A g \in alive' : present_done'[g] = present_done[g]
<1>1. present_done \in [alive -> [Indices -> BOOLEAN]]
    BY DEF TypeOK
<1> QED BY <1>1 DEF Destroyed, alive

(* The oldest generation leaves the ring and life together.                *)
LEMMA ProcessEffect ==
    ASSUME IInv, ProcessGarbage, ring_buff_peek(garbage),
           garbage' = ring_buff_pop(garbage), present_done' = Destroyed({Oldest(garbage)})
    PROVE  /\ garbage' \in Ring(Generations \cup {None}) /\ RingInv'
           /\ alive' = alive \ {Oldest(garbage)} /\ swapchain \in alive'
<1>1. /\ garbage \in Ring(Generations \cup {None}) /\ Count(garbage) \in Nat
      /\ DOMAIN Retired = 1 .. Count(garbage)
    BY RingTypes DEF IInv
<1>2. /\ ring_buff_pop(garbage) \in Ring(Generations \cup {None})
      /\ MayPush(ring_buff_pop(garbage))
      /\ Count(garbage) >= 1 /\ Count(ring_buff_pop(garbage)) = Count(garbage) - 1
      /\ Oldest(garbage) = Retired[1]
      /\ \A i \in 1 .. Count(garbage) - 1 : Contents(ring_buff_pop(garbage))[i] = Retired[i + 1]
    BY <1>1, RingPopped DEF Retired
<1>3. /\ MayPush(garbage)' /\ Count(garbage)' = Count(garbage) - 1
      /\ \A i \in 1 .. Count(garbage) - 1 : Retired'[i] = Retired[i + 1]
    BY <1>2 DEF Retired
<1>4. DOMAIN Retired' = 1 .. Count(garbage) - 1
    BY <1>2, <1>3, RingContents DEF Retired
<1>5. /\ \A j, k \in DOMAIN Retired : j # k => Retired[j] # Retired[k]
      /\ alive = Range(Retired) \cup {swapchain} /\ swapchain \notin Range(Retired)
    BY DEF IInv, RingInv, GarbageAccounted, ProcessGarbage
<1>6. \A i \in 1 .. Count(garbage) - 1 : i + 1 \in 1 .. Count(garbage) /\ i + 1 # 1
    BY <1>1
<1>7. \A j, k \in DOMAIN Retired' : j # k => Retired'[j] # Retired'[k]
    BY <1>1, <1>3, <1>4, <1>5, <1>6
<1>8. Range(Retired') = Range(Retired) \ {Retired[1]}
  <2>1. ASSUME NEW g \in Range(Retired') PROVE g \in Range(Retired) \ {Retired[1]}
    <3>1. PICK i \in 1 .. Count(garbage) - 1 : g = Retired'[i]
        BY <1>4, <2>1 DEF Range
    <3>2. g = Retired[i + 1] /\ i + 1 \in DOMAIN Retired /\ 1 \in DOMAIN Retired
        BY <1>1, <1>2, <1>3, <1>6, <3>1
    <3> QED BY <1>5, <1>6, <3>2 DEF Range
  <2>2. ASSUME NEW g \in Range(Retired), g # Retired[1] PROVE g \in Range(Retired')
    <3>1. PICK k \in 1 .. Count(garbage) : g = Retired[k]
        BY <1>1, <2>2 DEF Range
    <3>2. k - 1 \in 1 .. Count(garbage) - 1 /\ (k - 1) + 1 = k
        BY <1>1, <2>2, <3>1
    <3> QED BY <1>3, <1>4, <3>1, <3>2 DEF Range
  <2> QED BY <2>1, <2>2
<1>9. Retired[1] \in Range(Retired)
    BY <1>1, <1>2 DEF Range
<1>10. alive' = alive \ {Retired[1]}
    BY <1>2, DestroyedEffect DEF IInv
<1>11. swapchain' = swapchain
    BY DEF ProcessGarbage, cpu
<1>12. alive' = Range(Retired') \cup {swapchain'} /\ swapchain' \notin Range(Retired')
    BY <1>5, <1>8, <1>9, <1>10, <1>11
<1> QED BY <1>2, <1>3, <1>5, <1>7, <1>9, <1>10, <1>12 DEF RingInv, GarbageAccounted

(* Everything in the ring is destroyed.                                    *)
LEMMA EmptyEffect ==
    ASSUME IInv, NEW caller, NEW next, EmptyGarbage(caller, next), pc # "done"
    PROVE  garbage' \in Ring(Generations \cup {None}) /\ RingInv' /\ swapchain \in alive'
<1>1. /\ garbage \in Ring(Generations \cup {None})
      /\ garbage' = [garbage EXCEPT !.data = [i \in DOMAIN @ |-> None], !.read = garbage.write]
      /\ present_done' = Destroyed(Range(Retired)) /\ swapchain' = swapchain
    BY RingTypes DEF IInv, EmptyGarbage, cpu
<1>2. /\ garbage' \in Ring(Generations \cup {None}) /\ garbage'.read = garbage'.write
      /\ garbage'.write \in 0 .. Cap - 1
    BY <1>1 DEF Ring
<1>3. Count(garbage)' = 0
    BY <1>2, RingContents, CapIsNat
<1>4. DOMAIN Retired' = {}
    BY <1>2, <1>3, RingContents DEF Retired
<1>5. Range(Retired') = {}
    BY <1>4 DEF Range
<1>6. alive = Range(Retired) \cup {swapchain} /\ swapchain \notin Range(Retired)
    BY DEF IInv, RingInv, GarbageAccounted
<1>7. alive' = {swapchain}
    BY <1>1, <1>6, DestroyedEffect DEF IInv
<1>8. MayPush(garbage')
  <2>1. mod(garbage', garbage'.write + 1) = IF garbage'.write + 1 = Cap THEN 0 ELSE garbage'.write + 1
      BY <1>2, NextIndex
  <2> QED BY <1>2, <2>1, CapIsNat DEF MayPush
<1> QED BY <1>1, <1>2, <1>4, <1>5, <1>7, <1>8 DEF RingInv, GarbageAccounted
-----------------------------------------------------------------------------
(* Every step keeps the invariant. *)

(* Steps of the thread that touch neither the device nor the ring. *)
LEMMA ThreadStep ==
    ASSUME IInv, UNCHANGED <<garbage, fences, gpu, swapchain, image_idx>>,
           pc' \in Stages, window' \in Sizes, extent' \in Sizes,
           resized' \in BOOLEAN, request_close' \in BOOLEAN, frame_count' \in 0 .. Wrap - 1,
           SizeInv',
           Draining => pc' = pc,
           pc \in {"done", "exited"} \/ pc' \in {"draw", "present", "cleanup_target", "done"}
               => pc' = pc,
           pc \in {"draw", "present"} => pc' \in {pc, "exited"},
           frame_idx' = frame_idx \/ pc' \notin {"acquire", "draw"},
           pc' = "acquire" => render_finish[frame_idx]
    PROVE  IInv'
<1>1. UNCHANGED <<garbage, render_finish, present_done, submits, presents, owner, swapchain, image_idx>>
    BY DEF fences, gpu
<1>2. TypeOK'
    BY <1>1, Zenon DEF IInv, TypeOK, alive
<1>3. RingInv'
    BY <1>1 DEF IInv, RingInv, GarbageAccounted, Draining, Retired, alive
<1>4. SlotsInv'
  <2>1. /\ \A j, k \in DOMAIN submits : j # k => submits[j].frame # submits[k].frame
        /\ pc = "draw" => \A k \in DOMAIN submits : submits[k].frame # frame_idx
        /\ pc # "exited" => \A f \in Indices :
              ~render_finish[f] <=> \/ \E k \in DOMAIN submits : submits[k].frame = f
                                    \/ pc = "draw" /\ frame_idx = f
      BY DEF IInv, SlotsInv, FencesWillOpen
  <2>2. pc' = "acquire" => render_finish'[frame_idx']
      BY <1>1
  <2>3. pc' = "draw" => \A k \in DOMAIN submits' : submits'[k].frame # frame_idx'
      BY <1>1, <2>1
  <2>4. FencesWillOpen'
    <3>1. pc' # "exited" => pc # "exited" /\ \A f \in Indices :
             (pc' = "draw" /\ frame_idx' = f) <=> (pc = "draw" /\ frame_idx = f)
        OBVIOUS
    <3>2. pc' # "exited" => \A f \in Indices :
             ~render_finish'[f] <=> \/ \E k \in DOMAIN submits' : submits'[k].frame = f
                                    \/ pc' = "draw" /\ frame_idx' = f
        BY <1>1, <2>1, <3>1
    <3> QED BY <3>2 DEF FencesWillOpen
  <2> QED BY <1>1, <2>1, <2>2, <2>3, <2>4 DEF SlotsInv
<1>5. PresentsInv'
    BY <1>1 DEF IInv, PresentsInv, Pair, Queued, Shown, alive
<1>6. LiveInv'
    BY <1>1 DEF IInv, LiveInv, GpuUsesLiveObjects, alive
<1> QED BY <1>2, <1>3, <1>4, <1>5, <1>6 DEF IInv

LEMMA AcquireStep == ASSUME IInv, AcquireImage PROVE IInv'
<1>1. PICK i \in Indices :
         owner[i] = "free" /\ image_idx' = i /\ owner' = [owner EXCEPT ![i] = "app"]
    BY DEF AcquireImage
<1>2. /\ pc = "acquire" /\ pc' = "draw"
      /\ render_finish' = [render_finish EXCEPT ![frame_idx] = FALSE]
      /\ UNCHANGED <<window, extent, resized, request_close, frame_count, swapchain, garbage,
                     present_done, submits, presents>>
    BY DEF AcquireImage
<1>3. frame_idx' = frame_idx /\ frame_idx \in Indices
    BY <1>2, IndexTypes DEF frame_idx, IInv
<1>4. render_finish \in [Indices -> BOOLEAN] /\ owner \in [Indices -> {"free", "app", "queued", "shown"}]
    BY DEF IInv, TypeOK
<1>5. TypeOK'
  <2>1. /\ render_finish' \in [Indices -> BOOLEAN] /\ image_idx' \in Indices
        /\ owner' \in [Indices -> {"free", "app", "queued", "shown"}]
        /\ pc' \in Stages
      BY <1>1, <1>2, <1>3, <1>4 DEF Stages
  <2> QED BY <1>2, <2>1, Zenon DEF IInv, TypeOK, alive
<1>6. RingInv'
    BY <1>2 DEF IInv, RingInv, GarbageAccounted, Draining, Retired, alive
<1>7. \A k \in DOMAIN submits : submits[k].frame # frame_idx
    BY <1>2, <1>3 DEF IInv, SlotsInv, FencesWillOpen
<1>8. SlotsInv'
  <2>1. \A f \in Indices : ~render_finish'[f] <=> ~render_finish[f] \/ f = frame_idx
      BY <1>2, <1>4
  <2>2. \A f \in Indices : ~render_finish[f] <=> \E k \in DOMAIN submits : submits[k].frame = f
      BY <1>2 DEF IInv, SlotsInv, FencesWillOpen
  <2>3. \A f \in Indices : ~render_finish'[f] <=> \/ \E k \in DOMAIN submits' : submits'[k].frame = f
                                                  \/ pc' = "draw" /\ frame_idx' = f
      BY <1>2, <1>3, <2>1, <2>2
  <2> QED BY <1>2, <1>3, <1>7, <2>3 DEF IInv, SlotsInv, FencesWillOpen
<1>9. PresentsInv'
  <2>1. \A j \in DOMAIN presents : presents[j].gen = swapchain => presents[j].image # i
      BY <1>1 DEF IInv, PresentsInv
  <2>2. \A j \in DOMAIN presents' :
           presents'[j].gen = swapchain' => owner'[presents'[j].image] = "queued"
      BY <1>1, <1>2, <1>4, <2>1, QueueTypes DEF IInv, PresentsInv
  <2>3. \A k \in DOMAIN presents' : presents'[k] # Shown'
      BY <1>1, <1>2, <2>1 DEF Shown
  <2>4. \A k \in DOMAIN submits' : Queued(Pair(submits'[k]), presents')
      BY <1>2 DEF IInv, PresentsInv, Queued, Pair
  <2>5. /\ \A j, k \in DOMAIN submits' : j # k => Pair(submits'[j]) # Pair(submits'[k])
        /\ \A j \in DOMAIN presents' :
              presents'[j].gen \in alive' => ~present_done'[presents'[j].gen][presents'[j].image]
        /\ \A j, k \in DOMAIN presents' : j # k => presents'[j] # presents'[k]
      BY <1>2 DEF IInv, PresentsInv, Pair, alive
  <2> QED BY <2>2, <2>3, <2>4, <2>5 DEF PresentsInv
<1>10. LiveInv' /\ SizeInv'
    BY <1>2 DEF IInv, LiveInv, GpuUsesLiveObjects, SizeInv, alive, Draining
<1> QED BY <1>5, <1>6, <1>8, <1>9, <1>10 DEF IInv

LEMMA SubmitStep == ASSUME IInv, Submit PROVE IInv'
<1>1. /\ pc = "draw" /\ pc' = "present" /\ submits' = Append(submits, Frame)
      /\ UNCHANGED <<window, extent, resized, request_close, frame_count, image_idx, swapchain,
                     garbage, render_finish, present_done, presents, owner>>
    BY DEF Submit, cpu, fences
<1>2. /\ frame_idx' = frame_idx /\ Shown' = Shown
      /\ Frame \in Submission /\ Frame.gen = swapchain /\ Frame.frame = frame_idx
      /\ [gen |-> Frame.gen, image |-> Frame.image] = Shown
    BY <1>1, IndexTypes DEF frame_idx, Frame, Shown, Submission, IInv, TypeOK
<1> DEFINE n == Len(submits)
<1>3. n \in Nat /\ DOMAIN submits = 1 .. n /\ submits \in Seq(Submission)
    BY QueueTypes DEF IInv
<1> HIDE DEF n
<1>4. /\ submits' \in Seq(Submission) /\ DOMAIN submits' = 1 .. n + 1
      /\ \A k \in 1 .. n : submits'[k] = submits[k]
      /\ submits'[n + 1] = Frame
    BY <1>1, <1>2, <1>3, AppendIsSeq DEF n
<1>5. /\ \A k \in 1 .. n : Pair(submits'[k]) = Pair(submits[k])
      /\ Pair(submits'[n + 1]) = Shown
      /\ \A k : k \in 1 .. n + 1 <=> k \in 1 .. n \/ k = n + 1
    BY <1>2, <1>3, <1>4 DEF Pair
<1>6. TypeOK'
  <2>1. submits' \in Seq([gen : Generations, frame : Indices, image : Indices]) /\ pc' \in Stages
      BY <1>1, <1>4 DEF Submission, Stages
  <2> QED BY <1>1, <2>1, Zenon DEF IInv, TypeOK, alive
<1>7. RingInv'
    BY <1>1 DEF IInv, RingInv, GarbageAccounted, Draining, Retired, alive
<1>8. SlotsInv'
  <2>1. /\ \A j, k \in 1 .. n : j # k => submits[j].frame # submits[k].frame
        /\ \A k \in 1 .. n : submits[k].frame # frame_idx
        /\ \A f \in Indices : ~render_finish[f] <=> \/ \E k \in 1 .. n : submits[k].frame = f
                                                    \/ frame_idx = f
      BY <1>1, <1>3 DEF IInv, SlotsInv, FencesWillOpen
  <2>2. \A j, k \in 1 .. n + 1 : j # k => submits'[j].frame # submits'[k].frame
      BY <1>2, <1>4, <1>5, <2>1
  <2>3. \A f \in Indices : ~render_finish'[f] <=> \E k \in 1 .. n + 1 : submits'[k].frame = f
      BY <1>1, <1>2, <1>4, <1>5, <2>1
  <2>4. FencesWillOpen'
    <3>1. pc' = "present" /\ DOMAIN submits' = 1 .. n + 1
        BY <1>1, <1>4
    <3> QED BY <2>3, <3>1, Zenon DEF FencesWillOpen
  <2>5. pc' \notin {"acquire", "draw"}
      BY <1>1
  <2> QED BY <1>4, <2>2, <2>4, <2>5, Zenon DEF SlotsInv
<1>9. PresentsInv'
  <2>1. /\ \A k \in 1 .. n : Queued(Pair(submits[k]), presents)
        /\ \A j, k \in 1 .. n : j # k => Pair(submits[j]) # Pair(submits[k])
        /\ \A k \in DOMAIN presents : presents[k] # Shown
      BY <1>1, <1>3 DEF IInv, PresentsInv
  <2>2. \A k \in 1 .. n : Queued(Pair(submits'[k]), presents')
      BY <1>1, <1>5, <2>1 DEF Queued
  <2>3. \A k \in 1 .. n : Pair(submits[k]) # Shown
      BY <2>1 DEF Queued
  <2>4. \A j, k \in 1 .. n + 1 : j # k => Pair(submits'[j]) # Pair(submits'[k])
      BY <1>5, <2>1, <2>3
  <2>5. \A k \in 1 .. n + 1 : \/ Queued(Pair(submits'[k]), presents')
                              \/ pc' \in {"present", "exited"} /\ Pair(submits'[k]) = Shown'
      BY <1>1, <1>2, <1>5, <2>2
  <2>6. /\ \A j \in DOMAIN presents' :
              presents'[j].gen \in alive' => ~present_done'[presents'[j].gen][presents'[j].image]
        /\ \A j \in DOMAIN presents' :
              presents'[j].gen = swapchain' => owner'[presents'[j].image] = "queued"
        /\ \A j, k \in DOMAIN presents' : j # k => presents'[j] # presents'[k]
      BY <1>1 DEF IInv, PresentsInv, alive
  <2>7. DOMAIN submits' = 1 .. n + 1 /\ pc' = "present"
      BY <1>1, <1>4
  <2>8. \A k \in DOMAIN presents' : presents'[k] # Shown'
      BY <1>1, <1>2, <2>1
  <2>9. /\ \A k \in DOMAIN submits' : \/ Queued(Pair(submits'[k]), presents')
                                      \/ pc' \in {"present", "exited"} /\ Pair(submits'[k]) = Shown'
        /\ \A j, k \in DOMAIN submits' : j # k => Pair(submits'[j]) # Pair(submits'[k])
      BY <2>4, <2>5, <2>7, Zenon
  <2> QED BY <2>6, <2>7, <2>8, <2>9, Zenon DEF PresentsInv
<1>10. LiveInv'
  <2>1. swapchain \in alive
      BY <1>1 DEF IInv, RingInv, GarbageAccounted
  <2>2. \A k \in 1 .. n + 1 : submits'[k].gen \in alive'
    <3>1. \A k \in 1 .. n : submits[k].gen \in alive
        BY <1>3 DEF IInv, LiveInv, GpuUsesLiveObjects
    <3> QED BY <1>1, <1>2, <1>4, <1>5, <2>1, <3>1 DEF alive
  <2> QED BY <1>1, <1>4, <2>2 DEF LiveInv, GpuUsesLiveObjects
<1>11. SizeInv'
    BY <1>1 DEF IInv, SizeInv, Draining
<1> QED BY <1>6, <1>7, <1>8, <1>9, <1>10, <1>11 DEF IInv

LEMMA PresentStep == ASSUME IInv, Present PROVE IInv'
<1>1. /\ pc = "present" /\ pc' \in {"presented", "outdated"}
      /\ present_done' = [present_done EXCEPT ![swapchain][image_idx] = FALSE]
      /\ presents' = Append(presents, Shown)
      /\ owner' = [owner EXCEPT ![image_idx] = "queued"]
      /\ UNCHANGED <<window, extent, resized, request_close, frame_count, image_idx, swapchain,
                     garbage, render_finish, submits>>
    BY DEF Present, cpu
<1>2. swapchain \in alive
    BY <1>1 DEF IInv, RingInv, GarbageAccounted
<1>3. /\ present_done \in [alive -> [Indices -> BOOLEAN]] /\ image_idx \in Indices
      /\ owner \in [Indices -> {"free", "app", "queued", "shown"}] /\ swapchain \in Generations
    BY DEF IInv, TypeOK
<1>4. Shown \in Presentation /\ Shown.gen = swapchain /\ Shown.image = image_idx /\ Shown' = Shown
    BY <1>1, <1>3 DEF Shown, Presentation
<1>5. /\ alive' = alive /\ present_done' \in [alive -> [Indices -> BOOLEAN]]
      /\ \A g \in alive, i \in Indices :
            present_done'[g][i] <=> present_done[g][i] /\ ~(g = swapchain /\ i = image_idx)
  <2>1. /\ alive' = alive /\ present_done' \in [alive -> [Indices -> BOOLEAN]]
        /\ \A g \in alive, i \in Indices :
              present_done'[g][i] = IF g = swapchain /\ i = image_idx THEN FALSE ELSE present_done[g][i]
      BY <1>1, <1>2, <1>3 DEF alive
  <2> QED BY <2>1
<1> DEFINE n == Len(presents)
<1>6. n \in Nat /\ DOMAIN presents = 1 .. n /\ presents \in Seq(Presentation)
    BY QueueTypes DEF IInv
<1> HIDE DEF n
<1>7. /\ presents' \in Seq(Presentation) /\ DOMAIN presents' = 1 .. n + 1
      /\ \A k \in 1 .. n : presents'[k] = presents[k]
      /\ presents'[n + 1] = Shown
    BY <1>1, <1>4, <1>6, AppendIsSeq DEF n
<1>8. \A k : k \in 1 .. n + 1 <=> k \in 1 .. n \/ k = n + 1
    BY <1>6
<1>9. TypeOK'
  <2>1. /\ presents' \in Seq([gen : Generations, image : Indices]) /\ pc' \in Stages
        /\ owner' \in [Indices -> {"free", "app", "queued", "shown"}]
      BY <1>1, <1>3, <1>7 DEF Presentation, Stages
  <2>2. present_done' \in [alive' -> [Indices -> BOOLEAN]]
      BY <1>5
  <2>3. alive' \subseteq Generations
      BY <1>5 DEF IInv, TypeOK
  <2> QED BY <1>1, <2>1, <2>2, <2>3, Zenon DEF IInv, TypeOK
<1>10. RingInv'
    BY <1>1, <1>5 DEF IInv, RingInv, GarbageAccounted, Draining, Retired
<1>11. SlotsInv'
    BY <1>1 DEF IInv, SlotsInv, FencesWillOpen
<1>12. PresentsInv'
  <2>1. /\ \A k \in DOMAIN submits : Queued(Pair(submits[k]), presents) \/ Pair(submits[k]) = Shown
        /\ \A j, k \in DOMAIN submits : j # k => Pair(submits[j]) # Pair(submits[k])
        /\ \A j \in 1 .. n :
              presents[j].gen \in alive => ~present_done[presents[j].gen][presents[j].image]
        /\ \A j \in 1 .. n : presents[j].gen = swapchain => owner[presents[j].image] = "queued"
        /\ \A j, k \in 1 .. n : j # k => presents[j] # presents[k]
        /\ \A k \in 1 .. n : presents[k] # Shown
        /\ \A k \in 1 .. n : presents[k].image \in Indices
      BY <1>1, <1>6, QueueTypes DEF IInv, PresentsInv
  <2>2. \A k \in DOMAIN submits' : Queued(Pair(submits'[k]), presents')
    <3> SUFFICES ASSUME NEW k \in DOMAIN submits
                 PROVE  \E j \in 1 .. n + 1 : presents'[j] = Pair(submits[k])
        BY <1>1, <1>7 DEF Queued
    <3>1. CASE Pair(submits[k]) = Shown
        BY <1>7, <1>8, <3>1
    <3>2. CASE Queued(Pair(submits[k]), presents)
        BY <1>6, <1>7, <1>8, <3>2 DEF Queued
    <3> QED BY <2>1, <3>1, <3>2
  <2>3. \A j \in 1 .. n + 1 :
           presents'[j].gen \in alive' => ~present_done'[presents'[j].gen][presents'[j].image]
      BY <1>2, <1>3, <1>4, <1>5, <1>7, <1>8, <2>1
  <2>4. \A j \in 1 .. n + 1 : presents'[j].gen = swapchain' => owner'[presents'[j].image] = "queued"
    <3>1. \A i \in Indices : owner[i] = "queued" \/ i = image_idx => owner'[i] = "queued"
        BY <1>1, <1>3
    <3>2. owner'[presents'[n + 1].image] = "queued"
        BY <1>3, <1>4, <1>7, <3>1
    <3>3. \A j \in 1 .. n : presents'[j].gen = swapchain' => owner'[presents'[j].image] = "queued"
        BY <1>1, <1>7, <2>1, <3>1
    <3> QED BY <1>8, <3>2, <3>3
  <2>5. \A j, k \in 1 .. n + 1 : j # k => presents'[j] # presents'[k]
      BY <1>7, <1>8, <2>1
  <2> QED BY <1>1, <1>7, <2>1, <2>2, <2>3, <2>4, <2>5 DEF PresentsInv
<1>13. LiveInv' /\ SizeInv'
    BY <1>1, <1>5 DEF IInv, LiveInv, GpuUsesLiveObjects, SizeInv, Draining
<1> QED BY <1>9, <1>10, <1>11, <1>12, <1>13 DEF IInv

LEMMA RecreateStep ==
    ASSUME IInv, NEW full, NEW next, Recreate(full, next),
           pc \in {"acquire", "presented", "outdated"},
           full \in {"drain_start", "drain_end"}, next \in {"poll", "frame_end"},
           UNCHANGED <<window, request_close, frame_count, image_idx, render_finish, submits, presents>>
    PROVE  IInv'
<1>1. /\ extent' = window /\ resized' = FALSE /\ pc' \in {full, next} /\ owner' = AllFree
    BY DEF Recreate
<1>2. PICK new \in Generations :
         /\ new \notin alive /\ swapchain' = new
         /\ \A k \in DOMAIN presents : presents[k].gen # new
         /\ alive' = alive \cup {new}
         /\ present_done' \in [alive' -> [Indices -> BOOLEAN]]
         /\ \A g \in alive : present_done'[g] = present_done[g]
         /\ garbage' \in Ring(Generations \cup {None})
         /\ RingInv'
    BY RecreateEffect DEF Draining
<1>3. pc' \in {"drain_start", "drain_end", "poll", "frame_end"}
    BY <1>1
<1>4. TypeOK'
  <2>1. pc' \in Stages /\ extent' \in Sizes /\ resized' \in BOOLEAN
      BY <1>1, <1>3 DEF Stages, IInv, TypeOK
  <2>2. swapchain' \in Generations /\ alive' \subseteq Generations
      BY <1>2 DEF IInv, TypeOK
  <2>3. owner' \in [Indices -> {"free", "app", "queued", "shown"}]
      BY <1>1, IndexTypes DEF IInv
  <2>4. garbage' \in Ring(Generations \cup {None}) /\ present_done' \in [alive' -> [Indices -> BOOLEAN]]
      BY <1>2
  <2> QED BY <2>1, <2>2, <2>3, <2>4, Zenon DEF IInv, TypeOK, Ring, Cap
<1>5. SlotsInv'
    BY <1>3 DEF IInv, SlotsInv, FencesWillOpen
<1>6. PresentsInv'
  <2>1. \A k \in DOMAIN submits' : Queued(Pair(submits'[k]), presents')
      BY DEF IInv, PresentsInv
  <2>2. \A j \in DOMAIN presents' :
           presents'[j].gen \in alive' => ~present_done'[presents'[j].gen][presents'[j].image]
      BY <1>2 DEF IInv, PresentsInv
  <2>3. \A j \in DOMAIN presents' : presents'[j].gen # swapchain'
      BY <1>2
  <2> QED BY <1>3, <2>1, <2>2, <2>3 DEF IInv, PresentsInv
<1>7. LiveInv'
    BY <1>2, <1>3 DEF IInv, LiveInv, GpuUsesLiveObjects
<1>8. SizeInv'
    BY <1>1 DEF SizeInv
<1> QED BY <1>2, <1>4, <1>5, <1>6, <1>7, <1>8 DEF IInv

(* Generations that no submission uses leave.                              *)
LEMMA DestroyedStep ==
    ASSUME IInv, NEW gs, present_done' = Destroyed(gs),
           UNCHANGED <<cpu, render_finish, gpu>>,
           pc \notin {"acquire", "draw", "present", "done", "exited"}, pc' \in Stages,
           pc' \notin {"acquire", "draw", "present", "exited"},
           \A k \in DOMAIN submits : submits[k].gen \notin gs,
           pc' \in {"cleanup_target", "done"} => submits = << >>,
           pc' \in {"poll", "frame_end"} \/ Draining' => ~resized,
           garbage' \in Ring(Generations \cup {None}), RingInv'
    PROVE  IInv'
<1>1. UNCHANGED <<window, extent, resized, request_close, frame_count, image_idx, swapchain,
                  render_finish, submits, presents, owner>>
    BY DEF cpu, gpu
<1>2. /\ alive' = alive \ gs /\ present_done' \in [alive' -> [Indices -> BOOLEAN]]
      /\ \A g \in alive' : present_done'[g] = present_done[g]
    BY DestroyedEffect DEF IInv
<1>3. TypeOK'
  <2>1. alive' \subseteq Generations
      BY <1>2 DEF IInv, TypeOK
  <2> QED BY <1>1, <1>2, <2>1, Zenon DEF IInv, TypeOK, Ring, Cap
<1>4. SlotsInv'
    BY <1>1 DEF IInv, SlotsInv, FencesWillOpen
<1>5. PresentsInv'
  <2>1. \A j \in DOMAIN presents' :
           presents'[j].gen \in alive' => ~present_done'[presents'[j].gen][presents'[j].image]
      BY <1>1, <1>2 DEF IInv, PresentsInv
  <2> QED BY <1>1, <2>1 DEF IInv, PresentsInv
<1>6. LiveInv'
    BY <1>1, <1>2 DEF IInv, LiveInv, GpuUsesLiveObjects
<1>7. SizeInv'
    BY <1>1 DEF IInv, SizeInv, Draining
<1> QED BY <1>3, <1>4, <1>5, <1>6, <1>7 DEF IInv

(* A generation whose fences are all open has no present that waits, and   *)
(* with it no submission.                                                  *)
LEMMA ReadyIsUnused ==
    ASSUME IInv, pc = "presented", NEW g \in alive, check_dispose_ready(g)
    PROVE  /\ \A k \in DOMAIN presents : presents[k].gen # g
           /\ \A k \in DOMAIN submits : submits[k].gen # g
<1>1. \A k \in DOMAIN presents : presents[k].gen # g
    BY QueueTypes DEF IInv, PresentsInv, check_dispose_ready
<1>2. \A k \in DOMAIN submits : submits[k].gen # g
  <2> SUFFICES ASSUME NEW k \in DOMAIN submits PROVE submits[k].gen # g
      OBVIOUS
  <2>1. PICK j \in DOMAIN presents : presents[j] = Pair(submits[k])
      BY DEF IInv, PresentsInv, Queued
  <2> QED BY <1>1, <2>1 DEF Pair
<1> QED BY <1>1, <1>2

LEMMA ProcessStep == ASSUME IInv, ProcessGarbage PROVE IInv'
<1>1. /\ pc = "presented" /\ ~resized /\ pc' = "frame_end" /\ pc' \in Stages
      /\ UNCHANGED <<cpu, render_finish, gpu>>
    BY DEF ProcessGarbage, Stages
<1>2. CASE ring_buff_peek(garbage) /\ check_dispose_ready(Oldest(garbage))
  <2>1. garbage' = ring_buff_pop(garbage) /\ present_done' = Destroyed({Oldest(garbage)})
      BY <1>2 DEF ProcessGarbage
  <2>2. garbage' \in Ring(Generations \cup {None}) /\ RingInv'
      BY <1>2, <2>1, ProcessEffect
  <2>3. \A k \in DOMAIN submits : submits[k].gen \notin {Oldest(garbage)}
      BY <1>1, <1>2, ReadyIsUnused DEF IInv, LiveInv, GpuUsesLiveObjects
  <2> QED BY <1>1, <2>1, <2>2, <2>3, DestroyedStep
<1>3. CASE UNCHANGED <<garbage, present_done>>
  <2>1. SizeInv'
      BY <1>1 DEF SizeInv, IInv, cpu
  <2> QED BY <1>1, <1>3, <2>1, ThreadStep DEF cpu, fences, IInv, TypeOK, Draining, frame_idx
<1> QED BY <1>2, <1>3 DEF ProcessGarbage

LEMMA EmptyStep ==
    ASSUME IInv, NEW caller, NEW next, EmptyGarbage(caller, next),
           <<caller, next>> \in {<<"drain_start", "poll">>, <<"drain_end", "frame_end">>,
                                 <<"cleanup", "cleanup_target">>}
    PROVE  IInv'
<1>1. /\ pc = caller /\ pc' = next /\ submits = << >> /\ present_done' = Destroyed(Range(Retired))
      /\ UNCHANGED <<cpu, render_finish, gpu>>
    BY DEF EmptyGarbage
<1>2. /\ caller \in {"drain_start", "drain_end", "cleanup"}
      /\ next \in {"poll", "frame_end", "cleanup_target"}
      /\ caller = "cleanup" => next = "cleanup_target"
    OBVIOUS
<1>3. garbage' \in Ring(Generations \cup {None}) /\ RingInv'
    BY <1>1, <1>2, EmptyEffect
<1>4. \A k \in DOMAIN submits : submits[k].gen \notin Range(Retired)
    BY <1>1
<1>5. pc' \in {"poll", "frame_end"} \/ Draining' => ~resized
    BY <1>1, <1>2 DEF IInv, SizeInv, Draining
<1> QED BY <1>1, <1>2, <1>3, <1>4, <1>5, DestroyedStep DEF Stages

LEMMA CleanupTargetStep == ASSUME IInv, CleanupRenderTarget PROVE IInv'
<1>1. /\ pc = "cleanup_target" /\ pc' = "done" /\ present_done' = Destroyed({swapchain})
      /\ garbage' = garbage /\ submits = << >>
      /\ UNCHANGED <<cpu, render_finish, gpu>>
    BY DEF CleanupRenderTarget, IInv, LiveInv
<1>2. RingInv'
    BY <1>1 DEF IInv, RingInv, GarbageAccounted, Draining, Retired
<1>3. garbage' \in Ring(Generations \cup {None})
    BY <1>1, RingTypes DEF IInv
<1> QED BY SMTT(30), <1>1, <1>2, <1>3, DestroyedStep DEF Stages, Draining

(* The queue completes a submission: its slot's fence opens.               *)
LEMMA GpuFinishStep == ASSUME IInv, GpuFinish PROVE IInv'
<1>1. /\ pc # "exited" /\ submits # << >> /\ submits' = Tail(submits)
      /\ render_finish' = [render_finish EXCEPT ![Head(submits).frame] = TRUE]
      /\ UNCHANGED <<pc, window, extent, resized, request_close, frame_count, image_idx, swapchain,
                     garbage, present_done, presents, owner>>
    BY DEF GpuFinish, cpu
<1> DEFINE n == Len(submits)
           h == submits[1].frame
<1>2. /\ n \in Nat /\ DOMAIN submits = 1 .. n /\ submits \in Seq(Submission)
      /\ n >= 1 /\ 1 \in 1 .. n
      /\ submits' \in Seq(Submission) /\ DOMAIN submits' = 1 .. n - 1
      /\ \A k \in 1 .. n - 1 : submits'[k] = submits[k + 1] /\ k + 1 \in 1 .. n
      /\ Head(submits).frame = h
  <2>1. submits \in Seq(Submission) /\ DOMAIN submits = 1 .. n /\ n \in Nat
      BY QueueTypes DEF IInv
  <2>2. /\ Tail(submits) \in Seq(Submission) /\ n >= 1
        /\ DOMAIN Tail(submits) = 1 .. n - 1
        /\ \A k \in 1 .. n - 1 : Tail(submits)[k] = submits[k + 1]
        /\ Head(submits) = submits[1]
      BY <1>1, <2>1, TailIsSeq
  <2>3. 1 \in 1 .. n /\ \A k \in 1 .. n - 1 : k + 1 \in 1 .. n
      BY <2>1, <2>2
  <2> QED BY <1>1, <2>1, <2>2, <2>3
<1> HIDE DEF n
<1>3. h \in Indices /\ render_finish \in [Indices -> BOOLEAN]
    BY <1>2, QueueTypes DEF IInv, TypeOK
<1> HIDE DEF h
<1>4. /\ render_finish' \in [Indices -> BOOLEAN]
      /\ \A f \in Indices : render_finish'[f] = IF f = h THEN TRUE ELSE render_finish[f]
    BY <1>1, <1>2, <1>3
<1>5. frame_idx' = frame_idx /\ frame_idx \in Indices
    BY <1>1, IndexTypes DEF frame_idx, IInv
<1>6. TypeOK'
  <2>1. submits' \in Seq([gen : Generations, frame : Indices, image : Indices])
      BY <1>2 DEF Submission
  <2> QED BY <1>1, <1>4, <2>1, Zenon DEF IInv, TypeOK, alive
<1>7. RingInv'
    BY <1>1 DEF IInv, RingInv, GarbageAccounted, Draining, Retired, alive
<1>8. SlotsInv'
  <2>1. /\ \A j, k \in 1 .. n : j # k => submits[j].frame # submits[k].frame
        /\ pc = "acquire" => render_finish[frame_idx]
        /\ pc = "draw" => \A k \in 1 .. n : submits[k].frame # frame_idx
        /\ \A f \in Indices : ~render_finish[f] <=> \/ \E k \in 1 .. n : submits[k].frame = f
                                                    \/ pc = "draw" /\ frame_idx = f
      BY <1>1, <1>2 DEF IInv, SlotsInv, FencesWillOpen
  <2>2. \A j, k \in 1 .. n - 1 : j # k => submits'[j].frame # submits'[k].frame
    <3>1. \A j, k \in 1 .. n - 1 : j # k => j + 1 # k + 1
        BY <1>2
    <3> QED BY <1>2, <2>1, <3>1
  <2>3. pc' = "acquire" => render_finish'[frame_idx']
      BY <1>1, <1>4, <1>5, <2>1
  <2>4. pc' = "draw" => \A k \in 1 .. n - 1 : submits'[k].frame # frame_idx'
      BY <1>1, <1>2, <1>5, <2>1
  <2>5. \A k \in 1 .. n - 1 : submits'[k].frame # h
    <3>1. \A k \in 1 .. n - 1 : k + 1 # 1
        BY <1>2
    <3> QED BY <1>2, <2>1, <3>1 DEF h
  <2>6. \A f \in Indices : (\E k \in 1 .. n - 1 : submits'[k].frame = f)
                              <=> f # h /\ \E k \in 1 .. n : submits[k].frame = f
    <3> SUFFICES ASSUME NEW f \in Indices, NEW k \in 1 .. n, f # h, submits[k].frame = f
                 PROVE  \E j \in 1 .. n - 1 : submits'[j].frame = f
        BY <1>2, <2>5
    <3>1. k - 1 \in 1 .. n - 1 /\ (k - 1) + 1 = k
        BY <1>2 DEF h
    <3> QED BY <1>2, <3>1
  <2>7. pc = "draw" => h # frame_idx
      BY <1>2, <2>1 DEF h
  <2>8. \A f \in Indices : ~render_finish'[f] <=> \/ \E k \in 1 .. n - 1 : submits'[k].frame = f
                                                  \/ pc' = "draw" /\ frame_idx' = f
      BY <1>1, <1>4, <1>5, <2>1, <2>6, <2>7
  <2> QED BY <1>2, <2>2, <2>3, <2>4, <2>8 DEF SlotsInv, FencesWillOpen
<1>9. PresentsInv'
  <2>1. \A k \in 1 .. n : Queued(Pair(submits[k]), presents)
                             \/ (pc \in {"present", "exited"} /\ Pair(submits[k]) = Shown)
      BY <1>2 DEF IInv, PresentsInv
  <2>2. \A k \in 1 .. n - 1 : Queued(Pair(submits'[k]), presents')
                                 \/ (pc' \in {"present", "exited"} /\ Pair(submits'[k]) = Shown')
      BY <1>1, <1>2, <2>1 DEF Shown
  <2>3. \A j, k \in 1 .. n - 1 : j # k => Pair(submits'[j]) # Pair(submits'[k])
    <3>1. \A j, k \in 1 .. n - 1 : j # k => j + 1 # k + 1
        BY <1>2
    <3> QED BY SMTT(30), <1>2, <3>1 DEF IInv, PresentsInv
  <2> QED BY <1>1, <1>2, <2>2, <2>3 DEF IInv, PresentsInv, Shown, alive
<1>10. LiveInv' /\ SizeInv'
    BY <1>1, <1>2 DEF IInv, LiveInv, GpuUsesLiveObjects, SizeInv, Draining, alive
<1> QED BY <1>6, <1>7, <1>8, <1>9, <1>10 DEF IInv

(* The presentation engine completes a present: its image's fence opens.   *)
LEMMA PresentFinishStep == ASSUME IInv, PresentFinish PROVE IInv'
<1> DEFINE n == Len(presents)
           p == presents[1]
<1>1. /\ n \in Nat /\ DOMAIN presents = 1 .. n /\ n >= 1 /\ 1 \in 1 .. n
      /\ presents' = Tail(presents)
      /\ presents' \in Seq(Presentation) /\ DOMAIN presents' = 1 .. n - 1
      /\ \A k \in 1 .. n - 1 : presents'[k] = presents[k + 1] /\ k + 1 \in 1 .. n /\ k + 1 # 1
      /\ Head(presents) = p
  <2>1. presents \in Seq(Presentation) /\ DOMAIN presents = 1 .. n /\ n \in Nat
      BY QueueTypes DEF IInv
  <2>2. presents # << >> /\ presents' = Tail(presents)
      BY DEF PresentFinish
  <2>3. /\ Tail(presents) \in Seq(Presentation) /\ n >= 1
        /\ DOMAIN Tail(presents) = 1 .. n - 1
        /\ \A k \in 1 .. n - 1 : Tail(presents)[k] = presents[k + 1]
        /\ Head(presents) = presents[1]
      BY <2>1, <2>2, TailIsSeq
  <2>4. 1 \in 1 .. n /\ \A k \in 1 .. n - 1 : k + 1 \in 1 .. n /\ k + 1 # 1
      BY <2>1, <2>3
  <2> QED BY <2>1, <2>2, <2>3, <2>4
<1> HIDE DEF n
<1>2. p \in Presentation /\ p.gen \in Generations /\ p.image \in Indices
    BY <1>1, QueueTypes DEF IInv
<1>3. \A k \in 2 .. n : presents[k] # p
  <2>1. \A k \in 2 .. n : k \in 1 .. n /\ k # 1
      BY <1>1
  <2> QED BY <1>1, <2>1 DEF IInv, PresentsInv
<1> HIDE DEF p
<1>4. /\ pc # "exited" /\ Rendered(p)
      /\ present_done' = [g \in alive |-> IF g = p.gen THEN [present_done[g] EXCEPT ![p.image] = TRUE]
                                          ELSE present_done[g]]
      /\ owner' = IF p.gen = swapchain THEN Displaying(p.image) ELSE owner
      /\ UNCHANGED <<pc, window, extent, resized, request_close, frame_count, image_idx, swapchain,
                     garbage, render_finish, submits>>
    BY <1>1 DEF PresentFinish, cpu
<1>5. /\ present_done \in [alive -> [Indices -> BOOLEAN]]
      /\ owner \in [Indices -> {"free", "app", "queued", "shown"}]
    BY DEF IInv, TypeOK
<1>6. /\ alive' = alive /\ present_done' \in [alive -> [Indices -> BOOLEAN]]
      /\ \A g \in alive, i \in Indices :
            present_done'[g][i] <=> present_done[g][i] \/ (g = p.gen /\ i = p.image)
  <2>1. /\ alive' = alive /\ present_done' \in [alive -> [Indices -> BOOLEAN]]
        /\ \A g \in alive, i \in Indices :
              present_done'[g][i] = IF g = p.gen /\ i = p.image THEN TRUE ELSE present_done[g][i]
      BY <1>2, <1>4, <1>5 DEF alive
  <2> QED BY <2>1
<1>7. /\ owner' \in [Indices -> {"free", "app", "queued", "shown"}]
      /\ \A i \in Indices : owner[i] = "queued" /\ (p.gen = swapchain => i # p.image)
                               => owner'[i] = "queued"
    BY <1>2, <1>4, <1>5 DEF Displaying
<1>8. TypeOK'
  <2>1. presents' \in Seq([gen : Generations, image : Indices])
      BY <1>1 DEF Presentation
  <2>2. present_done' \in [alive' -> [Indices -> BOOLEAN]] /\ alive' \subseteq Generations
      BY <1>6 DEF IInv, TypeOK
  <2> QED BY <1>4, <1>7, <2>1, <2>2, Zenon DEF IInv, TypeOK
<1>9. RingInv'
    BY <1>4, <1>6 DEF IInv, RingInv, GarbageAccounted, Draining, Retired
<1>10. SlotsInv'
    BY <1>4 DEF IInv, SlotsInv, FencesWillOpen, frame_idx
<1>11. PresentsInv'
  <2>1. \A k \in 1 .. n - 1 : /\ presents'[k] \in Presentation
                              /\ presents'[k].gen \in Generations /\ presents'[k].image \in Indices
                              /\ ~(presents'[k].gen = p.gen /\ presents'[k].image = p.image)
    <3> SUFFICES ASSUME NEW k \in 1 .. n - 1
                 PROVE  /\ presents[k + 1] \in Presentation
                        /\ presents[k + 1].gen \in Generations /\ presents[k + 1].image \in Indices
                        /\ ~(presents[k + 1].gen = p.gen /\ presents[k + 1].image = p.image)
        BY <1>1
    <3>1. k + 1 \in 2 .. n /\ k + 1 \in 1 .. n
        BY <1>1
    <3>2. presents[k + 1] \in Presentation
        BY <1>1, <3>1, QueueTypes DEF IInv
    <3> QED BY <1>1, <1>2, <1>3, <3>1, <3>2, QueueTypes, TwoPresentations DEF IInv
  <2>2. \A k \in DOMAIN submits' :
           Queued(Pair(submits'[k]), presents')
              \/ (pc' \in {"present", "exited"} /\ Pair(submits'[k]) = Shown')
    <3> SUFFICES ASSUME NEW k \in DOMAIN submits, Queued(Pair(submits[k]), presents)
                 PROVE  Queued(Pair(submits[k]), presents')
        BY <1>4 DEF IInv, PresentsInv, Shown
    <3>1. PICK j \in 1 .. n : presents[j] = Pair(submits[k])
        BY <1>1 DEF Queued
    <3>2. j # 1
      <4>1. Pair(submits[k]) # p
          BY <1>4 DEF Rendered, Pair
      <4> QED BY <3>1, <4>1 DEF p
    <3>3. j - 1 \in 1 .. n - 1 /\ (j - 1) + 1 = j
        BY <1>1, <3>2
    <3> QED BY <1>1, <3>1, <3>3 DEF Queued
  <2>3. \A j \in 1 .. n - 1 :
           presents'[j].gen \in alive' => ~present_done'[presents'[j].gen][presents'[j].image]
      BY SMTT(20), <1>1, <1>6, <2>1 DEF IInv, PresentsInv
  <2>4. \A j \in 1 .. n - 1 : presents'[j].gen = swapchain' => owner'[presents'[j].image] = "queued"
      BY <1>1, <1>4, <1>7, <2>1 DEF IInv, PresentsInv
  <2>5. \A j, k \in 1 .. n - 1 : j # k => presents'[j] # presents'[k]
    <3>1. \A j, k \in 1 .. n - 1 : j # k => j + 1 # k + 1
        BY <1>1
    <3> QED BY <1>1, <3>1 DEF IInv, PresentsInv
  <2>6. pc' \in {"draw", "present"} => \A k \in 1 .. n - 1 : presents'[k] # Shown'
      BY <1>1, <1>4 DEF IInv, PresentsInv, Shown
  <2>7. \A j, k \in DOMAIN submits' : j # k => Pair(submits'[j]) # Pair(submits'[k])
      BY <1>4 DEF IInv, PresentsInv
  <2> QED BY <1>1, <2>2, <2>3, <2>4, <2>5, <2>6, <2>7 DEF PresentsInv
<1>12. LiveInv' /\ SizeInv'
    BY <1>4, <1>6 DEF IInv, LiveInv, GpuUsesLiveObjects, SizeInv, Draining
<1> QED BY <1>8, <1>9, <1>10, <1>11, <1>12 DEF IInv
-----------------------------------------------------------------------------
LEMMA InitIInv == Init => IInv
<1> SUFFICES ASSUME Init PROVE IInv
    OBVIOUS
<1>1. PICK g \in Generations, size \in Sizes :
         /\ pc = "poll" /\ window = size /\ extent = size
         /\ resized = FALSE /\ request_close = FALSE
         /\ frame_count = 0 /\ image_idx = 0 /\ swapchain = g
         /\ garbage = ring_buff_create_with_cap(Pow2Cap)
         /\ render_finish = Opened /\ present_done = [h \in {g} |-> Opened]
         /\ submits = << >> /\ presents = << >> /\ owner = AllFree
    BY DEF Init
<1>2. /\ Opened \in [Indices -> BOOLEAN] /\ \A i \in Indices : Opened[i] = TRUE
      /\ AllFree \in [Indices -> {"free", "app", "queued", "shown"}]
      /\ 0 \in Indices /\ 0 \in 0 .. Wrap - 1
    BY ImagesAssumption, WrapAssumption DEF Opened, AllFree, Indices
<1>3. /\ garbage \in Ring(Generations \cup {None}) /\ Count(garbage) = 0 /\ MayPush(garbage)
    BY <1>1, RingCreated
<1>4. alive = {g} /\ present_done \in [alive -> [Indices -> BOOLEAN]]
    BY <1>1, <1>2 DEF alive
<1>5. /\ submits \in Seq([gen : Generations, frame : Indices, image : Indices])
      /\ presents \in Seq([gen : Generations, image : Indices])
      /\ DOMAIN submits = {} /\ DOMAIN presents = {}
    BY <1>1
<1>6. TypeOK
  <2>1. /\ pc \in Stages /\ resized \in BOOLEAN /\ request_close \in BOOLEAN
        /\ window \in Sizes /\ extent \in Sizes /\ alive \subseteq Generations
        /\ frame_count \in 0 .. Wrap - 1 /\ image_idx \in Indices /\ swapchain \in Generations
        /\ render_finish \in [Indices -> BOOLEAN]
        /\ owner \in [Indices -> {"free", "app", "queued", "shown"}]
      BY <1>1, <1>2, <1>4 DEF Stages
  <2> QED BY <1>3, <1>4, <1>5, <2>1, Zenon DEF TypeOK, Ring, Cap
<1>7. RingInv
  <2>1. DOMAIN Retired = {}
      BY <1>3, RingContents DEF Retired
  <2>2. Range(Retired) = {}
      BY <2>1 DEF Range
  <2> QED BY <1>1, <1>3, <1>4, <2>1, <2>2 DEF RingInv, GarbageAccounted
<1>8. SlotsInv
    BY <1>1, <1>2, <1>5 DEF SlotsInv, FencesWillOpen
<1>9. PresentsInv
    BY <1>1, <1>5 DEF PresentsInv
<1>10. LiveInv /\ SizeInv
    BY <1>1, <1>5 DEF LiveInv, GpuUsesLiveObjects, SizeInv
<1> QED BY <1>6, <1>7, <1>8, <1>9, <1>10 DEF IInv

LEMMA NextIInv == ASSUME IInv, [Next]_vars PROVE IInv'
<1> USE DEF fences, cpu
<1>0. /\ pc \in Stages /\ window \in Sizes /\ extent \in Sizes
      /\ resized \in BOOLEAN /\ request_close \in BOOLEAN /\ frame_count \in 0 .. Wrap - 1
      /\ resized \/ extent = window
      /\ pc \in {"poll", "frame_end"} \/ Draining => ~resized
    BY DEF IInv, TypeOK, SizeInv
<1>1. CASE Poll
  <2>1. /\ pc = "poll" /\ pc' = "wait" /\ window' \in Sizes /\ request_close' \in BOOLEAN
        /\ resized' = (resized \/ window' # extent)
        /\ UNCHANGED <<extent, frame_count, image_idx, swapchain, garbage, fences, gpu>>
      BY <1>0, <1>1 DEF Poll, PollEvents
  <2>2. resized' \in BOOLEAN /\ SizeInv'
      BY <1>0, <2>1 DEF SizeInv, Draining
  <2> QED BY <1>0, <2>1, <2>2, ThreadStep DEF Draining, frame_idx, Stages
<1>2. CASE WaitForFence
  <2>1. /\ pc = "wait" /\ pc' = "acquire" /\ render_finish[frame_idx]
        /\ UNCHANGED <<cpu, garbage, fences, gpu>>
      BY <1>2 DEF WaitForFence
  <2>2. SizeInv'
      BY <1>0, <2>1 DEF SizeInv, Draining
  <2> QED BY <1>0, <2>1, <2>2, ThreadStep DEF Draining, frame_idx, Stages
<1>3. CASE AcquireImage
    BY <1>3, AcquireStep
<1>4. CASE AcquireOutOfDate
    BY <1>4, RecreateStep DEF AcquireOutOfDate
<1>5. CASE Submit
    BY <1>5, SubmitStep
<1>6. CASE Present
    BY <1>6, PresentStep
<1>7. CASE EndRecreating
    BY <1>7, RecreateStep DEF EndRecreating
<1>8. CASE ProcessGarbage
    BY <1>8, ProcessStep
<1>9. CASE DrainAfterStart
    BY <1>9, EmptyStep DEF DrainAfterStart
<1>10. CASE DrainAfterEnd
    BY <1>10, EmptyStep DEF DrainAfterEnd
<1>11. CASE CleanupRenderState
    BY <1>11, EmptyStep DEF CleanupRenderState
<1>12. CASE CleanupRenderTarget
    BY <1>12, CleanupTargetStep
<1>13. CASE FrameEnd
  <2>1. /\ pc = "frame_end" /\ pc' \in {"cleanup", "poll"}
        /\ frame_count' = (frame_count + 1) % Wrap
        /\ UNCHANGED <<window, extent, resized, request_close, image_idx, swapchain, garbage,
                       fences, gpu>>
      BY <1>13 DEF FrameEnd
  <2>2. frame_count' \in 0 .. Wrap - 1
      BY <1>0, <2>1, WrapAssumption
  <2>3. SizeInv'
      BY <1>0, <2>1 DEF SizeInv, Draining
  <2> QED BY <1>0, <2>1, <2>2, <2>3, ThreadStep DEF Draining, Stages
<1>14. CASE ExitOnError
  <2>1. /\ pc \in {"acquire", "draw", "present", "outdated", "presented"} /\ pc' = "exited"
        /\ UNCHANGED <<cpu, garbage, fences, gpu>>
      BY <1>14 DEF ExitOnError
  <2>2. SizeInv'
      BY <1>0, <2>1 DEF SizeInv, Draining
  <2> QED BY <1>0, <2>1, <2>2, ThreadStep DEF Draining, Stages
<1>15. CASE GpuFinish
    BY <1>15, GpuFinishStep
<1>16. CASE PresentFinish
    BY <1>16, PresentFinishStep
<1>17. CASE UNCHANGED vars
  <2>1. UNCHANGED <<pc, cpu, garbage, fences, gpu>>
      BY <1>17 DEF vars
  <2>2. SizeInv'
      BY <1>0, <2>1 DEF SizeInv, Draining
  <2>3. pc = "acquire" => render_finish[frame_idx]
      BY DEF IInv, SlotsInv
  <2> QED BY <1>0, <2>1, <2>2, <2>3, ThreadStep DEF frame_idx
<1> QED BY <1>1, <1>2, <1>3, <1>4, <1>5, <1>6, <1>7, <1>8, <1>9, <1>10, <1>11, <1>12, <1>13, <1>14,
           <1>15, <1>16, <1>17 DEF Next, MainLoop, Finished

LEMMA SpecIInv == Spec => []IInv
BY InitIInv, NextIInv, PTL DEF Spec
-----------------------------------------------------------------------------
(* No semaphore, view or swapchain that a submission still uses is ever    *)
(* destroyed, whether by process_garbage, a full ring or the end.          *)
THEOREM GpuObjectsLive == Spec => []GpuUsesLiveObjects
<1>1. IInv => GpuUsesLiveObjects
    BY DEF IInv, LiveInv
<1> QED BY <1>1, SpecIInv, PTL

(* A retired swapchain is in the ring, once, until it is destroyed: none   *)
(* is leaked and none destroyed twice, for any capacity of the ring.       *)
THEOREM GarbageIsAccounted == Spec => []GarbageAccounted
<1>1. IInv => GarbageAccounted
    BY DEF IInv, RingInv
<1> QED BY <1>1, SpecIInv, PTL

(* The assertion of ring_buff_push holds at every recreation.              *)
THEOREM GarbageHasRoom == Spec => []RoomForGarbage
<1>1. IInv => RoomForGarbage
    BY DEF IInv, RingInv, RoomForGarbage, Draining
<1> QED BY <1>1, SpecIInv, PTL

(* No slot, semaphore or image is used again before the queues are done    *)
(* with it, although frame_count wraps at a value that need not be a       *)
(* multiple of the number of slots.                                        *)
THEOREM SlotsExclusive == Spec => []SlotsAreExclusive
<1>1. IInv => SlotsAreExclusive
  <2> SUFFICES ASSUME IInv PROVE SlotsAreExclusive
      OBVIOUS
  <2>1. \A j, k \in DOMAIN submits :
           j # k => (submits[j].gen = submits[k].gen => submits[j].image # submits[k].image)
      BY DEF IInv, PresentsInv, Pair
  <2> QED BY <2>1 DEF IInv, SlotsInv, PresentsInv, SlotsAreExclusive
<1> QED BY <1>1, SpecIInv, PTL

(* A slot's fence is closed only while something will open it: start_frame *)
(* waits for no fence that stays closed, across every failed acquisition   *)
(* and recreation.                                                         *)
THEOREM FencesOpen == Spec => []FencesWillOpen
<1>1. IInv => FencesWillOpen
    BY DEF IInv, SlotsInv
<1> QED BY <1>1, SpecIInv, PTL

(* After each turn of the loop the target has the window's size.           *)
THEOREM ResizesTakeEffect == Spec => []ResizeTakesEffect
<1>1. IInv => ResizeTakesEffect
    BY DEF IInv, SizeInv, ResizeTakesEffect
<1> QED BY <1>1, SpecIInv, PTL

(* process_garbage destroys a generation only when none of its presents    *)
(* is pending.                                                             *)
THEOREM DisposalAfterPresents == Spec => DisposedAfterPresents
<1>1. ASSUME IInv, [Next]_vars
      PROVE  [pc = "presented" =>
                \A g \in alive \ alive' : \A k \in DOMAIN presents : presents[k].gen # g]_vars
  <2> SUFFICES ASSUME pc = "presented", NEW g \in alive \ alive'
               PROVE  \A k \in DOMAIN presents : presents[k].gen # g
      OBVIOUS
  <2>1. CASE ProcessGarbage /\ ring_buff_peek(garbage) /\ check_dispose_ready(Oldest(garbage))
    <3>1. present_done' = Destroyed({Oldest(garbage)})
        BY <2>1 DEF ProcessGarbage
    <3>2. g = Oldest(garbage)
        BY <1>1, <3>1, DestroyedEffect DEF IInv
    <3> QED BY <1>1, <2>1, <3>2, ReadyIsUnused
  <2>2. CASE alive \subseteq alive'
      BY <2>2
  <2>3. Recreate("drain_end", "frame_end") => alive \subseteq alive'
    <3>1. Recreate("drain_end", "frame_end") => \E new : present_done' = Created(new)
        BY DEF Recreate
    <3> QED BY <3>1 DEF Created, alive
  <2>4. PresentFinish => alive \subseteq alive'
      BY DEF PresentFinish, alive
  <2>5. UNCHANGED present_done => alive \subseteq alive'
      BY DEF alive
  <2>6. ProcessGarbage => \/ UNCHANGED present_done
                          \/ ring_buff_peek(garbage) /\ check_dispose_ready(Oldest(garbage))
      BY DEF ProcessGarbage
  <2>7. [Next]_vars => ProcessGarbage \/ Recreate("drain_end", "frame_end") \/ PresentFinish
                          \/ UNCHANGED present_done
      BY DEF Next, MainLoop, Poll, WaitForFence, AcquireImage, AcquireOutOfDate, Submit, Present,
             EndRecreating, DrainAfterStart, DrainAfterEnd, EmptyGarbage, FrameEnd,
             CleanupRenderState, CleanupRenderTarget, ExitOnError, GpuFinish, Finished, vars, fences
  <2> QED BY <1>1, <2>1, <2>2, <2>3, <2>4, <2>5, <2>6, <2>7
<1> QED BY <1>1, SpecIInv, PTL DEF Spec, DisposedAfterPresents
=============================================================================
