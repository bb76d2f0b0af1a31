---------------------------- MODULE FrameMemory -----------------------------
(***************************************************************************)
(* The general arena of main.c from the loading of the font on: who        *)
(* allocates from it, between which checkpoints, and what the frames write *)
(* to it.  The ring of retired swapchains lives in it as well: its slots   *)
(* are words of the page, and what is disposed is what those words say.    *)
(***************************************************************************)
EXTENDS Arena, Sequences

CONSTANTS Base,         \* words allocated before the first checkpoint
          FontWords,    \* words font_load and slug_build_atlas allocate
          ImageWords,   \* words of the swapchain's image handles
          SlotWords,    \* words of one SwapchainGarbage
          Pow2Cap,      \* the ring's capacity given to ring_buff_create_with_cap
          Swapchains    \* names for swapchains, reused in turn

VARIABLES stage,    \* where main is
          arena,    \* general_arena
          font,     \* the first word of the font's tables
          ring,     \* the first word of swapchain_garbage.data
          read,     \* swapchain_garbage.read
          write,    \* swapchain_garbage.write
          current,  \* the swapchain in use
          retired   \* the swapchains retired and not yet disposed, oldest first

vars == <<stage, arena, font, ring, read, write, current, retired>>
memory == <<arena, font, ring>>
garbage == <<read, write, current, retired>>

Cap == 2 ^ Pow2Cap
After(index) == (index + 1) % Cap
FontWord == [tag |-> "font", value |-> 0]
ImageWord == [tag |-> "image", value |-> 0]
GarbageWord(s) == [tag |-> "garbage", value |-> s]
Slot(index) == ring + index * SlotWords
SlotHolds(index, s) ==
    \A a \in Slot(index) .. Slot(index) + SlotWords - 1 : arena.mem[a] = GarbageWord(s)

Init ==
    /\ stage = "load"
    /\ arena = arena_alloc(arena_create, Base)
    /\ font = 0 /\ ring = 0 /\ read = 0 /\ write = 0
    /\ current \in Swapchains
    /\ retired = << >>

(* The checkpoint before loading, font_load and slug_build_atlas. *)
FontLoad ==
    /\ stage = "load"
    /\ LET a == arena_ckpt(arena)
           b == arena_alloc(a, FontWords)
       IN  /\ font' = a.len
           /\ arena' = [b EXCEPT !.mem = Filled(@, a.len, b.len, FontWord)]
    /\ stage' = "state"
    /\ UNCHANGED <<ring, garbage>>

(* buffer_copy: a checkpoint, a command buffer (allocated around a         *)
(* checkpoint of its own), and a rollback, which keeps the checkpoint.     *)
buffer_copy(a) ==
    LET b == arena_alloc(arena_ckpt(a), 1)
        c == arena_pop(arena_alloc(arena_ckpt(b), 1))
    IN  arena_rollback(c)

(* create_render_state uploads the font and allocates the garbage ring. *)
CreateRenderState ==
    /\ stage = "state"
    /\ LET a == buffer_copy(arena)
       IN  /\ ring' = a.len
           /\ arena' = arena_alloc(a, Cap * SlotWords)
    /\ stage' = "pop"
    /\ UNCHANGED <<font, garbage>>

(* The pop after loading, and the checkpoint every frame rolls back to. *)
StartLoop ==
    /\ stage = "pop"
    /\ arena' = arena_ckpt(arena_pop(arena))
    /\ stage' = "frame"
    /\ UNCHANGED <<font, ring, garbage>>

(* recreate_swapchain: the image handles are read into scratch words that  *)
(* are popped when they have been copied.                                  *)
recreate_swapchain(a) ==
    LET b == arena_ckpt(a)
        c == arena_alloc(b, ImageWords)
    IN  arena_pop([c EXCEPT !.mem = Filled(@, b.len, c.len, ImageWord)])

(* start_frame or end_frame recreates the swapchain and pushes the one it  *)
(* retires; a ring that is full then is emptied.                           *)
RetireSwapchain ==
    /\ stage = "frame"
    /\ read # After(write)
    /\ \E s \in Swapchains \ ({current} \cup {retired[k] : k \in DOMAIN retired}) : current' = s
    /\ LET a == recreate_swapchain(arena)
           full == read = After(After(write))
           pushed == Filled(a.mem, Slot(write), Slot(write) + SlotWords, GarbageWord(current))
       IN  /\ arena' = [a EXCEPT !.mem = pushed]
           /\ retired' = Append(retired, current)
           /\ write' = After(write)
           /\ stage' = IF full THEN "drain" ELSE "frame"
    /\ UNCHANGED <<font, ring, read>>

(* ring_buff_pop of the oldest, which zeroes its slot, and its disposal. *)
PopOldest ==
    /\ retired # << >>
    /\ arena' = [arena EXCEPT !.mem =
                    Filled(@, Slot(read), Slot(read) + SlotWords, ZeroWord)]
    /\ read' = After(read)
    /\ retired' = Tail(retired)
    /\ UNCHANGED <<font, ring, write, current>>

(* process_garbage, when the oldest generation's presents are complete. *)
ProcessGarbage == stage = "frame" /\ PopOldest /\ UNCHANGED stage

EmptyGarbage ==
    \/ stage = "drain" /\ PopOldest /\ UNCHANGED stage
    \/ /\ stage = "drain" /\ read = write
       /\ stage' = "frame"
       /\ UNCHANGED <<memory, garbage>>

(* The end of the loop's body: all of the frame's memory is given back. *)
EndOfFrame ==
    /\ stage = "frame"
    /\ arena' = arena_rollback(arena)
    /\ UNCHANGED <<stage, font, ring, garbage>>

Next ==
    \/ FontLoad \/ CreateRenderState \/ StartLoop \/ RetireSwapchain
    \/ ProcessGarbage \/ EmptyGarbage \/ EndOfFrame

Spec == Init /\ [][Next]_vars
-----------------------------------------------------------------------------
(* main.c on the pop after create_render_state: "technically this is       *)
(* unsafe because arena was used in create_render_state but in this case,  *)
(* I know it wasn't used in there for anything" - so nothing it allocated, *)
(* the ring of retired swapchains among it, may be changed by its pop: the *)
(* slots say what was pushed until they are popped.                        *)
RingIntact ==
    \A k \in DOMAIN retired : SlotHolds((read + k - 1) % Cap, retired[k])
=============================================================================
