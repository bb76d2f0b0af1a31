------------------------------- MODULE Arena --------------------------------
(***************************************************************************)
(* The arena of lib/grim/mem/arena.h as operators on a record of its       *)
(* fields and the words of its page.  An address is an offset in words     *)
(* from arena->data; the checkpoint of the code, a pointer, is such an     *)
(* offset, and the word it points at holds the checkpoint before it.       *)
(***************************************************************************)
EXTENDS Naturals

CONSTANTS Words,   \* how many words the page has
          Debug    \* whether __DEBUG is defined: freed words are zeroed

ZeroWord == [tag |-> "zero", value |-> 0]
NoCkpt == [tag |-> "ckpt", value |-> Words]     \* the null pointer
CkptWord(at) == [tag |-> "ckpt", value |-> at]

(* The words from..to-1 of the page set to w. *)
Filled(mem, from, to, w) ==
    [a \in DOMAIN mem |-> IF a \in from .. to - 1 THEN w ELSE mem[a]]
Freed(mem, from, to) == IF Debug THEN Filled(mem, from, to, ZeroWord) ELSE mem

arena_create ==
    [len |-> 0, ckpt |-> NoCkpt.value, mem |-> [a \in 0 .. Words - 1 |-> ZeroWord]]

(* Nothing but the size of one allocation is asserted: a caller that fills *)
(* the page writes past it.                                                *)
Room(arena, words) == arena.len + words <= Words

arena_alloc(arena, words) ==
    [arena EXCEPT !.len = @ + words,
                  !.mem = Filled(@, arena.len, arena.len + words, ZeroWord)]

arena_ckpt(arena) ==
    [arena EXCEPT !.mem[arena.len] = CkptWord(arena.ckpt),
                  !.len = @ + 1,
                  !.ckpt = arena.len]

arena_rollback(arena) ==
    [arena EXCEPT !.mem = Freed(@, arena.ckpt + 1, arena.len),
                  !.len = arena.ckpt + 1]

arena_pop(arena) ==
    [arena EXCEPT !.mem = Freed(@, arena.ckpt, arena.len),
                  !.len = arena.ckpt,
                  !.ckpt = arena.mem[arena.ckpt].value]
=============================================================================
