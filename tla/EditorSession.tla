--------------------------- MODULE EditorSession ----------------------------
(***************************************************************************)
(* The editor of main_bench.c: one thread polls the window, works through  *)
(* the queue of its events, honours close requests and redraws.  Clipboard *)
(* transfers are asynchronous: the text asked for by Ctrl+V comes back as  *)
(* an event, and what was typed meanwhile waits in the queue behind it.    *)
(*                                                                         *)
(* The document, the window and the layout are other components: of the    *)
(* document the model keeps its undo history as lengths under state ids,   *)
(* of the layout that it notices a changed document, of a frame what view  *)
(* it shows.                                                               *)
(***************************************************************************)
EXTENDS Integers, Sequences

CONSTANTS Inputs,      \* the kinds of events the user makes
          MaxInputs,   \* bound: how many of them
          MaxLength,   \* bound: bytes of the document
          Resizes      \* whether the surface may go out of date

ASSUME BoundsAssumption ==
    /\ MaxInputs \in Nat /\ MaxLength \in Nat /\ Resizes \in BOOLEAN
    /\ Inputs \subseteq {"text", "delete", "arrow", "jump", "select_all", "escape", "copy", "cut",
                         "paste", "undo", "redo", "save", "quit", "press", "move", "release"}

VARIABLES
    pc,             \* where the loop is
    queue,          \* window->events
    event_index,    \* editor.event_index
    paste_pending,  \* editor.paste_pending
    transfer,       \* a clipboard request is under way in the window
    request_close,  \* window->request_close
    history,        \* the document's undo states
    position,       \* the one it is in
    cursor,         \* document_cursor
    anchor,         \* editor.selection_anchor
    selecting,      \* editor.selecting
    saved_state,    \* editor.saved_state
    close_armed,    \* editor.close_armed
    title_dirty,    \* editor.title_dirty
    title,          \* the window's title: its star and its message
    redraw,         \* the loop's redraw
    laid_out,       \* the document state the layout was made for
    shown,          \* the view on the screen
    issued,         \* how many inputs the user has made
    applied,        \* the inputs acted on, in that order
    warned          \* the document state whose loss the user was last warned of

input == <<queue, event_index, paste_pending, transfer, request_close>>
document == <<history, position, cursor>>
selection == <<anchor, selecting>>
saving == <<saved_state, close_armed, title_dirty, title>>
screen == <<redraw, laid_out, shown>>
ghosts == <<issued, applied, warned>>
vars == <<pc, input, document, selection, saving, screen, ghosts>>

(* document.h, as main_bench.c uses it. *)
document_state_id == history[position].id
document_length == history[position].length
NewId == Len(applied) + 1

editor_dirty == document_state_id # saved_state
View == <<document_state_id, cursor, anchor>>
Lower(a, b) == IF a < b THEN a ELSE b
Upper(a, b) == IF a < b THEN b ELSE a
Begin == Lower(cursor, anchor)
End == Upper(cursor, anchor)

Init ==
    /\ pc = "poll"
    /\ queue = << >> /\ event_index = 0
    /\ paste_pending = FALSE /\ transfer = FALSE /\ request_close = FALSE
    /\ history = <<[id |-> 0, length |-> 1]>> /\ position = 1 /\ cursor = 0
    /\ anchor = 0 /\ selecting = FALSE
    /\ saved_state = 0
    /\ close_armed = FALSE /\ title_dirty = FALSE
    /\ title = [star |-> FALSE, message |-> "none"]
    /\ redraw = TRUE /\ laid_out = -1 /\ shown = << >>
    /\ issued = 0 /\ applied = << >> /\ warned = -1
-----------------------------------------------------------------------------
(* window_poll_events: the user's events are queued, a clipboard transfer  *)
(* may complete, with or without text, and the window may be asked to      *)
(* close.                                                                  *)
Event(kind, id, len) == [kind |-> kind, id |-> id, len |-> len]

UserInput ==
    /\ pc = "poll"
    /\ issued < MaxInputs
    /\ \E kind \in Inputs : queue' = Append(queue, Event(kind, issued + 1, 1))
    /\ issued' = issued + 1
    /\ UNCHANGED <<pc, event_index, paste_pending, transfer, request_close, document,
                   selection, saving, screen, applied, warned>>

TransferEnds ==
    /\ pc = "poll"
    /\ transfer
    /\ \E len \in 0 .. 1 : queue' = Append(queue, Event("PASTE", 0, len))
    /\ transfer' = FALSE
    /\ UNCHANGED <<pc, event_index, paste_pending, request_close, document, selection,
                   saving, screen, ghosts>>

WmClose ==
    /\ pc = "poll"
    /\ "quit" \in Inputs
    /\ request_close' = TRUE
    /\ UNCHANGED <<pc, queue, event_index, paste_pending, transfer, document, selection,
                   saving, screen, ghosts>>

Poll ==
    /\ pc = "poll"
    /\ pc' = "events"
    /\ UNCHANGED <<input, document, selection, saving, screen, ghosts>>
-----------------------------------------------------------------------------
(* editor_title and editor_error, for the document as it is afterwards. *)
editor_title(message) == title' = [star |-> document_state_id' # saved_state', message |-> message]
editor_error(message) == editor_title(message)

\* Mutant: the request to discard outlives the next edit.
ChangedKeepsArmed ==
    LET dirty == document_state_id' # saved_state
    IN  /\ anchor' = cursor'
        /\ UNCHANGED <<saved_state, close_armed>>
        /\ IF dirty # title_dirty THEN editor_title("none") ELSE UNCHANGED title
        /\ title_dirty' = dirty

\* Mutant: the title is redrawn only when the document turns dirty.
ChangedStarsOnly ==
    LET dirty == document_state_id' # saved_state
    IN  /\ anchor' = cursor'
        /\ close_armed' = FALSE
        /\ UNCHANGED saved_state
        /\ IF dirty /\ ~title_dirty THEN editor_title("none") ELSE UNCHANGED title
        /\ title_dirty' = dirty

\* Mutant: the selection's anchor stays where it was.
ChangedKeepsAnchor ==
    LET dirty == document_state_id' # saved_state
    IN  /\ close_armed' = FALSE
        /\ UNCHANGED <<saved_state, anchor>>
        /\ IF dirty # title_dirty \/ close_armed THEN editor_title("none") ELSE UNCHANGED title
        /\ title_dirty' = dirty

(* editor_changed, after the document took a new state. *)
editor_changed ==
    LET dirty == document_state_id' # saved_state
    IN  /\ anchor' = cursor'
        /\ close_armed' = FALSE
        /\ UNCHANGED saved_state
        /\ IF dirty # title_dirty \/ close_armed THEN editor_title("none") ELSE UNCHANGED title
        /\ title_dirty' = dirty

(* document_replace as editor_replace calls it: it may fail, it may have   *)
(* nothing to do, or it makes a new undo state and drops those undone.     *)
ReplaceFails ==
    /\ UNCHANGED <<document, anchor, saved_state, close_armed, title_dirty>>
    /\ editor_error("error")

ReplaceBytes(offset, removed, length) ==
    /\ document_length - removed + length <= MaxLength
    /\ history' = Append(SubSeq(history, 1, position),
                         [id |-> NewId, length |-> document_length - removed + length])
    /\ position' = position + 1
    /\ cursor' = offset + length
    /\ editor_changed

editor_replace(offset, removed, length) ==
    IF removed = 0 /\ length = 0
    THEN UNCHANGED <<document, anchor, saving>>
    ELSE ReplaceFails \/ ReplaceBytes(offset, removed, length)

editor_insert(length) == editor_replace(Begin, End - Begin, length)

DrawIfChanged == redraw' = (redraw \/ document_state_id' # document_state_id)

(* document_undo and document_redo: false when there is nothing to do; the *)
(* document decides where its cursor goes.                                 *)
Travel(to) ==
    IF to \in DOMAIN history
    THEN /\ position' = to
         /\ cursor' \in 0 .. history[to].length
         /\ UNCHANGED history
         /\ editor_changed
    ELSE UNCHANGED <<document, anchor, saving>>

(* document_save may fail; saved_state is what was saved. *)
editor_save ==
    \/ /\ saved_state' = document_state_id
       /\ title_dirty' = FALSE
       /\ close_armed' = FALSE
       /\ UNCHANGED document
       /\ editor_title("none")
    \/ /\ UNCHANGED <<document, saved_state, close_armed, title_dirty>>
       /\ editor_error("error")

editor_move(to, extend) ==
    /\ cursor' = to
    /\ anchor' = IF extend THEN anchor ELSE to
    /\ redraw' = TRUE
    /\ UNCHANGED <<history, position, saving>>
-----------------------------------------------------------------------------
(* editor_key and editor_event, one definition per kind of event.  The     *)
(* window variables a handler leaves alone are left by HandleEvent.        *)
Text == editor_insert(1) /\ DrawIfChanged /\ UNCHANGED selecting

Delete ==
    /\ \E forward \in BOOLEAN :
          LET begin == IF Begin = End /\ ~forward THEN Upper(cursor - 1, 0) ELSE Begin
              end == IF Begin = End /\ forward THEN Lower(cursor + 1, document_length) ELSE End
          IN  editor_replace(begin, end - begin, 0)
    /\ DrawIfChanged
    /\ UNCHANGED selecting

(* Left and Right; without shift, a selection collapses to its end. *)
Arrow ==
    /\ \E forward, shift \in BOOLEAN :
          editor_move(IF ~shift /\ anchor # cursor
                      THEN IF forward THEN End ELSE Begin
                      ELSE IF forward THEN Lower(cursor + 1, document_length)
                                      ELSE Upper(cursor - 1, 0), shift)
    /\ UNCHANGED selecting

(* By words, by lines, by pages: the document or the layout says where to. *)
Jump ==
    /\ \E next \in 0 .. document_length, shift \in BOOLEAN : editor_move(next, shift)
    /\ UNCHANGED selecting

SelectAll ==
    /\ anchor' = 0
    /\ cursor' = document_length
    /\ redraw' = TRUE
    /\ UNCHANGED <<history, position, saving, selecting>>

\* Mutant: dropping the selection is not drawn.
EscapeUndrawn ==
    /\ anchor' = cursor
    /\ selecting' = FALSE
    /\ UNCHANGED <<document, saving, redraw>>

Escape ==
    /\ anchor' = cursor
    /\ selecting' = FALSE
    /\ redraw' = TRUE
    /\ UNCHANGED <<document, saving>>

(* editor_copy: with a selection, and memory for it, the window gets the   *)
(* text and a cut removes it.  Ctrl+C and Ctrl+X redraw either way.        *)
CopyFails ==
    /\ UNCHANGED <<document, anchor, saved_state, close_armed, title_dirty>>
    /\ editor_error("error")

editor_copy(cut) ==
    /\ \/ (~cut \/ Begin = End) /\ UNCHANGED <<document, anchor, saving>>
       \/ Begin # End /\ CopyFails
       \/ cut /\ Begin # End /\ editor_replace(Begin, End - Begin, 0)
    /\ redraw' = TRUE
    /\ UNCHANGED selecting

Press ==
    /\ \E hit \in 0 .. document_length, shift \in BOOLEAN : editor_move(hit, shift)
    /\ selecting' = TRUE

Move ==
    IF selecting
    THEN (\E hit \in 0 .. document_length : editor_move(hit, TRUE)) /\ UNCHANGED selecting
    ELSE UNCHANGED <<document, selection, saving, redraw>>

Release == selecting' = FALSE /\ UNCHANGED <<document, anchor, saving, redraw>>

Handle(kind) ==
    \/ kind = "text" /\ Text
    \/ kind = "delete" /\ Delete
    \/ kind = "arrow" /\ Arrow
    \/ kind = "jump" /\ Jump
    \/ kind = "select_all" /\ SelectAll
    \/ kind = "escape" /\ Escape
    \/ kind = "copy" /\ editor_copy(FALSE)
    \/ kind = "cut" /\ editor_copy(TRUE)
    \/ kind = "undo" /\ Travel(position - 1) /\ DrawIfChanged /\ UNCHANGED selecting
    \/ kind = "redo" /\ Travel(position + 1) /\ DrawIfChanged /\ UNCHANGED selecting
    \/ kind = "save" /\ editor_save /\ redraw' = TRUE /\ UNCHANGED selection
    \/ kind = "press" /\ Press
    \/ kind = "move" /\ Move
    \/ kind = "release" /\ Release
    \/ kind \in {"paste", "quit", "PASTE"} /\ UNCHANGED <<document, selection, saving, redraw>>
-----------------------------------------------------------------------------
(* editor_process_events, one turn of its loop at a time. *)
Completions == {k \in DOMAIN queue : k > event_index /\ queue[k].kind = "PASTE"}
FirstCompletion == CHOOSE k \in Completions : \A j \in Completions : k <= j
RemoveAt(q, k) == SubSeq(q, 1, k - 1) \o SubSeq(q, k + 1, Len(q))
Requested == queue[event_index].id

(* While a paste is pending only its completion is looked for: it is acted *)
(* on and taken out from among the events that wait.                       *)
\* Mutant: the completion is found and the events before it skipped.
CompleteSkipping ==
    /\ pc = "events" /\ paste_pending /\ Completions # {}
    /\ LET done == queue[FirstCompletion]
       IN  IF done.len # 0 THEN editor_insert(done.len)
                           ELSE UNCHANGED <<document, anchor, saving>>
    /\ DrawIfChanged
    /\ event_index' = FirstCompletion
    /\ applied' = Append(applied, Requested)
    /\ paste_pending' = FALSE
    /\ UNCHANGED <<pc, queue, transfer, request_close, selecting, laid_out, shown, issued,
                   warned>>

CompletePaste ==
    /\ pc = "events" /\ paste_pending /\ Completions # {}
    /\ LET done == queue[FirstCompletion]
       IN  IF done.len # 0 THEN editor_insert(done.len)
                           ELSE UNCHANGED <<document, anchor, saving>>
    /\ DrawIfChanged
    /\ queue' = RemoveAt(queue, FirstCompletion)
    /\ applied' = Append(applied, Requested)
    /\ paste_pending' = FALSE
    /\ UNCHANGED <<pc, event_index, transfer, request_close, selecting, laid_out, shown,
                   issued, warned>>

AwaitPaste ==
    /\ pc = "events" /\ paste_pending /\ Completions = {}
    /\ pc' = "close"
    /\ UNCHANGED <<input, document, selection, saving, screen, ghosts>>

\* Mutant: a paste waits for a transfer it never asked for when text is selected.
HandleUnasked ==
    /\ pc = "events" /\ ~paste_pending /\ event_index < Len(queue)
    /\ LET event == queue[event_index + 1]
       IN  /\ Handle(event.kind)
           /\ paste_pending' = (event.kind = "paste")
           /\ transfer' = (transfer \/ (event.kind = "paste" /\ anchor = cursor))
           /\ request_close' = (request_close \/ event.kind = "quit")
           /\ applied' = IF event.kind \in {"paste", "PASTE"} THEN applied
                         ELSE Append(applied, event.id)
    /\ event_index' = event_index + 1
    /\ UNCHANGED <<pc, queue, laid_out, shown, issued, warned>>

(* The next event; Ctrl+V asks the window for its clipboard, Ctrl+Q asks   *)
(* it to close, and a completion nobody waits for is dropped.              *)
HandleEvent ==
    /\ pc = "events" /\ ~paste_pending /\ event_index < Len(queue)
    /\ LET event == queue[event_index + 1]
       IN  /\ Handle(event.kind)
           /\ paste_pending' = (event.kind = "paste")
           /\ transfer' = (transfer \/ event.kind = "paste")
           /\ request_close' = (request_close \/ event.kind = "quit")
           /\ applied' = IF event.kind \in {"paste", "PASTE"} THEN applied
                         ELSE Append(applied, event.id)
    /\ event_index' = event_index + 1
    /\ UNCHANGED <<pc, queue, laid_out, shown, issued, warned>>

EventsDone ==
    /\ pc = "events" /\ ~paste_pending /\ event_index = Len(queue)
    /\ queue' = << >> /\ event_index' = 0
    /\ pc' = "close"
    /\ UNCHANGED <<paste_pending, transfer, request_close, document, selection, saving,
                   screen, ghosts>>
-----------------------------------------------------------------------------
(* A close request on unsaved changes is refused once, with a warning. *)
Close ==
    /\ pc = "close"
    /\ IF request_close /\ editor_dirty /\ ~close_armed
       THEN /\ request_close' = FALSE
            /\ close_armed' = TRUE
            /\ warned' = document_state_id
            /\ UNCHANGED <<document, saved_state>>
            /\ editor_error("unsaved")
       ELSE UNCHANGED <<request_close, close_armed, warned, document, saved_state, title>>
    /\ pc' = IF request_close' THEN "closed" ELSE "draw"
    /\ UNCHANGED <<queue, event_index, paste_pending, transfer, selection, title_dirty,
                   screen, issued, applied>>

(* A minimised window is not drawn. *)
Minimised ==
    /\ pc = "draw" /\ Resizes
    /\ pc' = "poll"
    /\ UNCHANGED <<input, document, selection, saving, screen, ghosts>>

(* The layout notices a changed document; the caret blinks, the window     *)
(* gains or loses the focus or changes its size.  With nothing to draw the *)
(* loop waits for events.                                                  *)
Layout ==
    /\ pc = "draw"
    /\ \E stale \in BOOLEAN :
          redraw' = (redraw \/ laid_out # document_state_id \/ stale)
    /\ laid_out' = document_state_id
    /\ pc' = IF redraw' THEN "frame" ELSE "poll"
    /\ UNCHANGED <<input, document, selection, saving, shown, ghosts>>

(* start_frame found the surface out of date: it is drawn again. *)
FrameRefused ==
    /\ pc = "frame" /\ Resizes
    /\ redraw' = TRUE
    /\ pc' = "poll"
    /\ UNCHANGED <<input, document, selection, saving, laid_out, shown, ghosts>>

(* The frame is drawn and presented; a present that found the surface out  *)
(* of date shows nothing, and the loop does not learn of it.               *)
Frame ==
    /\ pc = "frame"
    /\ shown' = View
    /\ redraw' = FALSE
    /\ pc' = "poll"
    /\ UNCHANGED <<input, document, selection, saving, laid_out, ghosts>>

FrameLost ==
    /\ pc = "frame" /\ Resizes
    /\ shown' = << >>
    /\ redraw' = FALSE
    /\ pc' = "poll"
    /\ UNCHANGED <<input, document, selection, saving, laid_out, ghosts>>

Loop ==
    \/ Poll \/ CompletePaste \/ AwaitPaste \/ HandleEvent \/ EventsDone
    \/ Close \/ Minimised \/ Layout \/ FrameRefused \/ Frame \/ FrameLost

Closed == pc = "closed" /\ UNCHANGED vars

Next == UserInput \/ TransferEnds \/ WmClose \/ Loop \/ Closed

Spec == Init /\ [][Next]_vars

(* The loop runs, the window ends the transfers it was asked for, with     *)
(* text or without; a surface is not out of date, nor the window           *)
(* minimised, for ever; the caret blinks.                                  *)
FairSpec ==
    /\ Spec
    /\ WF_vars(Loop) /\ SF_vars(TransferEnds)
    /\ SF_vars(Layout /\ redraw') /\ SF_vars(Frame)
-----------------------------------------------------------------------------
Kinds == Inputs \cup {"PASTE"}

DocumentTypeOK ==
    /\ history \in Seq([id : Nat, length : Nat])
    /\ position \in 1 .. Len(history) /\ cursor \in Nat /\ anchor \in Nat
    /\ saved_state \in Nat /\ close_armed \in BOOLEAN /\ title_dirty \in BOOLEAN
    /\ title \in [star : BOOLEAN, message : {"none", "error", "unsaved"}]

TypeOK ==
    /\ pc \in {"poll", "events", "close", "draw", "frame", "closed"}
    /\ queue \in Seq([kind : Kinds, id : Nat, len : 0 .. 1])
    /\ event_index \in 0 .. Len(queue)
    /\ paste_pending \in BOOLEAN /\ transfer \in BOOLEAN /\ request_close \in BOOLEAN
    /\ DocumentTypeOK
    /\ selecting \in BOOLEAN /\ redraw \in BOOLEAN
    /\ issued \in Nat /\ applied \in Seq(Nat)

(* What the user did is acted on in the order it was done, across pastes   *)
(* that complete late, and a turn of the loop leaves nothing behind unless *)
(* it waits for a paste (editor_process_events).                           *)
InputInOrder ==
    /\ \A k \in DOMAIN applied : applied[k] = k
    /\ pc = "close" /\ ~paste_pending => Len(applied) = issued

(* The editor never closes on unsaved changes but when the very state it   *)
(* throws away is the one the user was last warned about.                  *)
DiscardIsWarned == pc = "closed" /\ editor_dirty => warned = document_state_id

(* The title's star stands exactly while there are unsaved changes, undo   *)
(* and redo included; and while the title says that closing again          *)
(* discards, it does.                                                      *)
TitleIsTruthful ==
    /\ title.star <=> editor_dirty
    /\ title.message = "unsaved" => close_armed

(* Caret and selection stay inside the document through undo, redo, cuts   *)
(* and drags that find it shorter than it was.                             *)
SelectionInDocument == cursor <= document_length /\ anchor <= document_length

(* Between two turns, with no redraw asked for, the screen shows the       *)
(* document, the caret and the selection as they are, unless the           *)
(* presentation itself failed.                                             *)
IdleShowsView == pc = "poll" /\ ~redraw => shown \in {View, << >>}

(* The bounded input of a user is all acted on in the end, unless the      *)
(* editor was closed.                                                      *)
InputIsAnswered == <>[](Len(applied) = issued \/ pc = "closed")
=============================================================================
