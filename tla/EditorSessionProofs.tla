------------------------- MODULE EditorSessionProofs ---------------------------
(***************************************************************************)
(* Proofs about EditorSession, for any inputs, any number of them and any  *)
(* length of the document.  The invariant has two halves: the order of the *)
(* queue, and the document with all that is kept beside it.                *)
(***************************************************************************)
EXTENDS EditorSession, SequenceTheorems, WellFoundedInduction, TLAPS

(* An event of the user that has not been taken out of the queue.          *)
Waits(k) == k \in DOMAIN queue /\ k > event_index /\ queue[k].kind # "PASTE"

(* Inputs taken out of the queue: those acted on, and a paste begun.       *)
Taken == Len(applied) + IF paste_pending THEN 1 ELSE 0

(* What waits are exactly the inputs not taken out, oldest first; a paste  *)
(* begun is the one before them.                                           *)
QueueInOrder ==
    /\ Taken <= issued
    /\ \A k : Waits(k) => queue[k].id \in Taken + 1 .. issued
    /\ \A j, k : Waits(j) /\ Waits(k) /\ j < k => queue[j].id < queue[k].id
    /\ \A n \in Taken + 1 .. issued : \E k : Waits(k) /\ queue[k].id = n
    /\ paste_pending => event_index > 0 /\ Requested = Len(applied) + 1

QueueInv == QueueInOrder /\ InputInOrder

(* Undo states have ids of their own, older ones smaller ones, and none is *)
(* yet to come.                                                            *)
HistoryOrdered ==
    /\ \A k \in DOMAIN history : history[k].id <= Len(applied)
    /\ \A j, k \in DOMAIN history : j < k => history[j].id < history[k].id

(* What the program remembers of unsaved changes is what they are; the     *)
(* request to discard is about the state the document is in.               *)
SavingInv ==
    /\ title_dirty = editor_dirty
    /\ close_armed /\ editor_dirty => warned = document_state_id
    /\ pc = "closed" /\ editor_dirty => close_armed

DocumentInv == HistoryOrdered /\ SelectionInDocument /\ SavingInv /\ TitleIsTruthful

(* Whenever nothing is to be redrawn, not only between two turns.          *)
ViewInv == ~redraw => shown \in {View, << >>}

IInv == TypeOK /\ QueueInv /\ DocumentInv /\ ViewInv
-----------------------------------------------------------------------------
(* Lemmas about sequences. *)

LEMMA AppendIsSeq ==
    ASSUME NEW S, NEW s \in Seq(S), NEW e \in S
    PROVE  /\ Append(s, e) \in Seq(S)
           /\ Len(Append(s, e)) = Len(s) + 1
           /\ \A k \in 1 .. Len(s) : Append(s, e)[k] = s[k]
           /\ Append(s, e)[Len(s) + 1] = e
    OBVIOUS

(* A prefix and one element more. *)
LEMMA PrefixAppended ==
    ASSUME NEW S, NEW s \in Seq(S), NEW n \in 1 .. Len(s), NEW e \in S
    PROVE  LET t == Append(SubSeq(s, 1, n), e)
           IN  /\ t \in Seq(S) /\ Len(t) = n + 1
               /\ \A k \in 1 .. n : t[k] = s[k]
               /\ t[n + 1] = e
<1> DEFINE p == SubSeq(s, 1, n)
<1>1. p \in Seq(S) /\ Len(p) = n /\ \A k \in 1 .. n : p[k] = s[k]
    OBVIOUS
<1> HIDE DEF p
<1> QED BY <1>1, AppendIsSeq

(* One element is taken out. *)
LEMMA Removed ==
    ASSUME NEW S, NEW s \in Seq(S), NEW n \in 1 .. Len(s)
    PROVE  /\ RemoveAt(s, n) \in Seq(S) /\ Len(RemoveAt(s, n)) = Len(s) - 1
           /\ \A k \in 1 .. n - 1 : RemoveAt(s, n)[k] = s[k]
           /\ \A k \in n .. Len(s) - 1 : RemoveAt(s, n)[k] = s[k + 1]
<1> DEFINE p == SubSeq(s, 1, n - 1)
           q == SubSeq(s, n + 1, Len(s))
<1>1. p \in Seq(S) /\ Len(p) = n - 1 /\ \A k \in 1 .. n - 1 : p[k] = s[k]
    OBVIOUS
<1>2. q \in Seq(S) /\ Len(q) = Len(s) - n /\ \A k \in 1 .. Len(s) - n : q[k] = s[k + n]
    OBVIOUS
<1>3. RemoveAt(s, n) = p \o q
    BY DEF RemoveAt
<1> HIDE DEF p, q
<1>4. /\ p \o q \in Seq(S) /\ Len(p \o q) = Len(p) + Len(q)
      /\ \A k \in 1 .. Len(p) + Len(q) :
            (p \o q)[k] = IF k <= Len(p) THEN p[k] ELSE q[k - Len(p)]
    BY <1>1, <1>2, ConcatProperties
<1>5. \A k \in 1 .. n - 1 : (p \o q)[k] = s[k]
    BY <1>1, <1>2, <1>4
<1>6. \A k \in n .. Len(s) - 1 : (p \o q)[k] = s[k + 1]
    BY <1>1, <1>2, <1>4
<1> QED BY <1>1, <1>2, <1>3, <1>4, <1>5, <1>6

(* A set of natural numbers has a least one. *)
LEMMA LeastExists ==
    ASSUME NEW S \in SUBSET Nat, S # {}
    PROVE  \E n \in S : \A m \in S : n <= m
<1>1. PICK n \in S : \A m \in S : <<m, n>> \notin OpToRel(<, Nat)
    BY WFMin, NatLessThanWellFounded
<1>2. \A m \in S : n <= m
  <2> SUFFICES ASSUME NEW m \in S, m < n PROVE FALSE
      OBVIOUS
  <2>1. <<m, n>> \in OpToRel(<, Nat)
      BY DEF OpToRel
  <2> QED BY <1>1, <2>1
<1> QED BY <1>2

LEMMA FirstIsCompletion ==
    ASSUME TypeOK, Completions # {}
    PROVE  /\ FirstCompletion \in 1 .. Len(queue)
           /\ FirstCompletion > event_index
           /\ queue[FirstCompletion].kind = "PASTE"
<1>1. Completions \in SUBSET Nat
    BY DEF Completions, TypeOK
<1>2. \E k \in Completions : \A j \in Completions : k <= j
    BY <1>1, LeastExists
<1>3. FirstCompletion \in Completions
    BY <1>2 DEF FirstCompletion
<1> QED BY <1>3 DEF Completions, TypeOK
-----------------------------------------------------------------------------
(* What the handlers of events do to the document.  Each is looked at in a *)
(* step that acts on an input.                                             *)
Acting ==
    /\ pc = "events" /\ pc' = "events"
    /\ warned' = warned
    /\ Len(applied') = Len(applied) + 1

(* The document is in order, and a changed view is to be drawn when the    *)
(* document's state is another or the handler asks for it.                 *)
Handled ==
    /\ DocumentTypeOK' /\ DocumentInv'
    /\ View' = View \/ document_state_id' # document_state_id

USE DEF document_state_id, document_length

LEMMA DocumentTypes ==
    ASSUME DocumentTypeOK
    PROVE  /\ DOMAIN history = 1 .. Len(history) /\ Len(history) \in Nat
           /\ \A k \in 1 .. Len(history) : history[k].id \in Nat /\ history[k].length \in Nat
           /\ document_state_id \in Nat /\ document_length \in Nat
<1>1. history \in Seq([id : Nat, length : Nat]) /\ position \in 1 .. Len(history)
    BY DEF DocumentTypeOK
<1>2. \A k \in 1 .. Len(history) : history[k] \in [id : Nat, length : Nat]
    BY <1>1, ElementOfSeq
<1>3. \A r \in [id : Nat, length : Nat] : r.id \in Nat /\ r.length \in Nat
    OBVIOUS
<1> QED BY <1>1, <1>2, <1>3

LEMMA NothingHandled ==
    ASSUME IInv, Acting, UNCHANGED <<document, anchor, saving>>
    PROVE  Handled
<1>1. /\ UNCHANGED <<history, position, cursor, anchor, saved_state, close_armed, title_dirty, title>>
    BY DEF document, saving
<1>2. DocumentTypeOK'
    BY <1>1, Zenon DEF IInv, TypeOK, DocumentTypeOK
<1>3. HistoryOrdered'
  <2>1. \A k \in DOMAIN history : history[k].id \in Nat
      BY DocumentTypes DEF IInv, TypeOK
  <2>2. Len(applied) \in Nat
      BY DEF IInv, TypeOK
  <2> QED BY <1>1, <2>1, <2>2 DEF IInv, DocumentInv, HistoryOrdered, Acting
<1>4. SelectionInDocument' /\ TitleIsTruthful'
    BY <1>1 DEF IInv, DocumentInv, SelectionInDocument, TitleIsTruthful, editor_dirty
<1>5. SavingInv'
    BY <1>1 DEF IInv, DocumentInv, SavingInv, editor_dirty, Acting
<1> QED BY <1>1, <1>2, <1>3, <1>4, <1>5 DEF Handled, DocumentInv, View

(* Only the message of the title changes. *)
LEMMA ErrorHandled ==
    ASSUME IInv, Acting,
           UNCHANGED <<document, anchor, saved_state, close_armed, title_dirty>>,
           editor_error("error")
    PROVE  Handled
<1>1. /\ UNCHANGED <<history, position, cursor, anchor, saved_state, close_armed, title_dirty>>
      /\ title' = [star |-> document_state_id' # saved_state', message |-> "error"]
    BY DEF document, editor_error, editor_title
<1>2. DocumentTypeOK'
  <2>1. title' \in [star : BOOLEAN, message : {"none", "error", "unsaved"}]
      BY <1>1
  <2> QED BY <1>1, <2>1, Zenon DEF IInv, TypeOK, DocumentTypeOK
<1>3. HistoryOrdered'
  <2>1. \A k \in DOMAIN history : history[k].id \in Nat
      BY DocumentTypes DEF IInv, TypeOK
  <2>2. Len(applied) \in Nat
      BY DEF IInv, TypeOK
  <2> QED BY <1>1, <2>1, <2>2 DEF IInv, DocumentInv, HistoryOrdered, Acting
<1>4. SelectionInDocument'
    BY <1>1 DEF IInv, DocumentInv, SelectionInDocument
<1>5. TitleIsTruthful'
    BY <1>1 DEF TitleIsTruthful, editor_dirty
<1>6. SavingInv'
    BY <1>1 DEF IInv, DocumentInv, SavingInv, editor_dirty, Acting
<1> QED BY <1>1, <1>2, <1>3, <1>4, <1>5, <1>6 DEF Handled, DocumentInv, View

(* editor_changed, after any change of the document. *)
LEMMA ChangedHandled ==
    ASSUME IInv, Acting, editor_changed,
           history' \in Seq([id : Nat, length : Nat]), position' \in 1 .. Len(history'),
           cursor' \in Nat, cursor' <= document_length', HistoryOrdered',
           document_state_id' # document_state_id
    PROVE  Handled
<1> DEFINE dirty == document_state_id' # saved_state
<1>1. /\ anchor' = cursor' /\ close_armed' = FALSE /\ saved_state' = saved_state
      /\ title_dirty' = dirty
      /\ title' = IF dirty # title_dirty \/ close_armed
                  THEN [star |-> document_state_id' # saved_state', message |-> "none"] ELSE title
    BY DEF editor_changed, editor_title
<1>2. /\ title_dirty \in BOOLEAN /\ close_armed \in BOOLEAN /\ saved_state \in Nat
      /\ title \in [star : BOOLEAN, message : {"none", "error", "unsaved"}]
    BY DEF IInv, TypeOK, DocumentTypeOK
<1>3. DocumentTypeOK'
  <2>1. title' \in [star : BOOLEAN, message : {"none", "error", "unsaved"}]
      BY <1>1, <1>2
  <2>2. dirty \in BOOLEAN
      OBVIOUS
  <2> HIDE DEF dirty
  <2> QED BY <1>1, <1>2, <2>1, <2>2, Zenon DEF DocumentTypeOK
<1>4. SelectionInDocument'
    BY <1>1 DEF SelectionInDocument
<1>5. TitleIsTruthful'
  <2>1. /\ title.star <=> title_dirty
        /\ title.message = "unsaved" => close_armed
      BY DEF IInv, DocumentInv, SavingInv, TitleIsTruthful
  <2> QED BY <1>1, <2>1 DEF TitleIsTruthful, editor_dirty
<1>6. SavingInv'
    BY <1>1 DEF SavingInv, editor_dirty, Acting
<1> QED BY <1>3, <1>4, <1>5, <1>6 DEF Handled, DocumentInv

(* Some of the document is replaced by some text. *)
LEMMA ReplaceHandled ==
    ASSUME IInv, Acting, NEW offset \in Nat, NEW removed \in Nat, NEW length \in Nat,
           offset + removed <= document_length,
           editor_replace(offset, removed, length)
    PROVE  Handled
<1>1. CASE UNCHANGED <<document, anchor, saving>>
    BY <1>1, NothingHandled
<1>2. CASE ReplaceFails
    BY <1>2, ErrorHandled DEF ReplaceFails
<1>3. CASE ReplaceBytes(offset, removed, length)
  <2> DEFINE S == [id : Nat, length : Nat]
             new == [id |-> NewId, length |-> document_length - removed + length]
  <2>1. /\ history \in Seq(S) /\ position \in 1 .. Len(history)
        /\ Len(applied) \in Nat
      BY DEF IInv, TypeOK, DocumentTypeOK
  <2>2. document_length \in Nat /\ new \in S
    <3>1. document_length \in Nat
        BY DocumentTypes DEF IInv, TypeOK
    <3>2. document_length - removed + length \in Nat /\ NewId \in Nat
        BY SMTT(20), <2>1, <3>1 DEF NewId
    <3> QED BY <3>1, <3>2
  <2>a. /\ new.id = Len(applied) + 1 /\ new.length = document_length - removed + length
      BY DEF NewId
  <2> HIDE DEF S, new
  <2>3. /\ history' = Append(SubSeq(history, 1, position), new)
        /\ position' = position + 1 /\ cursor' = offset + length /\ editor_changed
      BY <1>3 DEF ReplaceBytes, new
  <2>4. /\ history' \in Seq(S) /\ Len(history') = position + 1
        /\ \A k \in 1 .. position : history'[k] = history[k]
        /\ history'[position + 1] = new
      BY <2>1, <2>2, <2>3, PrefixAppended
  <2>5. position' \in 1 .. Len(history')
      BY <2>1, <2>3, <2>4
  <2>6. cursor' \in Nat /\ cursor' <= document_length'
      BY <2>a, <2>2, <2>3, <2>4
  <2>7. \A k \in 1 .. position : history[k].id \in Nat /\ history[k].id <= Len(applied)
    <3>1. \A k \in DOMAIN history : history[k].id <= Len(applied)
        BY DEF IInv, DocumentInv, HistoryOrdered
    <3>2. 1 .. position \subseteq 1 .. Len(history)
        BY <2>1
    <3> QED BY <3>1, <3>2, DocumentTypes DEF IInv, TypeOK
  <2>8. HistoryOrdered'
    <3>1. DOMAIN history' = 1 .. position + 1
        BY <2>1, <2>4
    <3>2. \A k \in 1 .. position + 1 : history'[k].id <= Len(applied')
        BY <2>1, <2>4, <2>a, <2>7 DEF Acting
    <3>3. \A j, k \in 1 .. position + 1 : j < k => history'[j].id < history'[k].id
      <4> SUFFICES ASSUME NEW j \in 1 .. position + 1, NEW k \in 1 .. position + 1, j < k
                   PROVE  history'[j].id < history'[k].id
          OBVIOUS
      <4>1. CASE k = position + 1
        <5>1. j \in 1 .. position
            BY <2>1, <4>1
        <5> QED BY <2>1, <2>4, <2>a, <2>7, <4>1, <5>1
      <4>2. CASE k # position + 1
        <5>1. /\ j \in 1 .. position /\ k \in 1 .. position
              /\ j \in DOMAIN history /\ k \in DOMAIN history
            BY <2>1, <4>2
        <5> QED BY <2>4, <5>1 DEF IInv, DocumentInv, HistoryOrdered
      <4> QED BY <4>1, <4>2
    <3> QED BY <3>1, <3>2, <3>3 DEF HistoryOrdered
  <2>9. document_state_id' # document_state_id
      BY <2>1, <2>3, <2>4, <2>a, <2>7
  <2> QED BY <2>3, <2>4, <2>5, <2>6, <2>8, <2>9, ChangedHandled DEF S
<1> QED BY <1>1, <1>2, <1>3 DEF editor_replace

LEMMA Bounds ==
    ASSUME IInv
    PROVE  /\ cursor \in Nat /\ anchor \in Nat /\ Begin \in Nat /\ End \in Nat
           /\ Begin <= End /\ End <= document_length /\ document_length \in Nat
           /\ cursor <= document_length /\ cursor \in {Begin, End}
           /\ (Begin = End) <=> (cursor = anchor)
<1>1. /\ cursor \in Nat /\ anchor \in Nat /\ document_length \in Nat
      /\ cursor <= document_length /\ anchor <= document_length
    BY DocumentTypes DEF IInv, TypeOK, DocumentTypeOK, DocumentInv, SelectionInDocument
<1> HIDE DEF document_length
<1> QED BY <1>1 DEF Begin, End, Lower, Upper

LEMMA InsertHandled ==
    ASSUME IInv, Acting, NEW length \in Nat, editor_insert(length)
    PROVE  Handled
<1>1. editor_replace(Begin, End - Begin, length)
    BY DEF editor_insert
<1>2. End - Begin \in Nat /\ Begin + (End - Begin) <= document_length
    BY Bounds
<1> QED BY <1>1, <1>2, Bounds, ReplaceHandled

(* Undo and redo: another state of the history, with another id. *)
LEMMA TravelHandled ==
    ASSUME IInv, Acting, NEW to \in Int, to # position, Travel(to)
    PROVE  Handled
<1>1. CASE to \notin DOMAIN history
    BY <1>1, NothingHandled DEF Travel
<1>2. CASE to \in DOMAIN history
  <2>1. /\ position' = to /\ cursor' \in 0 .. history[to].length
        /\ history' = history /\ editor_changed
      BY <1>2 DEF Travel
  <2>2. /\ history \in Seq([id : Nat, length : Nat])
        /\ position \in 1 .. Len(history)
        /\ Len(applied) \in Nat
      BY DEF IInv, TypeOK, DocumentTypeOK
  <2>3. /\ DOMAIN history = 1 .. Len(history)
        /\ \A k \in 1 .. Len(history) : history[k].id \in Nat /\ history[k].length \in Nat
      BY DocumentTypes DEF IInv, TypeOK
  <2>4. /\ \A k \in DOMAIN history : history[k].id <= Len(applied)
        /\ \A j, k \in DOMAIN history : j < k => history[j].id < history[k].id
      BY DEF IInv, DocumentInv, HistoryOrdered
  <2>5. position' \in 1 .. Len(history') /\ cursor' \in Nat /\ cursor' <= document_length'
      BY <1>2, <2>1, <2>3
  <2>6. HistoryOrdered'
      BY <2>1, <2>2, <2>3, <2>4 DEF HistoryOrdered, Acting
  <2>7. document_state_id' # document_state_id
    <3>1. history[to].id \in Nat /\ history[position].id \in Nat
        BY <1>2, <2>2, <2>3
    <3>2. history[to].id < history[position].id \/ history[position].id < history[to].id
      <4>1. to \in Nat /\ position \in Nat /\ (to < position \/ position < to)
          BY <1>2, <2>2, <2>3
      <4> QED BY <1>2, <2>2, <2>3, <2>4, <4>1
    <3>3. document_state_id' = history[to].id
        BY <2>1
    <3> QED BY <3>1, <3>2, <3>3
  <2> QED BY <2>1, <2>2, <2>5, <2>6, <2>7, ChangedHandled
<1> QED BY <1>1, <1>2

(* A save makes the state the document is in the saved one. *)
LEMMA SaveHandled ==
    ASSUME IInv, Acting, editor_save, UNCHANGED anchor
    PROVE  Handled
<1>1. CASE UNCHANGED <<document, saved_state, close_armed, title_dirty>> /\ editor_error("error")
    BY <1>1, ErrorHandled
<1>2. CASE /\ saved_state' = document_state_id /\ title_dirty' = FALSE /\ close_armed' = FALSE
           /\ UNCHANGED document /\ editor_title("none")
  <2>1. /\ UNCHANGED <<history, position, cursor, anchor>>
        /\ title' = [star |-> FALSE, message |-> "none"]
      BY <1>2 DEF document, editor_title
  <2>2. DocumentTypeOK'
    <3>1. title' \in [star : BOOLEAN, message : {"none", "error", "unsaved"}]
        BY <2>1
    <3>2. saved_state' \in Nat
        BY <1>2, DocumentTypes DEF IInv, TypeOK
    <3> QED BY <1>2, <2>1, <3>1, <3>2, Zenon DEF IInv, TypeOK, DocumentTypeOK
  <2>3. HistoryOrdered'
    <3>1. \A k \in DOMAIN history : history[k].id \in Nat
        BY DocumentTypes DEF IInv, TypeOK
    <3>2. Len(applied) \in Nat
        BY DEF IInv, TypeOK
    <3> QED BY <2>1, <3>1, <3>2 DEF IInv, DocumentInv, HistoryOrdered, Acting
  <2>4. SelectionInDocument' /\ TitleIsTruthful' /\ SavingInv'
      BY <1>2, <2>1 DEF IInv, DocumentInv, SelectionInDocument, TitleIsTruthful, SavingInv,
                        editor_dirty
  <2> QED BY <2>1, <2>2, <2>3, <2>4 DEF Handled, DocumentInv, View
<1> QED BY <1>1, <1>2 DEF editor_save

(* The caret and the anchor move inside the document. *)
LEMMA MovedInDocument ==
    ASSUME IInv, Acting, UNCHANGED <<history, position, saving>>,
           cursor' \in 0 .. document_length, anchor' \in 0 .. document_length
    PROVE  DocumentTypeOK' /\ DocumentInv'
<1>1. UNCHANGED <<history, position, saved_state, close_armed, title_dirty, title>>
    BY DEF saving
<1>2. cursor' \in Nat /\ anchor' \in Nat /\ cursor' <= document_length /\ anchor' <= document_length
    BY Bounds
<1>3. DocumentTypeOK'
    BY <1>1, <1>2, Zenon DEF IInv, TypeOK, DocumentTypeOK
<1>4. HistoryOrdered'
  <2>1. \A k \in DOMAIN history : history[k].id \in Nat
      BY DocumentTypes DEF IInv, TypeOK
  <2>2. Len(applied) \in Nat
      BY DEF IInv, TypeOK
  <2> QED BY <1>1, <2>1, <2>2 DEF IInv, DocumentInv, HistoryOrdered, Acting
<1>5. SelectionInDocument'
    BY <1>1, <1>2 DEF SelectionInDocument
<1>6. TitleIsTruthful' /\ SavingInv'
    BY <1>1 DEF IInv, DocumentInv, TitleIsTruthful, SavingInv, editor_dirty, Acting
<1> QED BY <1>3, <1>4, <1>5, <1>6 DEF DocumentInv

(* A step that leaves the document and the count of inputs alone. *)
LEMMA DocumentKept ==
    ASSUME IInv, UNCHANGED <<document, anchor, saving, applied, warned>>,
           pc' # "closed" \/ UNCHANGED pc
    PROVE  DocumentTypeOK' /\ DocumentInv' /\ UNCHANGED View
<1>1. /\ UNCHANGED <<history, position, cursor, anchor, saved_state, close_armed, title_dirty, title>>
      /\ UNCHANGED <<applied, warned>>
    BY DEF document, saving
<1>2. DocumentTypeOK'
    BY <1>1, Zenon DEF IInv, TypeOK, DocumentTypeOK
<1>3. HistoryOrdered' /\ SelectionInDocument' /\ TitleIsTruthful' /\ SavingInv'
    BY <1>1 DEF IInv, DocumentInv, HistoryOrdered, SelectionInDocument, TitleIsTruthful, SavingInv,
                editor_dirty
<1> QED BY <1>1, <1>2, <1>3 DEF DocumentInv, View

(* Every handler keeps the document in order, and asks for a redraw when   *)
(* it changes the view.                                                    *)
Drawn ==
    /\ DocumentTypeOK' /\ DocumentInv'
    /\ selecting' \in BOOLEAN /\ redraw' \in BOOLEAN
    /\ ~redraw' => ~redraw /\ UNCHANGED View

LEMMA HandledIsDrawn ==
    ASSUME IInv, Handled, selecting' \in BOOLEAN, DrawIfChanged \/ redraw' = TRUE
    PROVE  Drawn
<1>1. redraw \in BOOLEAN
    BY DEF IInv, TypeOK
<1>2. /\ redraw' \in BOOLEAN
      /\ ~redraw' => ~redraw /\ document_state_id' = document_state_id
    BY <1>1 DEF DrawIfChanged
<1>3. DocumentTypeOK' /\ DocumentInv' /\ (View' = View \/ document_state_id' # document_state_id)
    BY DEF Handled
<1> QED BY <1>2, <1>3, Zenon DEF Drawn

LEMMA MoveIsDrawn ==
    ASSUME IInv, Acting, NEW to \in 0 .. document_length, NEW extend \in BOOLEAN,
           editor_move(to, extend), selecting' \in BOOLEAN
    PROVE  Drawn
<1>1. /\ cursor' = to /\ anchor' = (IF extend THEN anchor ELSE to) /\ redraw' = TRUE
      /\ UNCHANGED <<history, position, saving>>
    BY DEF editor_move
<1>2. anchor \in 0 .. document_length
    BY Bounds DEF IInv, DocumentInv, SelectionInDocument
<1>3. anchor' \in 0 .. document_length
    BY <1>1, <1>2
<1> QED BY <1>1, <1>3, MovedInDocument DEF Drawn

LEMMA DeleteIsDrawn == ASSUME IInv, Acting, Delete PROVE Drawn
<1>1. PICK forward \in BOOLEAN :
         LET begin == IF Begin = End /\ ~forward THEN Upper(cursor - 1, 0) ELSE Begin
             end == IF Begin = End /\ forward THEN Lower(cursor + 1, document_length) ELSE End
         IN  editor_replace(begin, end - begin, 0)
    BY DEF Delete
<1> DEFINE begin == IF Begin = End /\ ~forward THEN Upper(cursor - 1, 0) ELSE Begin
           end == IF Begin = End /\ forward THEN Lower(cursor + 1, document_length) ELSE End
<1>2. begin \in Nat /\ end - begin \in Nat /\ begin + (end - begin) <= document_length
  <2> HIDE DEF document_length
  <2>1. CASE Begin = End
    <3>1. cursor = Begin /\ cursor = End
        BY <2>1, Bounds
    <3> QED BY SMTT(20), <2>1, <3>1, Bounds DEF Upper, Lower
  <2>2. CASE Begin # End
      BY <2>2, Bounds
  <2> QED BY <2>1, <2>2
<1>3. editor_replace(begin, end - begin, 0)
    BY <1>1
<1> HIDE DEF begin, end
<1>4. Handled
    BY <1>2, <1>3, ReplaceHandled
<1> QED BY <1>4, HandledIsDrawn DEF Delete, IInv, TypeOK

LEMMA ArrowIsDrawn == ASSUME IInv, Acting, Arrow PROVE Drawn
<1>1. PICK forward \in BOOLEAN, shift \in BOOLEAN :
         editor_move(IF ~shift /\ anchor # cursor
                     THEN IF forward THEN End ELSE Begin
                     ELSE IF forward THEN Lower(cursor + 1, document_length)
                                     ELSE Upper(cursor - 1, 0), shift)
    BY DEF Arrow
<1> DEFINE to == IF ~shift /\ anchor # cursor
                 THEN IF forward THEN End ELSE Begin
                 ELSE IF forward THEN Lower(cursor + 1, document_length)
                                 ELSE Upper(cursor - 1, 0)
<1>2. to \in 0 .. document_length
  <2> HIDE DEF document_length
  <2> QED BY Bounds DEF Upper, Lower
<1>3. editor_move(to, shift)
    BY <1>1
<1> HIDE DEF to
<1>4. selecting' \in BOOLEAN
    BY DEF Arrow, IInv, TypeOK
<1> QED BY <1>2, <1>3, <1>4, MoveIsDrawn

LEMMA CopyIsDrawn ==
    ASSUME IInv, Acting, NEW cut \in BOOLEAN, editor_copy(cut)
    PROVE  Drawn
<1>1. Handled
  <2>1. CASE UNCHANGED <<document, anchor, saving>>
      BY <2>1, NothingHandled
  <2>2. CASE CopyFails
      BY <2>2, ErrorHandled DEF CopyFails
  <2>3. CASE editor_replace(Begin, End - Begin, 0)
    <3>1. End - Begin \in Nat /\ Begin + (End - Begin) <= document_length
        BY Bounds
    <3> QED BY <2>3, <3>1, Bounds, ReplaceHandled
  <2> QED BY <2>1, <2>2, <2>3 DEF editor_copy
<1> QED BY <1>1, HandledIsDrawn DEF editor_copy, IInv, TypeOK

LEMMA HandleIsDrawn ==
    ASSUME IInv, Acting, NEW kind, Handle(kind)
    PROVE  Drawn
<1>0. /\ 0 \in 0 .. document_length /\ document_length \in 0 .. document_length
      /\ cursor \in 0 .. document_length
    BY Bounds
<1>a. selecting \in BOOLEAN /\ redraw \in BOOLEAN
    BY DEF IInv, TypeOK
<1>1. CASE Text
  <2>1. Handled
      BY <1>1, InsertHandled DEF Text
  <2> QED BY <1>1, <1>a, <2>1, HandledIsDrawn DEF Text
<1>2. CASE Delete
    BY <1>2, DeleteIsDrawn
<1>3. CASE Arrow
    BY <1>3, ArrowIsDrawn
<1>4. CASE Jump
    BY <1>4, <1>a, MoveIsDrawn DEF Jump
<1>5. CASE SelectAll
  <2>1. /\ UNCHANGED <<history, position, saving>> /\ UNCHANGED selecting /\ redraw' = TRUE
        /\ cursor' \in 0 .. document_length /\ anchor' \in 0 .. document_length
      BY <1>0, <1>5 DEF SelectAll
  <2> QED BY <1>a, <2>1, MovedInDocument DEF Drawn
<1>6. CASE Escape
  <2>1. /\ UNCHANGED <<history, position, saving>> /\ selecting' = FALSE /\ redraw' = TRUE
        /\ cursor' \in 0 .. document_length /\ anchor' \in 0 .. document_length
      BY <1>0, <1>6 DEF Escape, document
  <2> QED BY <2>1, MovedInDocument DEF Drawn
<1>7. CASE editor_copy(FALSE) \/ editor_copy(TRUE)
    BY <1>7, CopyIsDrawn
<1>8. CASE /\ Travel(position - 1) \/ Travel(position + 1)
           /\ DrawIfChanged /\ UNCHANGED selecting
  <2>1. /\ position - 1 \in Int /\ position - 1 # position
        /\ position + 1 \in Int /\ position + 1 # position
      BY DEF IInv, TypeOK, DocumentTypeOK
  <2>2. Handled
      BY <1>8, <2>1, TravelHandled
  <2> QED BY <1>8, <1>a, <2>2, HandledIsDrawn
<1>9. CASE editor_save /\ redraw' = TRUE /\ UNCHANGED selection
  <2>1. Handled
      BY <1>9, SaveHandled DEF selection
  <2> QED BY <1>9, <1>a, <2>1, HandledIsDrawn DEF selection
<1>10. CASE Press
    BY <1>10, MoveIsDrawn DEF Press
<1>11. CASE UNCHANGED <<document, anchor, saving, redraw>> /\ selecting' \in BOOLEAN
  <2>1. Handled
      BY <1>11, NothingHandled
  <2>2. redraw' = redraw /\ UNCHANGED View
      BY <1>11 DEF document, View
  <2> QED BY <1>11, <1>a, <2>1, <2>2 DEF Handled, Drawn
<1>12. CASE Move
  <2>1. CASE selecting
      BY <1>12, <1>a, <2>1, MoveIsDrawn DEF Move
  <2>2. CASE ~selecting
      BY <1>11, <1>12, <1>a, <2>2 DEF Move, selection
  <2> QED BY <2>1, <2>2
<1>13. CASE Release
    BY <1>11, <1>13 DEF Release
<1>14. CASE UNCHANGED <<document, selection, saving, redraw>>
    BY <1>11, <1>14, <1>a DEF selection
<1> QED BY <1>1, <1>2, <1>3, <1>4, <1>5, <1>6, <1>7, <1>8, <1>9, <1>10, <1>12, <1>13, <1>14
        DEF Handle
-----------------------------------------------------------------------------
(* What the steps of the loop and of the window do to the queue. *)

LEMMA QueueTypes ==
    ASSUME IInv
    PROVE  /\ queue \in Seq([kind : Kinds, id : Nat, len : 0 .. 1])
           /\ DOMAIN queue = 1 .. Len(queue) /\ Len(queue) \in Nat
           /\ event_index \in 0 .. Len(queue) /\ event_index \in Nat
           /\ paste_pending \in BOOLEAN
           /\ issued \in Nat /\ applied \in Seq(Nat) /\ Len(applied) \in Nat /\ Taken \in Nat
           /\ \A k \in DOMAIN queue : /\ queue[k].id \in Nat /\ queue[k].kind \in Kinds
                                      /\ queue[k].len \in 0 .. 1
           /\ DOMAIN applied = 1 .. Len(applied)
<1> DEFINE E == [kind : Kinds, id : Nat, len : 0 .. 1]
<1>1. /\ queue \in Seq(E) /\ event_index \in 0 .. Len(queue) /\ paste_pending \in BOOLEAN
      /\ issued \in Nat /\ applied \in Seq(Nat)
    BY DEF IInv, TypeOK
<1>2. \A e \in E : e.id \in Nat /\ e.kind \in Kinds /\ e.len \in 0 .. 1
    OBVIOUS
<1> HIDE DEF E
<1>3. /\ Len(queue) \in Nat /\ DOMAIN queue = 1 .. Len(queue)
      /\ \A k \in DOMAIN queue : queue[k] \in E
    BY <1>1
<1>4. Len(applied) \in Nat /\ DOMAIN applied = 1 .. Len(applied)
    BY <1>1
<1>5. Taken \in Nat
    BY <1>4 DEF Taken
<1> QED BY <1>1, <1>2, <1>3, <1>4, <1>5 DEF E

LEMMA QueueKept ==
    ASSUME IInv, UNCHANGED <<queue, event_index, paste_pending, issued, applied>>,
           pc' = "close" /\ ~paste_pending => pc = "close"
    PROVE  QueueInv'
BY DEF IInv, QueueInv, QueueInOrder, InputInOrder, Waits, Taken, Requested

(* An input of the user is queued as the youngest. *)
LEMMA InputQueued ==
    ASSUME IInv, UserInput
    PROVE  QueueInv' /\ queue' \in Seq([kind : Kinds, id : Nat, len : 0 .. 1])
           /\ event_index' \in 0 .. Len(queue')
<1> DEFINE E == [kind : Kinds, id : Nat, len : 0 .. 1]
<1>1. PICK kind \in Inputs : queue' = Append(queue, Event(kind, issued + 1, 1))
    BY DEF UserInput
<1> DEFINE new == Event(kind, issued + 1, 1)
<1>2. issued \in Nat /\ kind \in Kinds /\ kind # "PASTE"
    BY QueueTypes, BoundsAssumption DEF Kinds
<1>3. new \in E /\ new.id = issued + 1 /\ new.kind # "PASTE"
    BY <1>2 DEF Event
<1>4. /\ queue \in Seq(E) /\ DOMAIN queue = 1 .. Len(queue) /\ Len(queue) \in Nat
      /\ queue' = Append(queue, new)
    BY <1>1, QueueTypes
<1> HIDE DEF new, E
<1>5. /\ queue' \in Seq(E) /\ Len(queue') = Len(queue) + 1
      /\ DOMAIN queue' = 1 .. Len(queue) + 1
      /\ \A k \in 1 .. Len(queue) : queue'[k] = queue[k]
      /\ queue'[Len(queue) + 1] = new
    BY <1>3, <1>4, AppendIsSeq
<1>6. /\ pc' = "poll" /\ issued' = issued + 1
      /\ UNCHANGED <<event_index, paste_pending, applied>>
    BY DEF UserInput
<1>7. /\ \A k : Waits(k)' <=> Waits(k) \/ k = Len(queue) + 1
      /\ \A k : Waits(k) => k \in 1 .. Len(queue)
    BY SMTT(20), <1>3, <1>4, <1>5, <1>6, QueueTypes DEF Waits
<1>8. Taken' = Taken
    BY <1>6 DEF Taken
<1>9. QueueInOrder'
  <2>1. Taken' <= issued'
      BY <1>6, <1>8, QueueTypes DEF IInv, QueueInv, QueueInOrder
  <2>2. \A k : Waits(k)' => queue'[k].id \in Taken' + 1 .. issued'
    <3>1. \A k : Waits(k) => queue[k].id \in Taken + 1 .. issued
        BY DEF IInv, QueueInv, QueueInOrder
    <3>2. issued + 1 \in Taken + 1 .. issued + 1
        BY QueueTypes DEF IInv, QueueInv, QueueInOrder
    <3> QED BY <1>3, <1>5, <1>6, <1>7, <1>8, <3>1, <3>2, QueueTypes
  <2>3. \A j, k : Waits(j)' /\ Waits(k)' /\ j < k => queue'[j].id < queue'[k].id
    <3> SUFFICES ASSUME NEW j, NEW k, Waits(j)', Waits(k)', j < k
                 PROVE  queue'[j].id < queue'[k].id
        OBVIOUS
    <3>1. j \in 1 .. Len(queue) + 1 /\ k \in 1 .. Len(queue) + 1
        BY <1>7, QueueTypes
    <3>2. Waits(j) /\ j \in 1 .. Len(queue)
        BY <1>7, <3>1, QueueTypes
    <3>3. queue[j].id \in Taken + 1 .. issued
        BY <3>2 DEF IInv, QueueInv, QueueInOrder
    <3>4. CASE k = Len(queue) + 1
        BY <1>3, <1>5, <3>2, <3>3, <3>4, QueueTypes
    <3>5. CASE Waits(k)
        BY <1>5, <1>7, <3>2, <3>5 DEF IInv, QueueInv, QueueInOrder
    <3> QED BY <1>7, <3>4, <3>5
  <2>4. \A n \in Taken' + 1 .. issued' : \E k : Waits(k)' /\ queue'[k].id = n
    <3> SUFFICES ASSUME NEW n \in Taken' + 1 .. issued'
                 PROVE  \E k : Waits(k)' /\ queue'[k].id = n
        OBVIOUS
    <3>1. CASE n = issued + 1
        BY <1>3, <1>5, <1>7, <3>1
    <3>2. CASE n # issued + 1
      <4>1. n \in Taken + 1 .. issued
          BY <1>6, <1>8, <3>2, QueueTypes
      <4>2. PICK k : Waits(k) /\ queue[k].id = n
          BY <4>1 DEF IInv, QueueInv, QueueInOrder
      <4> QED BY <1>5, <1>7, <4>2
    <3> QED BY <3>1, <3>2
  <2>5. (paste_pending => event_index > 0 /\ Requested = Len(applied) + 1)'
    <3>1. paste_pending => event_index > 0 /\ Requested = Len(applied) + 1
        BY DEF IInv, QueueInv, QueueInOrder
    <3> QED BY <1>5, <1>6, <3>1, QueueTypes DEF Requested
  <2> QED BY <2>1, <2>2, <2>3, <2>4, <2>5 DEF QueueInOrder
<1>10. InputInOrder'
    BY <1>6 DEF IInv, QueueInv, InputInOrder
<1> QED BY <1>4, <1>5, <1>6, <1>9, <1>10, QueueTypes DEF QueueInv, E

(* A completion is queued: it is no input. *)
LEMMA CompletionQueued ==
    ASSUME IInv, TransferEnds
    PROVE  QueueInv' /\ queue' \in Seq([kind : Kinds, id : Nat, len : 0 .. 1])
           /\ event_index' \in 0 .. Len(queue')
<1> DEFINE E == [kind : Kinds, id : Nat, len : 0 .. 1]
<1>1. PICK len \in 0 .. 1 : queue' = Append(queue, Event("PASTE", 0, len))
    BY DEF TransferEnds
<1> DEFINE new == Event("PASTE", 0, len)
<1>3. new \in E /\ new.kind = "PASTE"
    BY DEF Event, Kinds
<1>4. /\ queue \in Seq(E) /\ DOMAIN queue = 1 .. Len(queue) /\ Len(queue) \in Nat
      /\ queue' = Append(queue, new)
    BY <1>1, QueueTypes
<1> HIDE DEF new, E
<1>5. /\ queue' \in Seq(E) /\ Len(queue') = Len(queue) + 1
      /\ DOMAIN queue' = 1 .. Len(queue) + 1
      /\ \A k \in 1 .. Len(queue) : queue'[k] = queue[k]
      /\ queue'[Len(queue) + 1] = new
    BY <1>3, <1>4, AppendIsSeq
<1>6. /\ pc' = "poll" /\ UNCHANGED <<event_index, paste_pending, applied, issued>>
    BY DEF TransferEnds, ghosts
<1>7. \A k : /\ Waits(k)' <=> Waits(k)
             /\ Waits(k) => k \in 1 .. Len(queue) /\ queue'[k] = queue[k]
    BY <1>3, <1>4, <1>5, <1>6, QueueTypes DEF Waits
<1>8. Taken' = Taken
    BY <1>6 DEF Taken
<1>9. QueueInOrder'
  <2>1. (paste_pending => event_index > 0 /\ Requested = Len(applied) + 1)'
    <3>1. paste_pending => event_index > 0 /\ Requested = Len(applied) + 1
        BY DEF IInv, QueueInv, QueueInOrder
    <3> QED BY <1>5, <1>6, <3>1, QueueTypes DEF Requested
  <2> QED BY <1>6, <1>7, <1>8, <2>1 DEF IInv, QueueInv, QueueInOrder
<1>10. InputInOrder'
    BY <1>6 DEF IInv, QueueInv, InputInOrder
<1> QED BY <1>4, <1>5, <1>6, <1>9, <1>10, QueueTypes DEF QueueInv, E

(* The completion waited for leaves the queue, and its paste counts as     *)
(* acted on.                                                               *)
LEMMA CompletionTaken ==
    ASSUME IInv, CompletePaste
    PROVE  /\ QueueInv' /\ queue' \in Seq([kind : Kinds, id : Nat, len : 0 .. 1])
           /\ event_index' \in 0 .. Len(queue') /\ applied' \in Seq(Nat)
           /\ Len(applied') = Len(applied) + 1
<1> DEFINE f == FirstCompletion
           E == [kind : Kinds, id : Nat, len : 0 .. 1]
<1>1. /\ f \in 1 .. Len(queue) /\ f > event_index /\ queue[f].kind = "PASTE"
    BY FirstIsCompletion DEF CompletePaste, IInv
<1>2. /\ paste_pending /\ paste_pending' = FALSE /\ pc' = "events"
      /\ queue' = RemoveAt(queue, f) /\ applied' = Append(applied, Requested)
      /\ UNCHANGED <<event_index, issued>>
    BY DEF CompletePaste
<1>3. queue \in Seq(E) /\ DOMAIN queue = 1 .. Len(queue) /\ Len(queue) \in Nat
    BY QueueTypes
<1> HIDE DEF f, E
<1>4. /\ queue' \in Seq(E) /\ Len(queue') = Len(queue) - 1
      /\ \A k \in 1 .. f - 1 : queue'[k] = queue[k]
      /\ \A k \in f .. Len(queue) - 1 : queue'[k] = queue[k + 1]
    BY <1>1, <1>2, <1>3, Removed
<1>5. DOMAIN queue' = 1 .. Len(queue) - 1
    BY <1>4
<1>6. /\ \A k : Waits(k) => k \in 1 .. Len(queue) /\ k # f
      /\ \A k \in 1 .. f - 1 : Waits(k)' <=> Waits(k)
      /\ \A k \in f .. Len(queue) - 1 : Waits(k)' <=> Waits(k + 1)
      /\ \A k : Waits(k)' => k \in 1 .. Len(queue) - 1
  <2>1. event_index \in Nat /\ event_index' = event_index
      BY <1>2, QueueTypes
  <2>2. \A k : Waits(k) => k \in 1 .. Len(queue) /\ k # f
      BY <1>1, <1>3 DEF Waits
  <2>3. \A k \in 1 .. f - 1 : Waits(k)' <=> Waits(k)
    <3>1. \A k \in 1 .. f - 1 : k \in 1 .. Len(queue) /\ k \in 1 .. Len(queue) - 1
        BY <1>1, <1>3
    <3> QED BY <1>3, <1>4, <1>5, <2>1, <3>1 DEF Waits
  <2>4. \A k \in f .. Len(queue) - 1 : Waits(k)' <=> Waits(k + 1)
    <3>1. \A k \in f .. Len(queue) - 1 : /\ k + 1 \in 1 .. Len(queue) /\ k \in 1 .. Len(queue) - 1
                                         /\ k > event_index /\ k + 1 > event_index
        BY <1>1, <1>3, <2>1
    <3> QED BY <1>3, <1>4, <1>5, <2>1, <3>1 DEF Waits
  <2>5. \A k : Waits(k)' => k \in 1 .. Len(queue) - 1
      BY <1>5 DEF Waits
  <2> QED BY <2>2, <2>3, <2>4, <2>5
<1>7. /\ Requested = Len(applied) + 1 /\ event_index > 0
      /\ \A k : Waits(k) => queue[k].id \in Taken + 1 .. issued
      /\ \A j, k : Waits(j) /\ Waits(k) /\ j < k => queue[j].id < queue[k].id
      /\ \A n \in Taken + 1 .. issued : \E k : Waits(k) /\ queue[k].id = n
      /\ Taken <= issued
    BY <1>2 DEF IInv, QueueInv, QueueInOrder
<1>8. /\ applied' \in Seq(Nat) /\ Len(applied') = Len(applied) + 1
      /\ DOMAIN applied' = 1 .. Len(applied) + 1
      /\ \A k \in 1 .. Len(applied) : applied'[k] = applied[k]
      /\ applied'[Len(applied) + 1] = Requested
    BY <1>2, <1>7, QueueTypes, AppendIsSeq
<1>9. Taken' = Taken
    BY <1>2, <1>8, QueueTypes DEF Taken
<1>10. \A k : Waits(k)' => \E m : /\ Waits(m) /\ queue'[k] = queue[m]
                                  /\ m = IF k < f THEN k ELSE k + 1
  <2> SUFFICES ASSUME NEW k, Waits(k)'
               PROVE  \E m : /\ Waits(m) /\ queue'[k] = queue[m]
                             /\ m = IF k < f THEN k ELSE k + 1
      OBVIOUS
  <2>1. k \in 1 .. Len(queue) - 1
      BY <1>6
  <2>2. (k \in 1 .. f - 1 /\ k < f) \/ (k \in f .. Len(queue) - 1 /\ ~(k < f))
      BY <1>1, <1>3, <2>1
  <2> QED BY <1>4, <1>6, <2>2
<1>11. QueueInOrder'
  <2>1. \A k : Waits(k)' => queue'[k].id \in Taken' + 1 .. issued'
      BY <1>2, <1>7, <1>9, <1>10
  <2>2. \A j, k : Waits(j)' /\ Waits(k)' /\ j < k => queue'[j].id < queue'[k].id
    <3> SUFFICES ASSUME NEW j, NEW k, Waits(j)', Waits(k)', j < k
                 PROVE  queue'[j].id < queue'[k].id
        OBVIOUS
    <3>1. PICK i : Waits(i) /\ queue'[j] = queue[i] /\ i = IF j < f THEN j ELSE j + 1
        BY <1>10
    <3>2. PICK m : Waits(m) /\ queue'[k] = queue[m] /\ m = IF k < f THEN k ELSE k + 1
        BY <1>10
    <3>3. j \in Nat /\ k \in Nat /\ f \in Nat
        BY <1>1, <1>6, QueueTypes
    <3>4. i < m
        BY <3>1, <3>2, <3>3
    <3> QED BY <1>7, <3>1, <3>2, <3>4
  <2>3. \A n \in Taken' + 1 .. issued' : \E k : Waits(k)' /\ queue'[k].id = n
    <3> SUFFICES ASSUME NEW n \in Taken + 1 .. issued
                 PROVE  \E k : Waits(k)' /\ queue'[k].id = n
        BY <1>2, <1>9
    <3>1. PICK m : Waits(m) /\ queue[m].id = n
        BY <1>7
    <3>2. m \in 1 .. Len(queue) /\ m # f
        BY <1>6, <3>1
    <3>3. CASE m < f
      <4>1. m \in 1 .. f - 1
          BY <1>1, <1>3, <3>2, <3>3
      <4> QED BY <1>4, <1>6, <3>1, <4>1
    <3>4. CASE m > f
      <4>1. m - 1 \in f .. Len(queue) - 1 /\ (m - 1) + 1 = m
          BY <1>1, <3>2, <3>4, QueueTypes
      <4> QED BY <1>4, <1>6, <3>1, <4>1
    <3> QED BY <1>1, <3>2, <3>3, <3>4, QueueTypes
  <2> QED BY <1>2, <1>7, <1>9, <2>1, <2>2, <2>3 DEF QueueInOrder
<1>12. InputInOrder'
    BY <1>2, <1>7, <1>8, QueueTypes DEF InputInOrder, IInv, QueueInv
<1>13. event_index' \in 0 .. Len(queue')
    BY <1>1, <1>2, <1>4, QueueTypes
<1> QED BY <1>4, <1>8, <1>11, <1>12, <1>13 DEF QueueInv, E

(* The next event in the queue is the oldest input that waits, or a        *)
(* completion nobody waits for.                                            *)
LEMMA EventTaken ==
    ASSUME IInv, HandleEvent
    PROVE  /\ QueueInv' /\ applied' \in Seq(Nat) /\ event_index' \in 0 .. Len(queue')
           /\ paste_pending' \in BOOLEAN
           /\ IF queue[event_index + 1].kind \in {"paste", "PASTE"} THEN applied' = applied
              ELSE Len(applied') = Len(applied) + 1
<1> DEFINE i == event_index + 1
           event == queue[i]
<1>1. /\ i \in 1 .. Len(queue) /\ i > event_index /\ i \in Nat
      /\ i \in DOMAIN queue /\ event.id \in Nat
    BY QueueTypes DEF HandleEvent
<1>2. /\ ~paste_pending /\ paste_pending' = (event.kind = "paste") /\ pc' = "events"
      /\ applied' = IF event.kind \in {"paste", "PASTE"} THEN applied
                    ELSE Append(applied, event.id)
      /\ event_index' = i
      /\ UNCHANGED <<queue, issued>>
    BY DEF HandleEvent
<1> HIDE DEF event
<1>3. /\ \A k : Waits(k) => queue[k].id \in Taken + 1 .. issued
      /\ \A j, k : Waits(j) /\ Waits(k) /\ j < k => queue[j].id < queue[k].id
      /\ \A n \in Taken + 1 .. issued : \E k : Waits(k) /\ queue[k].id = n
      /\ Taken <= issued /\ Taken = Len(applied)
    BY <1>2, QueueTypes DEF IInv, QueueInv, QueueInOrder, Taken
<1>4. \A k : Waits(k)' <=> Waits(k) /\ k # i
    BY <1>1, <1>2, QueueTypes DEF Waits
<1>5. \A k : Waits(k) => k \in Nat /\ k >= i /\ queue[k].id \in Nat
    BY <1>1, QueueTypes DEF Waits
<1>6. CASE event.kind = "PASTE"
  <2>1. ~Waits(i)
      BY <1>6 DEF Waits, event
  <2>2. applied' = applied /\ paste_pending' = FALSE
      BY <1>2, <1>6
  <2>3. Taken' = Taken
      BY <1>2, <2>2 DEF Taken
  <2>4. QueueInOrder'
      BY <1>2, <1>3, <1>4, <2>1, <2>2, <2>3 DEF QueueInOrder
  <2>5. InputInOrder'
      BY <1>2, <2>2 DEF IInv, QueueInv, InputInOrder
  <2> QED BY <1>1, <1>2, <1>6, <2>2, <2>4, <2>5, QueueTypes DEF QueueInv, event
<1>7. CASE event.kind # "PASTE"
  <2>1. Waits(i)
      BY <1>1, <1>7 DEF Waits, event
  <2>2. event.id = Taken + 1
    <3>1. event.id \in Taken + 1 .. issued
        BY <1>3, <2>1 DEF event
    <3>2. Taken + 1 \in Taken + 1 .. issued
        BY <3>1, QueueTypes
    <3>3. PICK k : Waits(k) /\ queue[k].id = Taken + 1
        BY <1>3, <3>2
    <3>4. CASE k = i
        BY <3>3, <3>4 DEF event
    <3>5. CASE k # i
      <4>1. i < k
          BY <1>1, <1>5, <3>3, <3>5
      <4>2. event.id < queue[k].id
          BY <1>3, <2>1, <3>3, <4>1 DEF event
      <4> QED BY <1>1, <3>1, <3>3, <4>2, QueueTypes
    <3> QED BY <3>4, <3>5
  <2>3. /\ applied' \in Seq(Nat)
        /\ IF event.kind = "paste" THEN applied' = applied
           ELSE /\ Len(applied') = Len(applied) + 1
                /\ \A k \in 1 .. Len(applied) : applied'[k] = applied[k]
                /\ applied'[Len(applied) + 1] = event.id
    <3>1. applied \in Seq(Nat)
        BY QueueTypes
    <3>2. CASE event.kind = "paste"
        BY <1>2, <3>1, <3>2
    <3>3. CASE event.kind # "paste"
      <4>1. applied' = Append(applied, event.id)
          BY <1>2, <1>7, <3>3
      <4> QED BY <1>1, <3>1, <3>3, <4>1, AppendIsSeq
    <3> QED BY <3>2, <3>3
  <2>4. Taken' = Taken + 1
    <3>1. CASE event.kind = "paste"
      <4>1. paste_pending' = TRUE /\ Len(applied') = Len(applied)
          BY <1>2, <2>3, <3>1
      <4> QED BY <1>3, <4>1 DEF Taken
    <3>2. CASE event.kind # "paste"
      <4>1. paste_pending' = FALSE /\ Len(applied') = Len(applied) + 1
          BY <1>2, <2>3, <3>2
      <4>2. Len(applied) \in Nat
          BY QueueTypes
      <4> QED BY <1>3, <4>1, <4>2 DEF Taken
    <3> QED BY <3>1, <3>2
  <2>5. QueueInOrder'
    <3>1. Taken' <= issued'
        BY <1>2, <1>3, <2>1, <2>2, <2>4, QueueTypes DEF event
    <3>2. \A k : Waits(k)' => queue'[k].id \in Taken' + 1 .. issued'
      <4> SUFFICES ASSUME NEW k, Waits(k)' PROVE queue[k].id \in Taken + 2 .. issued
          BY <1>2, <2>4, QueueTypes
      <4>1. Waits(k) /\ i < k
          BY <1>1, <1>4, <1>5
      <4>2. event.id < queue[k].id
          BY <1>3, <2>1, <4>1 DEF event
      <4>3. queue[k].id \in Taken + 1 .. issued
          BY <1>3, <4>1
      <4> QED BY <2>2, <4>2, <4>3, QueueTypes
    <3>3. \A j, k : Waits(j)' /\ Waits(k)' /\ j < k => queue'[j].id < queue'[k].id
        BY <1>2, <1>3, <1>4
    <3>4. \A n \in Taken' + 1 .. issued' : \E k : Waits(k)' /\ queue'[k].id = n
      <4> SUFFICES ASSUME NEW n \in Taken + 2 .. issued
                   PROVE  \E k : Waits(k)' /\ queue[k].id = n
          BY SMTT(20), <1>2, <2>4, QueueTypes
      <4>1. n \in Taken + 1 .. issued /\ n # Taken + 1
          BY QueueTypes
      <4>2. PICK k : Waits(k) /\ queue[k].id = n
          BY <1>3, <4>1
      <4>3. k # i
          BY <2>2, <4>1, <4>2 DEF event
      <4> QED BY <1>4, <4>2, <4>3
    <3>5. (paste_pending => event_index > 0 /\ Requested = Len(applied) + 1)'
      <4>1. paste_pending' => applied' = applied
          BY <1>2, <2>3
      <4>2. Requested' = event.id /\ event_index' > 0
          BY <1>1, <1>2 DEF Requested, event
      <4>3. event.id = Len(applied) + 1
          BY <1>3, <2>2
      <4> QED BY <4>1, <4>2, <4>3
    <3> QED BY <3>1, <3>2, <3>3, <3>4, <3>5 DEF QueueInOrder
  <2>6. InputInOrder'
    <3>1. DOMAIN applied' = 1 .. Len(applied')
        BY <2>3
    <3>2. \A k \in 1 .. Len(applied) : applied[k] = k
        BY QueueTypes DEF IInv, QueueInv, InputInOrder
    <3> QED BY <1>2, <1>3, <2>2, <2>3, <3>1, <3>2, QueueTypes DEF InputInOrder
  <2>7. event_index' \in 0 .. Len(queue')
      BY <1>1, <1>2, QueueTypes
  <2>8. IF event.kind \in {"paste", "PASTE"} THEN applied' = applied
        ELSE Len(applied') = Len(applied) + 1
      BY <1>7, <2>3
  <2>9. paste_pending' \in BOOLEAN
      BY <1>2
  <2> QED BY <2>3, <2>5, <2>6, <2>7, <2>8, <2>9 DEF QueueInv, event
<1> QED BY <1>6, <1>7

(* At the end of the queue nothing waits any more: everything is acted on. *)
LEMMA QueueEmptied ==
    ASSUME IInv, EventsDone
    PROVE  /\ QueueInv' /\ queue' \in Seq([kind : Kinds, id : Nat, len : 0 .. 1])
           /\ event_index' \in 0 .. Len(queue')
<1>1. /\ ~paste_pending /\ event_index = Len(queue) /\ queue' = << >> /\ event_index' = 0
      /\ UNCHANGED <<paste_pending, issued, applied>>
    BY DEF EventsDone, ghosts
<1>2. \A k : ~Waits(k) /\ ~Waits(k)'
    BY <1>1, QueueTypes DEF Waits
<1>3. Taken = issued /\ Taken' = Taken /\ Taken = Len(applied)
  <2>1. ~\E n \in Taken + 1 .. issued : TRUE
      BY <1>2 DEF IInv, QueueInv, QueueInOrder
  <2>2. Taken <= issued
      BY DEF IInv, QueueInv, QueueInOrder
  <2> QED BY <1>1, <2>1, <2>2, QueueTypes DEF Taken
<1>4. QueueInOrder'
    BY <1>1, <1>2, <1>3, QueueTypes DEF QueueInOrder
<1>5. InputInOrder'
    BY <1>1, <1>3 DEF IInv, QueueInv, InputInOrder
<1> QED BY <1>1, <1>4, <1>5 DEF QueueInv
-----------------------------------------------------------------------------
(* The invariant is inductive. *)

LEMMA InitIInv == Init => IInv
<1> SUFFICES ASSUME Init PROVE IInv
    OBVIOUS
<1> DEFINE S == [id : Nat, length : Nat]
           first == [id |-> 0, length |-> 1]
<1>1. first \in S /\ first.id = 0 /\ first.length = 1
    OBVIOUS
<1>2. history = <<first>> /\ position = 1 /\ cursor = 0 /\ anchor = 0
    BY DEF Init
<1> HIDE DEF S, first
<1>3. history \in Seq(S) /\ Len(history) = 1 /\ DOMAIN history = 1 .. 1 /\ history[1] = first
    BY <1>1, <1>2
<1>4. document_state_id = 0 /\ document_length = 1
    BY <1>1, <1>2, <1>3
<1>5. /\ pc = "poll" /\ queue = << >> /\ event_index = 0
      /\ paste_pending = FALSE /\ transfer = FALSE /\ request_close = FALSE
      /\ selecting = FALSE /\ saved_state = 0 /\ close_armed = FALSE /\ title_dirty = FALSE
      /\ title = [star |-> FALSE, message |-> "none"]
      /\ redraw = TRUE /\ issued = 0 /\ applied = << >>
    BY DEF Init
<1>6. DocumentTypeOK
  <2>1. history \in Seq([id : Nat, length : Nat])
      BY <1>3 DEF S
  <2>2. title \in [star : BOOLEAN, message : {"none", "error", "unsaved"}]
      BY <1>5
  <2>3. position \in 1 .. Len(history) /\ cursor \in Nat /\ anchor \in Nat /\ saved_state \in Nat
      BY <1>2, <1>3, <1>5
  <2>4. close_armed \in BOOLEAN /\ title_dirty \in BOOLEAN
      BY <1>5
  <2> QED BY <2>1, <2>2, <2>3, <2>4, Zenon DEF DocumentTypeOK
<1>7. TypeOK
  <2>1. queue \in Seq([kind : Kinds, id : Nat, len : 0 .. 1]) /\ Len(queue) = 0
      BY <1>5
  <2>2. applied \in Seq(Nat)
      BY <1>5
  <2>3. /\ event_index \in 0 .. Len(queue) /\ issued \in Nat
        /\ pc \in {"poll", "events", "close", "draw", "frame", "closed"}
      BY <1>5, <2>1
  <2>4. /\ paste_pending \in BOOLEAN /\ transfer \in BOOLEAN /\ request_close \in BOOLEAN
        /\ selecting \in BOOLEAN /\ redraw \in BOOLEAN
      BY <1>5
  <2> QED BY <1>6, <2>1, <2>2, <2>3, <2>4, Zenon DEF TypeOK
<1>8. QueueInv
    BY <1>5 DEF QueueInv, QueueInOrder, InputInOrder, Waits, Taken
<1>9. HistoryOrdered
    BY <1>1, <1>3, <1>5 DEF HistoryOrdered
<1>10. SelectionInDocument
    BY <1>2, <1>4 DEF SelectionInDocument
<1>11. ~editor_dirty
    BY <1>4, <1>5 DEF editor_dirty
<1>12. SavingInv /\ TitleIsTruthful
    BY <1>5, <1>11 DEF SavingInv, TitleIsTruthful, editor_dirty
<1>13. ViewInv
    BY <1>5 DEF ViewInv
<1> QED BY <1>7, <1>8, <1>9, <1>10, <1>12, <1>13 DEF IInv, DocumentInv

(* Steps that leave the document alone, by what they do to the rest. *)
LEMMA OtherSteps ==
    ASSUME IInv, UNCHANGED <<document, selection, saving, applied, warned>>,
           pc' \in {"poll", "events", "close", "draw", "frame", "closed"},
           pc' # "closed" \/ UNCHANGED pc,
           QueueInv', queue' \in Seq([kind : Kinds, id : Nat, len : 0 .. 1]),
           event_index' \in 0 .. Len(queue'),
           UNCHANGED paste_pending, transfer' \in BOOLEAN, request_close' \in BOOLEAN,
           issued' \in Nat, redraw' \in BOOLEAN,
           ~redraw' => \/ ~redraw /\ shown' = shown
                       \/ shown' \in {View, << >>}
    PROVE  IInv'
<1>1. DocumentTypeOK' /\ DocumentInv' /\ UNCHANGED View
    BY DocumentKept DEF selection
<1>2. TypeOK'
  <2>1. selecting' \in BOOLEAN /\ applied' \in Seq(Nat) /\ paste_pending' \in BOOLEAN
      BY DEF IInv, TypeOK, selection
  <2> QED BY <1>1, <2>1, Zenon DEF TypeOK
<1>3. ViewInv'
    BY <1>1 DEF IInv, ViewInv
<1> QED BY <1>1, <1>2, <1>3 DEF IInv

LEMMA CompletePasteIInv == ASSUME IInv, CompletePaste PROVE IInv'
<1>1. /\ QueueInv' /\ queue' \in Seq([kind : Kinds, id : Nat, len : 0 .. 1])
      /\ event_index' \in 0 .. Len(queue') /\ applied' \in Seq(Nat)
      /\ Len(applied') = Len(applied) + 1
    BY CompletionTaken
<1>2. /\ pc = "events" /\ DrawIfChanged /\ paste_pending' = FALSE
      /\ UNCHANGED <<pc, transfer, request_close, selecting, shown, issued, warned>>
      /\ \/ editor_insert(queue[FirstCompletion].len)
         \/ UNCHANGED <<document, anchor, saving>>
    BY DEF CompletePaste
<1>3. Acting
    BY <1>1, <1>2 DEF Acting
<1>4. Handled
  <2>1. FirstCompletion \in DOMAIN queue
      BY FirstIsCompletion, QueueTypes DEF CompletePaste, IInv
  <2>2. queue[FirstCompletion].len \in Nat
      BY <2>1, QueueTypes
  <2> QED BY <1>2, <1>3, <2>2, InsertHandled, NothingHandled
<1>5. Drawn
    BY <1>2, <1>4, HandledIsDrawn DEF IInv, TypeOK
<1>6. TypeOK'
  <2>1. /\ transfer' \in BOOLEAN /\ request_close' \in BOOLEAN /\ issued' \in Nat
        /\ paste_pending' \in BOOLEAN
        /\ pc' \in {"poll", "events", "close", "draw", "frame", "closed"}
      BY <1>2 DEF IInv, TypeOK
  <2> QED BY <1>1, <1>5, <2>1, Zenon DEF TypeOK, Drawn
<1>7. ViewInv'
    BY <1>2, <1>5 DEF Drawn, IInv, ViewInv
<1> QED BY <1>1, <1>5, <1>6, <1>7 DEF IInv, Drawn

LEMMA HandleEventIInv == ASSUME IInv, HandleEvent PROVE IInv'
<1> DEFINE event == queue[event_index + 1]
<1>1. /\ QueueInv' /\ applied' \in Seq(Nat) /\ event_index' \in 0 .. Len(queue')
      /\ paste_pending' \in BOOLEAN
      /\ IF event.kind \in {"paste", "PASTE"} THEN applied' = applied
         ELSE Len(applied') = Len(applied) + 1
    BY EventTaken
<1>2. /\ pc = "events" /\ Handle(event.kind)
      /\ transfer' = (transfer \/ event.kind = "paste")
      /\ request_close' = (request_close \/ event.kind = "quit")
      /\ UNCHANGED <<pc, queue, shown, issued, warned>>
    BY DEF HandleEvent
<1> HIDE DEF event
<1>3. Drawn
  <2>1. CASE event.kind \in {"paste", "PASTE"}
    <3>1. UNCHANGED <<document, selection, saving, redraw>> /\ UNCHANGED <<applied, warned>>
        BY <1>1, <1>2, <2>1 DEF Handle
    <3>2. DocumentTypeOK' /\ DocumentInv' /\ UNCHANGED View
        BY <1>2, <3>1, DocumentKept DEF selection
    <3> QED BY <3>1, <3>2 DEF Drawn, IInv, TypeOK, selection
  <2>2. CASE event.kind \notin {"paste", "PASTE"}
    <3>1. Acting
        BY <1>1, <1>2, <2>2 DEF Acting
    <3> QED BY <1>2, <3>1, HandleIsDrawn
  <2> QED BY <2>1, <2>2
<1>4. TypeOK'
  <2>1. /\ transfer' \in BOOLEAN /\ request_close' \in BOOLEAN /\ issued' \in Nat
        /\ pc' \in {"poll", "events", "close", "draw", "frame", "closed"}
        /\ queue' \in Seq([kind : Kinds, id : Nat, len : 0 .. 1])
      BY <1>2 DEF IInv, TypeOK
  <2> QED BY <1>1, <1>3, <2>1, Zenon DEF TypeOK, Drawn
<1>5. ViewInv'
    BY <1>2, <1>3 DEF Drawn, IInv, ViewInv
<1> QED BY <1>1, <1>3, <1>4, <1>5 DEF IInv, Drawn

(* A close request is refused with a warning, unless it was warned of the  *)
(* state the document is in.                                               *)
LEMMA CloseIInv == ASSUME IInv, Close PROVE IInv'
<1>1. /\ pc = "close"
      /\ UNCHANGED <<queue, event_index, paste_pending, transfer, anchor, selecting, title_dirty,
                     redraw, shown, issued, applied>>
      /\ UNCHANGED <<history, position, cursor, saved_state>>
      /\ pc' = IF request_close' THEN "closed" ELSE "draw"
    BY DEF Close, selection, screen, document
<1>2. \/ /\ request_close' = FALSE /\ close_armed' = TRUE /\ warned' = document_state_id
         /\ title' = [star |-> document_state_id' # saved_state', message |-> "unsaved"]
      \/ /\ request_close' = request_close /\ close_armed' = close_armed
         /\ warned' = warned /\ title' = title
         /\ ~(request_close /\ editor_dirty /\ ~close_armed)
    BY DEF Close, editor_error, editor_title
<1>3. /\ request_close' \in BOOLEAN /\ close_armed' \in BOOLEAN
      /\ title' \in [star : BOOLEAN, message : {"none", "error", "unsaved"}]
      /\ pc' \in {"poll", "events", "close", "draw", "frame", "closed"}
  <2>1. /\ request_close \in BOOLEAN /\ close_armed \in BOOLEAN
        /\ title \in [star : BOOLEAN, message : {"none", "error", "unsaved"}]
      BY DEF IInv, TypeOK, DocumentTypeOK
  <2>2. request_close' \in BOOLEAN /\ close_armed' \in BOOLEAN
      BY <1>2, <2>1
  <2>3. title' \in [star : BOOLEAN, message : {"none", "error", "unsaved"}]
    <3>1. CASE title' = [star |-> document_state_id' # saved_state', message |-> "unsaved"]
        BY <3>1
    <3>2. CASE title' = title
        BY <2>1, <3>2
    <3> QED BY <1>2, <3>1, <3>2
  <2> QED BY <1>1, <2>2, <2>3
<1>4. DocumentTypeOK'
    BY <1>1, <1>3, Zenon DEF IInv, TypeOK, DocumentTypeOK
<1>5. TypeOK'
    BY <1>1, <1>3, <1>4, Zenon DEF IInv, TypeOK
<1>6. HistoryOrdered' /\ SelectionInDocument'
    BY <1>1 DEF IInv, DocumentInv, HistoryOrdered, SelectionInDocument
<1>7. TitleIsTruthful'
  <2>1. CASE UNCHANGED <<title, close_armed>>
    <3>1. UNCHANGED <<history, position, saved_state, title, close_armed>>
        BY <1>1, <2>1
    <3> QED BY <3>1, Zenon DEF IInv, DocumentInv, TitleIsTruthful, editor_dirty
  <2>2. CASE /\ close_armed' = TRUE
             /\ title' = [star |-> document_state_id' # saved_state', message |-> "unsaved"]
      BY <2>2 DEF TitleIsTruthful, editor_dirty
  <2> QED BY <1>2, <2>1, <2>2
<1>8. SavingInv'
    BY <1>1, <1>2 DEF IInv, DocumentInv, SavingInv, editor_dirty
<1>9. ViewInv'
    BY <1>1 DEF IInv, ViewInv, View
<1>10. QueueInv'
  <2>1. pc' # "close"
      BY <1>1
  <2> QED BY <1>1, <2>1, QueueKept
<1> QED BY <1>5, <1>6, <1>7, <1>8, <1>9, <1>10 DEF IInv, DocumentInv

LEMMA NextIInv == ASSUME IInv, [Next]_vars PROVE IInv'
<1>0. /\ pc \in {"poll", "events", "close", "draw", "frame", "closed"}
      /\ queue \in Seq([kind : Kinds, id : Nat, len : 0 .. 1])
      /\ event_index \in 0 .. Len(queue)
      /\ paste_pending \in BOOLEAN /\ transfer \in BOOLEAN /\ request_close \in BOOLEAN
      /\ issued \in Nat /\ redraw \in BOOLEAN
      /\ ~redraw => shown \in {View, << >>}
    BY DEF IInv, TypeOK, ViewInv
<1>1. CASE UserInput
  <2>1. issued' \in Nat
      BY <1>0, <1>1 DEF UserInput
  <2> QED BY <1>0, <1>1, <2>1, InputQueued, OtherSteps DEF UserInput, screen
<1>2. CASE TransferEnds
    BY <1>0, <1>2, CompletionQueued, OtherSteps DEF TransferEnds, screen, ghosts
<1>3. CASE WmClose
    BY <1>0, <1>3, QueueKept, OtherSteps DEF WmClose, screen, ghosts
<1>4. CASE Poll
    BY <1>0, <1>4, QueueKept, OtherSteps DEF Poll, input, screen, ghosts
<1>5. CASE CompletePaste
    BY <1>5, CompletePasteIInv
<1>6. CASE AwaitPaste
    BY <1>0, <1>6, QueueKept, OtherSteps DEF AwaitPaste, input, screen, ghosts
<1>7. CASE HandleEvent
    BY <1>7, HandleEventIInv
<1>8. CASE EventsDone
    BY <1>0, <1>8, QueueEmptied, OtherSteps DEF EventsDone, screen, ghosts
<1>9. CASE Close
    BY <1>9, CloseIInv
<1>10. CASE Minimised
    BY <1>0, <1>10, QueueKept, OtherSteps DEF Minimised, input, screen, ghosts
<1>11. CASE Layout
  <2>1. PICK stale \in BOOLEAN : redraw' = (redraw \/ laid_out # document_state_id \/ stale)
      BY <1>11 DEF Layout
  <2>2. redraw' \in BOOLEAN /\ (~redraw' => ~redraw)
      BY <1>0, <2>1
  <2>3. pc' \in {"frame", "poll"} /\ UNCHANGED <<input, document, selection, saving, shown, ghosts>>
      BY <1>11 DEF Layout
  <2> QED BY <1>0, <2>2, <2>3, QueueKept, OtherSteps DEF input, ghosts
<1>12. CASE FrameRefused
    BY <1>0, <1>12, QueueKept, OtherSteps DEF FrameRefused, input, ghosts
<1>13. CASE Frame
    BY <1>0, <1>13, QueueKept, OtherSteps DEF Frame, input, ghosts
<1>14. CASE FrameLost
    BY <1>0, <1>14, QueueKept, OtherSteps DEF FrameLost, input, ghosts
<1>15. CASE UNCHANGED vars
    BY <1>0, <1>15, QueueKept, OtherSteps DEF vars, input, screen, ghosts
<1> QED BY <1>1, <1>2, <1>3, <1>4, <1>5, <1>6, <1>7, <1>8, <1>9, <1>10, <1>11, <1>12, <1>13, <1>14,
           <1>15 DEF Next, Loop, Closed

LEMMA SpecIInv == Spec => []IInv
BY InitIInv, NextIInv, PTL DEF Spec
-----------------------------------------------------------------------------
(* What the user did is acted on in the order it was done, for any number  *)
(* of inputs and any pastes that complete late, and each turn of the loop  *)
(* leaves nothing behind unless it waits for a paste.                      *)
THEOREM InputsAreInOrder == Spec => []InputInOrder
<1>1. IInv => InputInOrder
    BY DEF IInv, QueueInv
<1> QED BY <1>1, SpecIInv, PTL

(* The editor closes on unsaved changes only if the user was last warned   *)
(* of losing that very state, whatever was undone, redone, saved or pasted *)
(* between the warning and the second request.                             *)
THEOREM DiscardsAreWarned == Spec => []DiscardIsWarned
<1>1. IInv => DiscardIsWarned
    BY DEF IInv, DocumentInv, SavingInv, DiscardIsWarned
<1> QED BY <1>1, SpecIInv, PTL

(* The title's star is there exactly while there are unsaved changes, and  *)
(* its warning only while closing again discards.                          *)
THEOREM TitlesAreTruthful == Spec => []TitleIsTruthful
<1>1. IInv => TitleIsTruthful
    BY DEF IInv, DocumentInv
<1> QED BY <1>1, SpecIInv, PTL

(* Caret and anchor stay inside the document, of any length, through       *)
(* everything that shortens it.                                            *)
THEOREM SelectionsAreInDocument == Spec => []SelectionInDocument
<1>1. IInv => SelectionInDocument
    BY DEF IInv, DocumentInv
<1> QED BY <1>1, SpecIInv, PTL

(* No handler changes the view without asking for a redraw: between turns  *)
(* the screen shows the view, or the presentation failed.                  *)
THEOREM ScreensAreCurrent == Spec => []IdleShowsView
<1>1. IInv => IdleShowsView
    BY DEF IInv, ViewInv, IdleShowsView
<1> QED BY <1>1, SpecIInv, PTL
=============================================================================
