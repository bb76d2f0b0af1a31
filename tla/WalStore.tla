------------------------------- MODULE WalStore -------------------------------
(***************************************************************************)
(* The write-ahead history of prototypes/saving/storage_bench.c: frames of *)
(* edits and head selections appended to one file, acknowledged after a    *)
(* checked sync, and recovered by reading the file from the beginning.     *)
(* "direct" is the use recover_check makes of it (every frame written at   *)
(* once, branches, reopening), "packed" and "aligned" the groups of bench. *)
(* A frame is whole, torn inside its header or its payload, or damaged.    *)
(***************************************************************************)
EXTENDS Integers, Sequences, FiniteSets, FiniteSetsExt

CONSTANTS
  Modes,      \* the modes to start in
  Base,       \* the immutable base document, a sequence of bytes
  OtherBase,  \* a document that is not the base
  MaxSeq,     \* bound: frames in the file
  MaxDirect,  \* bound: frames in the file when each is written at once
  MaxEdits,   \* bound: edits written one by one
  Batch,      \* bound: edits of a group
  HDR,        \* bytes of a frame header
  Page,       \* alignment of the groups of "aligned"
  Chunk       \* preallocation unit, 0 is off

VARIABLES
  mode,
  file, exists,         \* the frames of "history", and whether it has a name
  synced, dir_synced,   \* how many frames, and whether the name, are durable
  reserved,             \* reserved_bytes
  pc, staging,          \* the writer, and the frames it has staged
  seq, head,            \* the writer's last sequence number and revision
  ack, ack_seq,         \* the acknowledged revision and its HEAD frame's number
  docs                  \* what the document was at each revision

media == <<file, exists, synced, dir_synced>>
acks == <<ack, ack_seq>>
vars == <<mode, media, reserved, pc, staging, seq, head, acks, docs>>

-------------------------------------------------------------------------------
(* Frames. *)

Frame(type, n, parent, edit, payload) ==
  [type |-> type, seq |-> n, parent |-> parent, edit |-> edit,
   bytes |-> HDR + payload, part |-> "whole"]

NoEdit == [offset |-> 0, old |-> <<>>, new |-> <<>>]

BaseFrame == Frame("BASE", 1, 0, [NoEdit EXCEPT !.new = Base], 40)
NodeFrame(n, parent, edit) ==
  Frame("NODE", n, parent, edit, 16 + Len(edit.old) + Len(edit.new))
\* The revision a HEAD frame selects is its payload.
HeadFrame(n, id) == Frame("HEAD", n, 0, [NoEdit EXCEPT !.offset = id], 8)

FileBytes(frames) ==
  LET total[n \in 0 .. Len(frames)] == IF n = 0 THEN 0 ELSE total[n - 1] + frames[n].bytes
  IN total[Len(frames)]

\* Mutant: a gap too short for a header is padded all the same.
SealedShort(end) == Page - (end % Page)

\* Bytes of the PAD frame that brings `end` to a page boundary.
Sealed(end) ==
  LET total == Page - (end % Page)
  IN IF total < HDR THEN total + Page ELSE total

PadFrame(n, end) == Frame("PAD", n, 0, NoEdit, Sealed(end) - HDR)

Grown(end) ==
  IF Chunk > 0 /\ end > reserved
  THEN reserved + ((end - reserved + Chunk - 1) \div Chunk) * Chunk
  ELSE reserved

-------------------------------------------------------------------------------
(* recover and materialize: pure functions of the frames. *)

Bad == <<-1>>  \* the document a failed materialize returns

\* The edit replaces exactly the bytes it removed, or it does not apply.
Apply(doc, e) ==
  IF /\ e.offset + Len(e.old) <= Len(doc)
     /\ SubSeq(doc, e.offset + 1, e.offset + Len(e.old)) = e.old
  THEN SubSeq(doc, 1, e.offset) \o e.new
       \o SubSeq(doc, e.offset + Len(e.old) + 1, Len(doc))
  ELSE Bad

Nothing == [status |-> "reading", sequence |-> 0, head |-> 0, nodes |-> <<>>]

Stops(r, status) == [r EXCEPT !.status = status]

ResultSize(r, id, base) == IF id = 0 THEN Len(base) ELSE r.nodes[id].size

WellPlaced(r, f) ==
  /\ f.seq = r.sequence + 1
  /\ f.type = "BASE" <=> f.seq = 1
  /\ f.type # "NODE" => f.parent = 0

Fits(r, f, base) ==
  /\ f.parent \in {0} \cup DOMAIN r.nodes
  /\ f.edit.offset + Len(f.edit.old) <= ResultSize(r, f.parent, base)

\* A complete frame with a good checksum.
Accept(r, f, base) ==
  LET next == [r EXCEPT !.sequence = f.seq]
      size == ResultSize(r, f.parent, base) - Len(f.edit.old) + Len(f.edit.new)
      node == [parent |-> f.parent, edit |-> f.edit, size |-> size]
  IN
  CASE f.type = "BASE" /\ f.edit.new = base -> next
    [] f.type = "BASE" /\ f.edit.new # base -> Stops(r, "MISMATCH")
    [] f.type = "NODE" /\ Fits(r, f, base) ->
         [next EXCEPT !.nodes = [i \in DOMAIN r.nodes \cup {f.seq} |->
                                   IF i = f.seq THEN node ELSE r.nodes[i]]]
    [] f.type = "HEAD" /\ f.edit.offset \in {0} \cup DOMAIN r.nodes ->
         [next EXCEPT !.head = f.edit.offset]
    [] f.type = "PAD" -> next
    [] OTHER -> Stops(r, "BAD")

\* Mutant: a frame whose payload is cut short is accepted.
RecoverFrameTorn(r, f, base) ==
  CASE r.status # "reading" -> r
    [] r.status = "reading" /\ f.part = "header" ->
         Stops(r, IF r.sequence > 0 THEN "PREFIX" ELSE "BAD")
    [] r.status = "reading" /\ f.part \in {"whole", "payload"} /\ WellPlaced(r, f) ->
         Accept(r, f, base)
    [] OTHER -> Stops(r, "BAD")

RecoverFrame(r, f, base) ==
  CASE r.status # "reading" -> r
    [] r.status = "reading" /\ f.part \in {"header", "payload"} ->
         Stops(r, IF r.sequence > 0 THEN "PREFIX" ELSE "BAD")
    [] r.status = "reading" /\ f.part = "whole" /\ WellPlaced(r, f) ->
         Accept(r, f, base)
    [] OTHER -> Stops(r, "BAD")

\* What has been recovered after each of the frames.
Reading(frames, base) ==
  LET reading[n \in 0 .. Len(frames)] ==
        IF n = 0 THEN Nothing ELSE RecoverFrame(reading[n - 1], frames[n], base)
  IN reading

Recover(base) ==
  LET r == Reading(file, base)[Len(file)]
  IN CASE ~exists -> Stops(Nothing, "IO")
       [] exists /\ r.status = "reading" ->
            Stops(r, IF r.sequence > 0 THEN "OK" ELSE "BAD")
       [] OTHER -> r

\* The document at revision id: the base with the edits of id's ancestors.
Materialize(r, base, id) ==
  LET text[i \in {0} \cup DOMAIN r.nodes] ==
        IF i = 0 THEN base ELSE Apply(text[r.nodes[i].parent], r.nodes[i].edit)
  IN IF id \in {0} \cup DOMAIN r.nodes THEN text[id] ELSE Bad

-------------------------------------------------------------------------------
(* The writer. *)

Init ==
  /\ mode \in Modes
  /\ file = <<>> /\ exists = TRUE
  /\ synced = 0 /\ dir_synced = FALSE
  /\ reserved = IF mode = "direct" THEN 0 ELSE Chunk
  /\ pc = "create" /\ staging = <<>>
  /\ seq = 0 /\ head = 0
  /\ ack = 0 /\ ack_seq = 0
  /\ docs = [id \in 0 .. MaxSeq |-> IF id = 0 THEN Base ELSE Bad]

\* What write_all leaves behind when it fails or the process exits in it: some
\* of the frames, the first one missing possibly torn.
Torn(frames) ==
  {SubSeq(frames, 1, k) : k \in 0 .. Len(frames) - 1} \cup
  UNION {{Append(SubSeq(frames, 1, k - 1), [frames[k] EXCEPT !.part = p]) :
            p \in {"header", "payload"}} : k \in 1 .. Len(frames)}

WriteAll(frames, to) ==
  \/ file' = file \o frames /\ pc' = to
  \/ \E part \in Torn(frames) : file' = file \o part /\ pc' = "down"

WriteBase ==
  /\ pc = "create"
  /\ WriteAll(<<BaseFrame>>, IF mode = "direct" THEN "idle" ELSE "based")
  /\ seq' = 1
  /\ UNCHANGED <<mode, exists, synced, dir_synced, reserved, staging, head, acks, docs>>

SyncFile == synced' = Len(file)

\* bench makes the base frame and the file's name durable before the first edit.
SyncBase ==
  /\ pc = "based"
  /\ \/ pc' = "named" /\ SyncFile
     \/ pc' = "down" /\ UNCHANGED synced
  /\ UNCHANGED <<mode, file, exists, dir_synced, reserved, staging, seq, head, acks, docs>>

SyncName(from, to) ==
  /\ pc = from
  /\ \/ pc' = to /\ dir_synced' = TRUE
     \/ pc' = "down" /\ UNCHANGED dir_synced
  /\ UNCHANGED <<mode, file, exists, synced, reserved, staging, seq, head, acks, docs>>

EditOf(doc, offset, n, new) ==
  [offset |-> offset, old |-> SubSeq(doc, offset + 1, offset + n), new |-> new]

\* Inserted bytes are named after the revision that inserts them.
Fresh(id) == <<10 + id>>

Edits == Cardinality({i \in DOMAIN file : file[i].type = "NODE"})

\* recover_check: a revision is derived from any earlier one and written at once.
Edit(parent, offset, n, new) ==
  LET id == seq + 1
      edit == EditOf(docs[parent], offset, n, new)
  IN
  /\ mode = "direct" /\ pc = "idle"
  /\ seq < MaxDirect /\ Edits < MaxEdits
  /\ docs[parent] # Bad /\ offset + n <= Len(docs[parent])
  /\ WriteAll(<<NodeFrame(id, parent, edit)>>, "idle")
  /\ seq' = id
  /\ docs' = [docs EXCEPT ![id] = Apply(docs[parent], edit)]
  /\ UNCHANGED <<mode, exists, synced, dir_synced, reserved, staging, head, acks>>

\* select_durable, up to its sync.
Select(id) ==
  /\ mode = "direct" /\ pc = "idle"
  /\ seq < MaxDirect
  /\ docs[id] # Bad
  /\ WriteAll(<<HeadFrame(seq + 1, id)>>, "written")
  /\ seq' = seq + 1
  /\ head' = id
  /\ UNCHANGED <<mode, exists, synced, dir_synced, reserved, staging, acks, docs>>

\* bench: an edit in place and its selection are staged for the group.
Stage(offset) ==
  LET id == seq + 1
      edit == EditOf(docs[head], offset, 1, Fresh(id))
  IN
  /\ mode # "direct" /\ pc = "idle"
  /\ seq + 3 <= MaxSeq /\ Len(staging) < 2 * Batch
  /\ staging' = staging \o <<NodeFrame(id, head, edit), HeadFrame(id + 1, id)>>
  /\ seq' = id + 1
  /\ head' = id
  /\ docs' = [docs EXCEPT ![id] = Apply(docs[head], edit)]
  /\ UNCHANGED <<mode, media, reserved, pc, acks>>

\* bench: seal the group, reserve its space, write it.
WriteGroup ==
  LET end == FileBytes(file \o staging)
      pads == IF mode = "aligned" THEN <<PadFrame(seq + 1, end)>> ELSE <<>>
      frames == staging \o pads
  IN
  /\ pc = "idle" /\ staging # <<>>
  /\ seq' = seq + Len(pads)
  /\ \/ /\ reserved' = Grown(FileBytes(file \o frames))
        /\ WriteAll(frames, "written")
     \/ /\ Grown(FileBytes(file \o frames)) # reserved
        /\ pc' = "down" /\ UNCHANGED <<reserved, file>>
  /\ staging' = <<>>
  /\ UNCHANGED <<mode, exists, synced, dir_synced, head, acks, docs>>

\* Mutant: the revision is acknowledged whether or not the sync succeeded.
SyncUnchecked ==
  /\ pc = "written"
  /\ \/ pc' = "idle" /\ SyncFile
     \/ pc' = "down" /\ UNCHANGED synced
  /\ ack' = head
  /\ ack_seq' = Max({i \in 1 .. Len(file) : file[i].type = "HEAD"})
  /\ UNCHANGED <<mode, file, exists, dir_synced, reserved, staging, seq, head, docs>>

\* Only a checked sync acknowledges; a failed one may have written everything.
Sync ==
  /\ pc = "written"
  /\ \/ /\ pc' = "idle"
        /\ SyncFile
        /\ ack' = head
        /\ ack_seq' = Max({i \in 1 .. Len(file) : file[i].type = "HEAD"})
     \/ /\ pc' = "down"
        /\ UNCHANGED <<synced, acks>>
  /\ UNCHANGED <<mode, file, exists, dir_synced, reserved, staging, seq, head, docs>>

\* The process exits, between two of its steps.
Exit ==
  /\ pc \notin {"down", "closing"}
  /\ \/ pc' = "down"
     \/ mode = "direct" /\ pc = "idle" /\ pc' = "closing"
  /\ staging' = <<>>
  /\ UNCHANGED <<mode, media, reserved, seq, head, acks, docs>>

\* The machine stops: what was not synced is lost from some frame on, or the whole
\* file while its name is not durable.
PowerLoss ==
  /\ pc' = "down" /\ staging' = <<>>
  /\ \/ /\ \E rest \in Torn(SubSeq(file, synced + 1, Len(file))) :
             file' = SubSeq(file, 1, synced) \o rest
        /\ UNCHANGED exists
     \/ ~dir_synced /\ file' = <<>> /\ exists' = FALSE
  /\ UNCHANGED <<mode, synced, dir_synced, reserved, seq, head, acks, docs>>

\* A frame on the medium goes bad while nobody writes.  One torn inside its header is
\* not looked at any further, whatever its bytes; of one torn in its payload it is the
\* header that goes bad, as its payload is not checked.
Damage(i) ==
  /\ pc = "down" /\ file[i].part # "header"
  /\ \A j \in DOMAIN file : file[j].part # "damaged"
  /\ file' = [file EXCEPT ![i].part = "damaged"]
  /\ UNCHANGED <<mode, exists, synced, dir_synced, reserved, pc, staging, seq, head, acks, docs>>

\* recover_check opens a file that recovers completely to append to it.
Reopen ==
  LET r == Recover(Base) IN
  /\ mode = "direct" /\ pc = "down"
  /\ r.status = "OK"
  /\ pc' = "idle"
  /\ seq' = r.sequence /\ head' = r.head
  /\ docs' = [id \in DOMAIN docs |-> IF id <= r.sequence THEN docs[id] ELSE Bad]
  /\ UNCHANGED <<mode, media, reserved, staging, acks>>

Next ==
  \/ WriteBase \/ SyncBase
  \/ SyncName("named", "idle") \/ SyncName("closing", "down")
  \/ \E parent \in 0 .. seq, offset \in 0 .. Len(Base) + MaxEdits :
       \/ Edit(parent, offset, 1, <<>>)
       \/ \E n \in 0 .. 1 : Edit(parent, offset, n, Fresh(seq + 1))
  \/ \E id \in 0 .. seq : Select(id)
  \/ \E offset \in 0 .. Len(Base) - 1 : Stage(offset)
  \/ WriteGroup \/ Sync \/ Exit \/ PowerLoss
  \/ \E i \in DOMAIN file : Damage(i)
  \/ Reopen

Spec == Init /\ [][Next]_vars

-------------------------------------------------------------------------------
(* Properties. *)

TypeOK ==
  /\ mode \in {"direct", "packed", "aligned"}
  /\ pc \in {"create", "based", "named", "idle", "written", "closing", "down"}
  /\ exists \in BOOLEAN /\ dir_synced \in BOOLEAN
  /\ Len(file) <= MaxSeq /\ (exists => synced \in 0 .. Len(file))
  /\ \A i \in DOMAIN file :
       /\ file[i].type \in {"BASE", "NODE", "HEAD", "PAD"}
       /\ file[i].part \in {"whole", "header", "payload", "damaged"}
       /\ file[i].seq = i
  /\ seq \in 0 .. MaxSeq /\ head \in 0 .. seq
  /\ ack \in 0 .. MaxSeq /\ ack_seq \in 0 .. MaxSeq
  /\ reserved \in Nat
  /\ Len(staging) <= 2 * Batch

Undamaged == \A i \in DOMAIN file : file[i].part # "damaged"

\* recover_check acknowledges its first selections before it syncs the directory, and
\* a power loss until then may take the file with its name.
LostWithName == mode = "direct" /\ ~exists

\* "Durable revision acknowledged only after checked sync": whatever is torn or
\* lost at a crash, but for recover_check's file that is lost with its name, recovery
\* selects the acknowledged revision or one selected after it, and every frame up to
\* the acknowledged HEAD is recovered.
AckSurvives ==
  ack_seq > 0 /\ Undamaged /\ ~LostWithName =>
    LET r == Recover(Base) IN
    /\ r.status \in {"OK", "PREFIX"}
    /\ r.sequence >= ack_seq
    /\ \/ r.head = ack
       \/ \E i \in ack_seq + 1 .. Len(file) :
            file[i].type = "HEAD" /\ file[i].edit.offset = r.head

\* Every recovered revision, on whatever branch and whatever was undone since,
\* materializes to the document the writer had when it made that revision.
RevisionsReachable ==
  LET r == Recover(Base) IN
  \A id \in DOMAIN r.nodes \cup {r.head} : Materialize(r, Base, id) = docs[id]

\* The status tells a clean end from a torn tail from corruption, and a history
\* is never replayed over a base that is not its own.
StatusTruthful ==
  LET r == Recover(Base)
      last == Len(file)
      wholeBefore == \A i \in 1 .. last - 1 : file[i].part = "whole"
      other == Recover(OtherBase)
  IN
  /\ r.status = "OK" <=> exists /\ last > 0 /\ wholeBefore /\ file[last].part = "whole"
  /\ r.status = "PREFIX" <=>
       exists /\ last > 1 /\ wholeBefore /\ file[last].part \in {"header", "payload"}
  /\ other.status \in {"IO", "BAD", "MISMATCH"} /\ other.nodes = <<>>

\* A sealed group ends on a page boundary, its padding fits the page-sized buffer it
\* is written from, and bench, which reserves in whole chunks, never writes past the
\* space it reserved.
GroupsPlaced ==
  /\ mode = "aligned" /\ pc = "written" => FileBytes(file) % Page = 0
  /\ \A i \in DOMAIN file : file[i].type = "PAD" => file[i].bytes - HDR \in 0 .. Page
  /\ mode # "direct" /\ Chunk > 0 =>
       FileBytes(file) <= reserved /\ reserved % Chunk = 0
===============================================================================
