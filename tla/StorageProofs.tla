------------------------------- MODULE StorageProofs ---------------------------
(***************************************************************************)
(* Proofs about Storage: whole files published in any number and of any    *)
(* size, and a history of any length.  Of the history the theorems say     *)
(* what recovery returns after any crash.  Recovery is a recursion over    *)
(* the frames; what it returns follows by induction, stated as a fact      *)
(* about sets (Induction), from LogInv, which says that the frames are a   *)
(* chain each of whose links a writer made.                                *)
(***************************************************************************)
EXTENDS Storage, SequenceTheorems, WellFoundedInduction, TLAPS
-------------------------------------------------------------------------------
(* The publication of whole files. *)

\* An inode is settled when both its cached and its written-back content are the
\* document it was made for; then write-back and power loss cannot change it.
Settled(i, version) == Whole(cache[i], version) /\ Whole(disk[i], version)

\* Which document the writer is at, and which one it has published.
Writer ==
  /\ pc = "idle" => published = group
  /\ pc \in {"write", "rename", "sync_dir"} => published = group - 1
  /\ pc = "down" => published \in {group - 1, group}

\* With replace, both names lead to a settled inode, published or being published.
Replacing ==
  kind = "replace" =>
    /\ name \in {published, group} /\ disk_name \in {published, group}
    /\ pc \in {"write", "rename"} => name = published /\ disk_name = published
    /\ pc = "sync_dir" => name = group
    /\ pc = "idle" => disk_name = group
    /\ \A i \in 0 .. group :
         i < group \/ i = name \/ pc \in {"rename", "sync_dir"} => Settled(i, i)

\* Without it there is one inode, settled whenever the writer is idle.
Overwriting ==
  kind # "replace" =>
    /\ name = 0 /\ disk_name = 0
    /\ pc \in {"idle", "write", "down"}
    /\ pc = "idle" => Settled(0, group)

\* The blocks already written hold the new document.
Progress ==
  pc = "write" => \A b \in 1 .. Blocks : b <= done => cache[Target][b] = group

IInv == TypeOK /\ Writer /\ Replacing /\ Overwriting /\ Progress

\* A publication starts with one whole document.
LEMMA InitIInv == Init => IInv
<1>1. SUFFICES ASSUME Init PROVE IInv
  OBVIOUS
<1>2. TypeOK
  BY <1>1, PublishAssumption DEF Init, TypeOK, Contents, Inodes, Empty, Absent
<1>3. QED
  BY <1>1, <1>2, PublishAssumption
  DEF Init, IInv, Writer, Replacing, Overwriting, Progress, Settled, Whole, Inodes

\* Every action keeps the types.
LEMMA TypeStep == IInv /\ [Next]_vars => TypeOK'
<1> SUFFICES ASSUME IInv PROVE [Next]_vars => TypeOK'
  OBVIOUS
<1>0. SUFFICES ASSUME [Next]_vars PROVE TypeOK'
  OBVIOUS
<1> USE PublishAssumption DEF IInv, TypeOK, Contents, Inodes
<1>1. CASE Open
  <2>1. cache' \in [Inodes -> Contents]
    BY <1>1 DEF Open, Empty, Absent
  <2>2. QED
    BY <1>1, <2>1 DEF Open
<1>2. CASE WriteBlock
  <2>1. Target \in Inodes
    BY DEF Target
  <2>2. cache' \in [Inodes -> Contents]
    BY <1>2, <2>1 DEF WriteBlock
  <2>3. QED
    BY <1>2, <2>2 DEF WriteBlock
<1>3. CASE Sync
  BY <1>3 DEF Sync, Target
<1>4. CASE Rename
  BY <1>4 DEF Rename
<1>5. CASE SyncDir
  BY <1>5 DEF SyncDir
<1>6. CASE Stop
  BY <1>6 DEF Stop
<1>7. CASE \E i \in Inodes, b \in 1 .. Blocks : WriteBack(i, b)
  BY <1>7 DEF WriteBack
<1>8. CASE WriteBackName
  BY <1>8 DEF WriteBackName
<1>9. CASE PowerLoss
  BY <1>9 DEF PowerLoss
<1>10. CASE UNCHANGED vars
  BY <1>10 DEF vars
<1>11. QED
  BY <1>0, <1>1, <1>2, <1>3, <1>4, <1>5, <1>6, <1>7, <1>8, <1>9, <1>10 DEF Next

\* The published document and the writer's document stay at most one apart.
LEMMA WriterStep == IInv /\ [Next]_vars => Writer'
<1> SUFFICES ASSUME IInv PROVE [Next]_vars => Writer'
  OBVIOUS
<1>0. SUFFICES ASSUME [Next]_vars PROVE Writer'
  OBVIOUS
<1> USE PublishAssumption DEF IInv, TypeOK, Writer
<1>1. CASE Open
  BY <1>1 DEF Open
<1>2. CASE WriteBlock
  BY <1>2 DEF WriteBlock
<1>3. CASE Sync
  BY <1>3 DEF Sync
<1>4. CASE Rename
  BY <1>4 DEF Rename
<1>5. CASE SyncDir
  BY <1>5 DEF SyncDir
<1>6. CASE Stop
  BY <1>6 DEF Stop
<1>7. CASE \E i \in Inodes, b \in 1 .. Blocks : WriteBack(i, b)
  BY <1>7 DEF WriteBack
<1>8. CASE WriteBackName
  BY <1>8 DEF WriteBackName
<1>9. CASE PowerLoss
  BY <1>9 DEF PowerLoss
<1>10. CASE UNCHANGED vars
  BY <1>10 DEF vars
<1>11. QED
  BY <1>0, <1>1, <1>2, <1>3, <1>4, <1>5, <1>6, <1>7, <1>8, <1>9, <1>10 DEF Next

\* The blocks written stay written while the document is being written.
LEMMA ProgressStep == IInv /\ [Next]_vars => Progress'
<1> SUFFICES ASSUME IInv PROVE [Next]_vars => Progress'
  OBVIOUS
<1>0. SUFFICES ASSUME [Next]_vars PROVE Progress'
  OBVIOUS
<1> USE PublishAssumption DEF IInv, TypeOK, Writer, Progress, Replacing, Overwriting, Target, Inodes, Contents
<1>1. CASE Open
  BY <1>1 DEF Open
<1>2. CASE WriteBlock
  BY <1>2 DEF WriteBlock
<1>3. CASE Sync
  BY <1>3 DEF Sync
<1>4. CASE Rename
  BY <1>4 DEF Rename
<1>5. CASE SyncDir
  BY <1>5 DEF SyncDir
<1>6. CASE Stop
  BY <1>6 DEF Stop
<1>7. CASE \E i \in Inodes, b \in 1 .. Blocks : WriteBack(i, b)
  BY <1>7 DEF WriteBack
<1>8. CASE WriteBackName
  BY <1>8 DEF WriteBackName
<1>9. CASE PowerLoss
  BY <1>9 DEF PowerLoss
<1>10. CASE UNCHANGED vars
  BY <1>10 DEF vars
<1>11. QED
  BY <1>0, <1>1, <1>2, <1>3, <1>4, <1>5, <1>6, <1>7, <1>8, <1>9, <1>10 DEF Next

\* In place, the single inode is settled by the sync.
LEMMA OverwritingStep == IInv /\ [Next]_vars => Overwriting'
<1> SUFFICES ASSUME IInv PROVE [Next]_vars => Overwriting'
  OBVIOUS
<1>0. SUFFICES ASSUME [Next]_vars PROVE Overwriting'
  OBVIOUS
<1> USE PublishAssumption DEF IInv, TypeOK, Writer, Overwriting, Settled, Whole, Inodes, Contents
<1>1. CASE Open
  BY <1>1 DEF Open
<1>2. CASE WriteBlock
  BY <1>2 DEF WriteBlock
<1>3. CASE Sync
  <2>1. CASE kind # "replace"
    BY <1>3, <2>1 DEF Sync, Progress, Target
  <2>2. QED
    BY <1>3, <2>1 DEF Sync
<1>4. CASE Rename
  BY <1>4 DEF Rename
<1>5. CASE SyncDir
  BY <1>5 DEF SyncDir
<1>6. CASE Stop
  BY <1>6 DEF Stop
<1>7. CASE \E i \in Inodes, b \in 1 .. Blocks : WriteBack(i, b)
  BY <1>7 DEF WriteBack
<1>8. CASE WriteBackName
  BY <1>8 DEF WriteBackName
<1>9. CASE PowerLoss
  BY <1>9 DEF PowerLoss
<1>10. CASE UNCHANGED vars
  BY <1>10 DEF vars
<1>11. QED
  BY <1>0, <1>1, <1>2, <1>3, <1>4, <1>5, <1>6, <1>7, <1>8, <1>9, <1>10 DEF Next

\* A name only ever leads to a settled inode.
LEMMA ReplacingStep == IInv /\ [Next]_vars => Replacing'
<1> SUFFICES ASSUME IInv PROVE [Next]_vars => Replacing'
  OBVIOUS
<1>0. SUFFICES ASSUME [Next]_vars PROVE Replacing'
  OBVIOUS
<1> USE PublishAssumption DEF IInv, TypeOK, Writer, Replacing, Settled, Whole, Inodes, Contents
<1>1. CASE Open
  BY <1>1 DEF Open
<1>2. CASE WriteBlock
  <2>1. CASE kind = "replace"
    BY <1>2, <2>1 DEF WriteBlock, Target
  <2>2. QED
    BY <1>2, <2>1 DEF WriteBlock
<1>3. CASE Sync
  <2>1. CASE kind = "replace"
    BY <1>3, <2>1 DEF Sync, Progress, Target
  <2>2. QED
    BY <1>3, <2>1 DEF Sync
<1>4. CASE Rename
  BY <1>4 DEF Rename
<1>5. CASE SyncDir
  BY <1>5 DEF SyncDir
<1>6. CASE Stop
  BY <1>6 DEF Stop
<1>7. CASE \E i \in Inodes, b \in 1 .. Blocks : WriteBack(i, b)
  BY <1>7 DEF WriteBack
<1>8. CASE WriteBackName
  BY <1>8 DEF WriteBackName
<1>9. CASE PowerLoss
  BY <1>9 DEF PowerLoss
<1>10. CASE UNCHANGED vars
  BY <1>10 DEF vars
<1>11. QED
  BY <1>0, <1>1, <1>2, <1>3, <1>4, <1>5, <1>6, <1>7, <1>8, <1>9, <1>10 DEF Next

-------------------------------------------------------------------------------
(* The invariant of the log. *)

\* Frames, as records.
Edits == [offset : Nat, old : Seq(Nat), new : Seq(Nat)]
FrameSet == [type : {"BASE", "NODE", "HEAD", "PAD"}, seq : Nat, parent : Nat, edit : Edits,
             bytes : Nat, part : {"whole", "header", "payload", "damaged"}]

\* The frames of the file and those staged to follow them.
Frames == file \o staging

\* The revisions among the first n frames, and the base.
Revisions(frames, n) == {0} \cup {j \in 1 .. n : frames[j].type = "NODE"}

\* The last selection is of this revision.
Selected(frames, id) ==
  \/ id = 0 /\ \A i \in DOMAIN frames : frames[i].type # "HEAD"
  \/ \E i \in DOMAIN frames :
       /\ frames[i].type = "HEAD" /\ frames[i].edit.offset = id
       /\ \A j \in DOMAIN frames : frames[j].type = "HEAD" => j <= i

\* The edit of a node makes its document from that of its parent.
Derived(d, id, parent, edit) ==
  /\ id \in 1 .. MaxSeq
  /\ edit.offset + Len(edit.old) <= Len(d[parent])
  /\ d[id] = Wal!Apply(d[parent], edit)
  /\ d[id] \in Seq(Nat)
  /\ Len(d[id]) = Len(d[parent]) - Len(edit.old) + Len(edit.new)

\* A frame follows those before it as a writer makes it, with the documents d; whether
\* it is whole is another matter.
Follows(f, i, frames, d) ==
  /\ f.seq = i
  /\ f.type = "BASE" <=> i = 1
  /\ f.type # "NODE" => f.parent = 0
  /\ f.type = "BASE" => f.edit.new = Base
  /\ f.type = "HEAD" => f.edit.offset \in Revisions(frames, i - 1)
  /\ f.type = "NODE" => f.parent \in Revisions(frames, i - 1) /\ Derived(d, i, f.parent, f.edit)

Chained(frames, d) == \A i \in DOMAIN frames : Follows(frames[i], i, frames, d)

LogTypes ==
  /\ mode \in {"direct", "packed", "aligned"}
  /\ log_pc \in {"create", "based", "named", "idle", "written", "closing", "down"}
  /\ file \in Seq(FrameSet) /\ staging \in Seq(FrameSet)
  /\ exists \in BOOLEAN /\ dir_synced \in BOOLEAN
  /\ synced \in Nat /\ ack_seq \in Nat /\ reserved \in Nat
  /\ docs \in [0 .. MaxSeq -> Seq(Int)]

\* Frames are staged by an idle bench only, edits and selections in turn.
Staged ==
  /\ staging # <<>> => /\ mode # "direct" /\ log_pc = "idle"
                       /\ \E i \in DOMAIN staging : staging[i].type = "HEAD"
  /\ \A i \in DOMAIN staging : staging[i].type \in {"NODE", "HEAD"} /\ staging[i].part = "whole"

\* What the writer knows of its file, until it stops.
Position ==
  /\ log_pc # "down" => /\ seq = Len(Frames) /\ Selected(Frames, head)
                        /\ \A i \in DOMAIN file : file[i].part = "whole"
                        /\ \A id \in 1 .. MaxSeq : docs[id] # Wal!Bad => id <= Len(Frames)
  /\ log_pc = "create" => file = <<>>
  /\ log_pc \notin {"create", "down"} => Len(file) > 0
  /\ log_pc = "written" => \E i \in DOMAIN file : file[i].type = "HEAD"

\* There is a document for each revision, and only for those; bench edits in place.
Recorded(d, frames) ==
  \A id \in 1 .. MaxSeq : d[id] # Wal!Bad /\ id <= Len(frames) => frames[id].type = "NODE"
InPlace(d) == \A id \in 0 .. MaxSeq : d[id] # Wal!Bad => Len(d[id]) = Len(Base)
Documents ==
  docs[0] = Base /\ Recorded(docs, Frames) /\ (mode # "direct" => InPlace(docs))

\* Only the last frame can be torn, and none that was synced.
Media ==
  /\ exists => synced <= Len(file)
  /\ ~exists => log_pc = "down" /\ ~dir_synced /\ file = <<>>
  /\ \A i \in DOMAIN file :
       i < Len(file) \/ i <= synced => file[i].part \in {"whole", "damaged"}
  /\ mode # "direct" /\ log_pc \in {"idle", "written"} => dir_synced

\* The acknowledged selection was synced, and so was the name of bench's file.
Acknowledged ==
  ack_seq > 0 =>
    /\ mode # "direct" => dir_synced
    /\ exists => /\ ack_seq <= synced
                 /\ file[ack_seq].type = "HEAD" /\ file[ack_seq].edit.offset = ack

LogInv ==
  LogTypes /\ Staged /\ Chained(Frames, docs) /\ Position /\ Documents /\ Media /\ Acknowledged

-------------------------------------------------------------------------------
(* Sequences of frames. *)

\* The second of two joined sequences follows the first.
LEMMA Joined ==
  ASSUME NEW S, NEW s \in Seq(S), NEW t \in Seq(S)
  PROVE  /\ s \o t \in Seq(S) /\ Len(s \o t) = Len(s) + Len(t) /\ Len(s) \in Nat /\ Len(t) \in Nat
         /\ \A i \in 1 .. Len(s) : (s \o t)[i] = s[i]
         /\ \A i \in 1 .. Len(t) : (s \o t)[Len(s) + i] = t[i]
         /\ DOMAIN (s \o t) = 1 .. Len(s) + Len(t)
         /\ DOMAIN s = 1 .. Len(s) /\ DOMAIN t = 1 .. Len(t)
<1>1. /\ s \o t \in Seq(S) /\ Len(s \o t) = Len(s) + Len(t)
      /\ \A i \in 1 .. Len(s) + Len(t) : (s \o t)[i] = IF i <= Len(s) THEN s[i] ELSE t[i - Len(s)]
  BY ConcatProperties
<1>2. Len(s) \in Nat /\ Len(t) \in Nat
  OBVIOUS
<1>3. \A i \in 1 .. Len(s) : (s \o t)[i] = s[i]
  BY <1>1, <1>2
<1>4. \A i \in 1 .. Len(t) : (s \o t)[Len(s) + i] = t[i]
  <2> SUFFICES ASSUME NEW i \in 1 .. Len(t) PROVE (s \o t)[Len(s) + i] = t[i]
    OBVIOUS
  <2>1. Len(s) + i \in 1 .. Len(s) + Len(t) /\ ~ (Len(s) + i <= Len(s)) /\ (Len(s) + i) - Len(s) = i
    BY <1>2
  <2> QED BY <1>1, <2>1
<1> QED BY <1>1, <1>2, <1>3, <1>4

\* A sequence with one more element.
LEMMA Extended ==
  ASSUME NEW S, NEW s \in Seq(S), NEW e \in S
  PROVE  /\ s \o <<e>> \in Seq(S) /\ Len(s \o <<e>>) = Len(s) + 1 /\ Len(s) \in Nat
         /\ \A i \in 1 .. Len(s) : (s \o <<e>>)[i] = s[i]
         /\ (s \o <<e>>)[Len(s) + 1] = e
         /\ DOMAIN (s \o <<e>>) = 1 .. Len(s) + 1 /\ DOMAIN s = 1 .. Len(s)
<1>1. <<e>> \in Seq(S) /\ Len(<<e>>) = 1 /\ <<e>>[1] = e
  OBVIOUS
<1> DEFINE t == <<e>>
<1> HIDE DEF t
<1>2. t \in Seq(S) /\ Len(t) = 1 /\ t[1] = e
  BY <1>1 DEF t
<1>3. /\ s \o t \in Seq(S) /\ Len(s \o t) = Len(s) + 1 /\ Len(s) \in Nat
      /\ \A i \in 1 .. Len(s) : (s \o t)[i] = s[i]
      /\ (s \o t)[Len(s) + 1] = e
      /\ DOMAIN (s \o t) = 1 .. Len(s) + 1 /\ DOMAIN s = 1 .. Len(s)
  BY <1>2, Joined
<1> QED BY <1>3 DEF t

\* The same frame, as far as a writer made it.
SameFrame(f, g) ==
  f.type = g.type /\ f.seq = g.seq /\ f.parent = g.parent /\ f.edit = g.edit /\ f.bytes = g.bytes

\* What damage and cuts leave of the frames s: the first of them, whole or not.
Remains(t, s) ==
  t \in Seq(FrameSet) /\ Len(t) <= Len(s) /\ \A i \in 1 .. Len(t) : SameFrame(t[i], s[i])

\* What a cut leaves: only the last frame is perhaps torn.
Cut(t, s) == Remains(t, s) /\ \A i \in 1 .. Len(t) : i < Len(t) => t[i] = s[i]

\* What write_all leaves behind is a cut of what it was to write.
LEMMA TornIsCut == ASSUME NEW s \in Seq(FrameSet), NEW t \in Wal!Torn(s) PROVE Cut(t, s)
<1>0. Len(s) \in Nat /\ \A i \in 1 .. Len(s) : s[i] \in FrameSet
  OBVIOUS
<1>1. CASE \E k \in 0 .. Len(s) - 1 : t = SubSeq(s, 1, k)
  <2>1. PICK k \in 0 .. Len(s) - 1 : t = SubSeq(s, 1, k)
    BY <1>1
  <2>2. \A i \in 1 .. k : s[i] \in FrameSet
    BY <1>0
  <2>3. t \in Seq(FrameSet) /\ Len(t) = k /\ \A i \in 1 .. k : t[i] = s[i]
    BY <1>0, <2>1, <2>2, SubSeqProperties
  <2> QED BY <1>0, <2>1, <2>3 DEF Cut, Remains, SameFrame
<1>2. CASE \E k \in 1 .. Len(s), p \in {"header", "payload"} :
             t = Append(SubSeq(s, 1, k - 1), [s[k] EXCEPT !.part = p])
  <2>1. PICK k \in 1 .. Len(s), p \in {"header", "payload"} :
               t = Append(SubSeq(s, 1, k - 1), [s[k] EXCEPT !.part = p])
    BY <1>2
  <2> DEFINE front == SubSeq(s, 1, k - 1)
             last == [s[k] EXCEPT !.part = p]
  <2>2. \A i \in 1 .. k - 1 : s[i] \in FrameSet
    BY <1>0
  <2>3. front \in Seq(FrameSet) /\ Len(front) = k - 1 /\ \A i \in 1 .. k - 1 : front[i] = s[i]
    BY <1>0, <2>2, SubSeqProperties
  <2>4. last \in FrameSet /\ SameFrame(last, s[k])
    BY <1>0 DEF FrameSet, SameFrame
  <2> HIDE DEF front, last
  <2>5. /\ Append(front, last) \in Seq(FrameSet) /\ Len(Append(front, last)) = k
        /\ \A i \in 1 .. k - 1 : Append(front, last)[i] = s[i]
        /\ Append(front, last)[k] = last
    BY <2>3, <2>4, AppendProperties
  <2>6. t = Append(front, last)
    BY <2>1 DEF front, last
  <2>7. \A i \in 1 .. k : SameFrame(t[i], s[i]) /\ (i < k => t[i] = s[i])
    BY <2>4, <2>5, <2>6 DEF SameFrame
  <2> QED BY <1>0, <2>5, <2>6, <2>7 DEF Cut, Remains
<1> DEFINE Short == {SubSeq(s, 1, k) : k \in 0 .. Len(s) - 1}
           Tear(k) == {Append(SubSeq(s, 1, k - 1), [s[k] EXCEPT !.part = p]) :
                         p \in {"header", "payload"}}
<1>3. t \in Short \cup UNION {Tear(k) : k \in 1 .. Len(s)}
  BY DEF Wal!Torn
<1>4. t \in Short => \E k \in 0 .. Len(s) - 1 : t = SubSeq(s, 1, k)
  OBVIOUS
<1>5. ASSUME NEW k, t \in Tear(k)
      PROVE  \E p \in {"header", "payload"} :
               t = Append(SubSeq(s, 1, k - 1), [s[k] EXCEPT !.part = p])
  BY <1>5
<1> HIDE DEF Short, Tear
<1>6. t \in Short \/ \E k \in 1 .. Len(s) : t \in Tear(k)
  BY <1>3
<1> QED BY <1>1, <1>2, <1>4, <1>5, <1>6

\* Frames are a cut of themselves.
LEMMA WholeIsCut == ASSUME NEW s \in Seq(FrameSet) PROVE Cut(s, s)
BY DEF Cut, Remains, SameFrame

\* A cut of what is appended is a cut of the whole.
LEMMA JoinedCut ==
  ASSUME NEW r \in Seq(FrameSet), NEW s \in Seq(FrameSet), NEW t, Cut(t, s)
  PROVE  Cut(r \o t, r \o s) /\ \A i \in 1 .. Len(r) : (r \o t)[i] = r[i]
<1>1. t \in Seq(FrameSet) /\ Len(t) <= Len(s)
  BY DEF Cut, Remains
<1>2. /\ r \o t \in Seq(FrameSet) /\ Len(r \o t) = Len(r) + Len(t) /\ Len(r) \in Nat /\ Len(t) \in Nat
      /\ \A i \in 1 .. Len(r) : (r \o t)[i] = r[i]
      /\ \A i \in 1 .. Len(t) : (r \o t)[Len(r) + i] = t[i]
  BY <1>1, Joined
<1>3. /\ Len(r \o s) = Len(r) + Len(s) /\ Len(s) \in Nat
      /\ \A i \in 1 .. Len(r) : (r \o s)[i] = r[i]
      /\ \A i \in 1 .. Len(s) : (r \o s)[Len(r) + i] = s[i]
  BY Joined
<1>4. ASSUME NEW i \in 1 .. Len(r \o t)
      PROVE  SameFrame((r \o t)[i], (r \o s)[i]) /\ (i < Len(r \o t) => (r \o t)[i] = (r \o s)[i])
  <2>1. CASE i <= Len(r)
    BY <1>2, <1>3, <2>1 DEF SameFrame
  <2>2. CASE i > Len(r)
    <3> DEFINE j == i - Len(r)
    <3>1. j \in 1 .. Len(t) /\ i = Len(r) + j /\ (i < Len(r \o t) => j < Len(t))
      BY <1>2, <2>2
    <3>2. (r \o t)[i] = t[j] /\ (r \o s)[i] = s[j]
      BY <1>1, <1>2, <1>3, <3>1
    <3> QED BY <3>1, <3>2 DEF Cut, Remains
  <2>3. i <= Len(r) \/ i > Len(r)
    BY <1>2
  <2> QED BY <2>1, <2>2, <2>3, Zenon
<1> QED BY <1>1, <1>2, <1>3, <1>4 DEF Cut, Remains

\* What remains of a chain is one.
LEMMA RemainsChained ==
  ASSUME NEW s \in Seq(FrameSet), NEW d, Chained(s, d), NEW t, Remains(t, s)
  PROVE  Chained(t, d)
<1>1. t \in Seq(FrameSet) /\ Len(t) \in Nat /\ Len(s) \in Nat /\ Len(t) <= Len(s)
      /\ DOMAIN t = 1 .. Len(t) /\ DOMAIN s = 1 .. Len(s)
  BY DEF Cut, Remains
<1>2. \A i \in 1 .. Len(t) : SameFrame(t[i], s[i])
  BY DEF Cut, Remains
<1>3. ASSUME NEW i \in 1 .. Len(t) PROVE Follows(t[i], i, t, d)
  <2>1. Follows(s[i], i, s, d)
    BY <1>1 DEF Chained
  <2>2. Revisions(t, i - 1) = Revisions(s, i - 1)
    BY <1>1, <1>2 DEF Revisions, SameFrame
  <2> QED BY <1>2, <2>1, <2>2 DEF Follows, SameFrame
<1> QED BY <1>1, <1>3 DEF Chained

\* Documents recorded for frames are recorded for what remains of them.
LEMMA RemainsRecorded ==
  ASSUME NEW s \in Seq(FrameSet), NEW d, Recorded(d, s), NEW t, Remains(t, s)
  PROVE  Recorded(d, t)
<1>1. /\ Len(t) \in Nat /\ Len(s) \in Nat /\ Len(t) <= Len(s) /\ MaxSeq \in Nat
      /\ \A i \in 1 .. Len(t) : t[i].type = s[i].type
  BY StoreAssumption DEF Remains, SameFrame
<1> QED BY <1>1 DEF Recorded

\* One more frame, with documents that agree on what is there.
LEMMA ExtendedChained ==
  ASSUME NEW s \in Seq(FrameSet), NEW d, Chained(s, d), NEW f \in FrameSet,
         NEW e, \A i \in Revisions(s, Len(s)) : e[i] = d[i],
         Follows(f, Len(s) + 1, s, e)
  PROVE  Chained(s \o <<f>>, e)
<1> DEFINE t == s \o <<f>>
<1>1. /\ Len(s) \in Nat /\ \A i \in 1 .. Len(s) : t[i] = s[i]
      /\ t[Len(s) + 1] = f /\ DOMAIN t = 1 .. Len(s) + 1 /\ DOMAIN s = 1 .. Len(s)
  BY Extended
<1> HIDE DEF t
<1>2. ASSUME NEW i \in 1 .. Len(s) + 1 PROVE Revisions(t, i - 1) = Revisions(s, i - 1)
  BY <1>1 DEF Revisions
<1>3. ASSUME NEW i \in 1 .. Len(s) PROVE Follows(t[i], i, t, e)
  <2>1. Follows(s[i], i, s, d)
    BY <1>1 DEF Chained
  <2>2. Revisions(s, i - 1) \subseteq Revisions(s, Len(s))
    BY <1>1 DEF Revisions
  <2>3. s[i].type = "NODE" => i \in Revisions(s, Len(s))
    BY <1>1 DEF Revisions
  <2>4. s[i].type = "NODE" => Derived(e, i, s[i].parent, s[i].edit)
    BY <2>1, <2>2, <2>3 DEF Follows, Derived
  <2> QED BY <1>1, <1>2, <2>1, <2>4 DEF Follows
<1>4. Follows(t[Len(s) + 1], Len(s) + 1, t, e)
  BY <1>1, <1>2 DEF Follows
<1>5. Chained(t, e)
  BY <1>1, <1>3, <1>4 DEF Chained
<1> QED BY <1>5 DEF t

\* Documents beyond the frames do not matter.
LEMMA SameChained ==
  ASSUME NEW s \in Seq(FrameSet), NEW d, Chained(s, d),
         NEW e, \A i \in Revisions(s, Len(s)) : e[i] = d[i]
  PROVE  Chained(s, e)
<1>1. Len(s) \in Nat /\ DOMAIN s = 1 .. Len(s)
  OBVIOUS
<1>2. ASSUME NEW i \in 1 .. Len(s) PROVE Follows(s[i], i, s, e)
  <2>1. Follows(s[i], i, s, d)
    BY <1>1 DEF Chained
  <2>2. Revisions(s, i - 1) \subseteq Revisions(s, Len(s))
    BY <1>1 DEF Revisions
  <2>3. s[i].type = "NODE" => i \in Revisions(s, Len(s))
    BY <1>1 DEF Revisions
  <2> QED BY <2>1, <2>2, <2>3 DEF Follows, Derived
<1> QED BY <1>1, <1>2 DEF Chained

-------------------------------------------------------------------------------
(* The steps that write no frame. *)

\* write_all leaves the file and a cut of the frames behind it.
LEMMA WriteCut ==
  ASSUME file \in Seq(FrameSet), NEW frames \in Seq(FrameSet), NEW to, Wal!WriteAll(frames, to)
  PROVE  /\ Cut(file', file \o frames) /\ Len(file') >= Len(file)
         /\ \A i \in 1 .. Len(file) : file'[i] = file[i]
         /\ \/ file' = file \o frames /\ log_pc' = to
            \/ log_pc' = "down"
<1>1. file \o frames \in Seq(FrameSet) /\ Len(file \o frames) >= Len(file)
  BY Joined
<1>2. CASE file' = file \o frames /\ log_pc' = to
  BY <1>1, <1>2, WholeIsCut, Joined
<1>3. CASE \E part \in Wal!Torn(frames) : file' = file \o part /\ log_pc' = "down"
  <2>1. PICK part \in Wal!Torn(frames) : file' = file \o part /\ log_pc' = "down"
    BY <1>3
  <2>2. Cut(part, frames)
    BY <2>1, TornIsCut
  <2>3. Cut(file \o part, file \o frames) /\ \A i \in 1 .. Len(file) : (file \o part)[i] = file[i]
    BY <2>2, JoinedCut
  <2>4. part \in Seq(FrameSet)
    BY <2>2 DEF Cut, Remains
  <2>5. Len(file \o part) >= Len(file)
    BY <2>4, Joined
  <2> QED BY <2>1, <2>3, <2>5
<1> QED BY <1>2, <1>3 DEF Wal!WriteAll

\* Without staged frames there are those of the file.
LEMMA NothingStaged ==
  ASSUME file \in Seq(FrameSet), staging = <<>> PROVE Frames = file
BY ConcatEmptySeq DEF Frames

\* A write of frames that continue the chain, whether or not it comes to its end.
LEMMA WriteSafe ==
  ASSUME LogInv, NEW frames \in Seq(FrameSet), NEW to \in {"based", "idle", "written"},
         log_pc # "down", Wal!WriteAll(frames, to), staging' = <<>>,
         UNCHANGED <<mode, exists, synced, dir_synced, ack, ack_seq>>, reserved' \in Nat,
         frames # <<>>, \A i \in 1 .. Len(frames) : frames[i].part = "whole",
         docs' \in [0 .. MaxSeq -> Seq(Int)], docs'[0] = Base,
         Chained(file \o frames, docs'), Recorded(docs', file \o frames),
         mode # "direct" => InPlace(docs'),
         \A id \in 1 .. MaxSeq : docs'[id] # Wal!Bad => id <= Len(file \o frames),
         seq' = Len(file \o frames), Selected(file \o frames, head'),
         to = "written" => \E i \in DOMAIN (file \o frames) : (file \o frames)[i].type = "HEAD",
         mode # "direct" /\ to \in {"idle", "written"} => dir_synced
  PROVE  LogInv'
<1> DEFINE all == file \o frames
<1>1. /\ file \in Seq(FrameSet) /\ Cut(file', all) /\ Len(file') >= Len(file)
      /\ \A i \in 1 .. Len(file) : file'[i] = file[i]
      /\ \/ file' = all /\ log_pc' = to
         \/ log_pc' = "down"
  BY WriteCut DEF LogInv, LogTypes
<1>2. /\ all \in Seq(FrameSet) /\ Len(all) = Len(file) + Len(frames) /\ Len(file) \in Nat
      /\ Len(frames) \in Nat /\ DOMAIN all = 1 .. Len(all) /\ DOMAIN file = 1 .. Len(file)
      /\ \A i \in 1 .. Len(file) : all[i] = file[i]
      /\ \A i \in 1 .. Len(frames) : all[Len(file) + i] = frames[i]
  BY <1>1, Joined
<1>3. \A i \in 1 .. Len(file) : file[i].part = "whole"
  BY <1>2 DEF LogInv, Position
<1>4. \A i \in 1 .. Len(all) : all[i].part = "whole"
  <2> SUFFICES ASSUME NEW i \in 1 .. Len(all) PROVE all[i].part = "whole"
    OBVIOUS
  <2>1. CASE i <= Len(file)
    BY <1>2, <1>3, <2>1
  <2>2. CASE i > Len(file)
    <3>1. i - Len(file) \in 1 .. Len(frames) /\ i = Len(file) + (i - Len(file))
      BY <1>2, <2>2
    <3>2. all[i] = frames[i - Len(file)]
      BY <1>2, <3>1
    <3> QED BY <3>1, <3>2
  <2> QED BY <1>2, <2>1, <2>2
<1>5. Len(frames) > 0
  BY <1>2
<1> HIDE DEF all
<1>6. /\ file' \in Seq(FrameSet) /\ Len(file') <= Len(all) /\ Len(file') \in Nat
      /\ Remains(file', all) /\ \A i \in 1 .. Len(file') : SameFrame(file'[i], all[i])
      /\ DOMAIN file' = 1 .. Len(file')
      /\ \A i \in 1 .. Len(file') : i < Len(file') => file'[i] = all[i]
  BY <1>1 DEF Cut, Remains
<1>7. Frames' = file'
  BY <1>6, ConcatEmptySeq DEF Frames
<1>8. LogTypes' /\ Staged'
  BY <1>1, <1>6 DEF LogInv, LogTypes, Staged
<1>9. Chained(Frames, docs)'
  <2>1. Chained(file', docs')
    BY <1>2, <1>6, RemainsChained DEF all
  <2> QED BY <1>7, <2>1 DEF Chained, Follows, Derived, Revisions
<1>10. Position'
  <2>1. CASE file' = all /\ log_pc' = to
    BY <1>2, <1>4, <1>5, <1>7, <2>1 DEF Position, Selected, all
  <2>2. CASE log_pc' = "down"
    BY <2>2 DEF Position
  <2> QED BY <1>1, <2>1, <2>2
<1>11. Documents'
  <2>1. Recorded(docs', file')
    BY <1>2, <1>6, RemainsRecorded DEF all
  <2> QED BY <1>7, <2>1 DEF Documents, Recorded, InPlace
<1>12. Media'
  <2>1. exists /\ synced <= Len(file) /\ synced \in Nat
    BY DEF LogInv, Media, LogTypes
  <2>2. ASSUME NEW i \in 1 .. Len(file'), i < Len(file') \/ i <= synced
        PROVE  file'[i].part = "whole"
    BY <1>1, <1>2, <1>3, <1>4, <1>6, <2>1, <2>2
  <2> QED BY <1>1, <1>6, <2>1, <2>2 DEF Media, LogInv
<1>13. Acknowledged'
  BY <1>1, <1>2 DEF LogInv, Acknowledged, Media, LogTypes
<1> QED BY <1>8, <1>9, <1>10, <1>11, <1>12, <1>13 DEF LogInv

\* The process or the machine stops, and what was synced remains.
LEMMA HaltSafe ==
  ASSUME LogInv, log_pc' = "down", staging' = <<>>, Remains(file', file),
         UNCHANGED <<mode, synced, dir_synced, reserved, ack, ack_seq, docs>>,
         \/ exists' = exists
         \/ exists' = FALSE /\ file' = <<>> /\ ~dir_synced,
         exists' => synced <= Len(file'),
         \A i \in DOMAIN file' :
           i < Len(file') \/ i <= synced => file'[i].part \in {"whole", "damaged"}
  PROVE  LogInv'
<1>1. /\ file \in Seq(FrameSet) /\ Len(file) \in Nat /\ staging \in Seq(FrameSet)
      /\ DOMAIN file = 1 .. Len(file) /\ Len(staging) \in Nat
  BY DEF LogInv, LogTypes
<1>2. /\ file' \in Seq(FrameSet) /\ Len(file') \in Nat /\ Len(file') <= Len(file)
      /\ DOMAIN file' = 1 .. Len(file')
      /\ \A i \in 1 .. Len(file') : SameFrame(file'[i], file[i])
  BY DEF Remains
<1>3. /\ Frames \in Seq(FrameSet) /\ Len(Frames) = Len(file) + Len(staging)
      /\ \A i \in 1 .. Len(file) : Frames[i] = file[i]
  BY <1>1, Joined DEF Frames
<1>4. Remains(file', Frames)
  BY <1>1, <1>2, <1>3 DEF Remains
<1>5. Frames' = file'
  BY <1>2, ConcatEmptySeq DEF Frames
<1>a. exists' \in BOOLEAN
  BY DEF LogInv, LogTypes
<1>b. LogTypes'
  BY <1>2, <1>a DEF LogInv, LogTypes
<1>6. LogTypes' /\ Staged'
  BY <1>b DEF Staged
<1>7. Chained(Frames, docs)'
  <2>1. Chained(file', docs)
    BY <1>3, <1>4, RemainsChained DEF LogInv
  <2> QED BY <1>5, <2>1 DEF Chained, Follows, Derived, Revisions
<1>8. Position'
  BY DEF Position
<1>9. Documents'
  <2>1. Recorded(docs, file')
    BY <1>3, <1>4, RemainsRecorded DEF LogInv, Documents
  <2> QED BY <1>5, <2>1 DEF LogInv, Documents, Recorded, InPlace
<1>10. Media'
  BY <1>1, <1>2 DEF LogInv, Media, Remains
<1>11. Acknowledged'
  <2>1. SUFFICES ASSUME ack_seq > 0 PROVE Acknowledged'
    BY DEF Acknowledged
  <2>2. mode # "direct" => dir_synced
    BY <2>1 DEF LogInv, Acknowledged
  <2>3. CASE exists'
    <3>1. /\ ack_seq <= synced /\ file[ack_seq].type = "HEAD"
          /\ file[ack_seq].edit.offset = ack
      BY <2>1, <2>3 DEF LogInv, Acknowledged
    <3>2. ack_seq \in 1 .. Len(file') /\ SameFrame(file'[ack_seq], file[ack_seq])
      BY <1>2, <2>1, <2>3, <3>1 DEF LogInv, LogTypes
    <3> QED BY <2>2, <3>1, <3>2 DEF Acknowledged, SameFrame
  <2>4. CASE ~exists'
    BY <2>2, <2>4 DEF Acknowledged
  <2> QED BY <2>3, <2>4
<1> QED BY <1>6, <1>7, <1>8, <1>9, <1>10, <1>11 DEF LogInv

\* A history starts empty.
LEMMA LogInit == Wal!Init => LogInv
<1> SUFFICES ASSUME Wal!Init PROVE LogInv
  OBVIOUS
<1> USE StoreAssumption
<1>1. /\ mode \in {"direct", "packed", "aligned"} /\ file = <<>> /\ exists = TRUE
      /\ synced = 0 /\ dir_synced = FALSE /\ log_pc = "create" /\ staging = <<>>
      /\ seq = 0 /\ head = 0 /\ ack = 0 /\ ack_seq = 0 /\ reserved \in Nat
  BY DEF Wal!Init
<1>2. docs = [id \in 0 .. MaxSeq |-> IF id = 0 THEN Base ELSE Wal!Bad]
  BY DEF Wal!Init
<1>3. Base \in Seq(Int) /\ Wal!Bad \in Seq(Int)
  BY DEF Wal!Bad
<1>4. docs \in [0 .. MaxSeq -> Seq(Int)]
  BY <1>2, <1>3
<1>5. docs[0] = Base /\ \A id \in 1 .. MaxSeq : docs[id] = Wal!Bad
  BY <1>2
<1>6. Frames = <<>> /\ Len(Frames) = 0 /\ DOMAIN Frames = {}
  BY <1>1 DEF Frames
<1>a. <<>> \in Seq(FrameSet)
  OBVIOUS
<1>b. LogTypes
  BY <1>1, <1>4, <1>a DEF LogTypes
<1>7. LogTypes /\ Staged
  BY <1>1, <1>b DEF Staged
<1>8. Chained(Frames, docs)
  BY <1>6 DEF Chained
<1>9. Position
  BY <1>1, <1>5, <1>6 DEF Position, Selected
<1>10. Documents
  BY <1>5, <1>6 DEF Documents, Recorded, InPlace
<1>11. Media /\ Acknowledged
  BY <1>1 DEF Media, Acknowledged
<1> QED BY <1>7, <1>8, <1>9, <1>10, <1>11 DEF LogInv

\* A step that touches neither the frames nor the documents.
LEMMA QuietSafe ==
  ASSUME LogInv, UNCHANGED <<mode, file, exists, staging, docs, reserved, seq, head>>,
         synced' = synced \/ synced' = Len(file),
         dir_synced' \in BOOLEAN, dir_synced => dir_synced',
         log_pc \notin {"create", "down"},
         log_pc' \in {"named", "idle", "closing", "down"}, log_pc = "idle" => staging = <<>>,
         mode # "direct" /\ log_pc' = "idle" => dir_synced',
         ack_seq' \in Nat, Acknowledged'
  PROVE  LogInv'
<1>1. Frames' = Frames /\ staging = <<>> /\ exists
  BY DEF Frames, LogInv, Staged, Media
<1>2. LogTypes'
  BY DEF LogInv, LogTypes
<1>3. Staged'
  BY <1>1 DEF Staged
<1>4. Chained(Frames, docs)'
  BY <1>1 DEF LogInv, Chained, Follows, Derived, Revisions
<1>5. Position'
  BY <1>1 DEF LogInv, Position, Selected
<1>6. Documents'
  BY <1>1 DEF LogInv, Documents, Recorded, InPlace
<1>7. Media'
  <2>1. Len(file) \in Nat /\ synced \in Nat /\ \A i \in DOMAIN file : file[i].part = "whole"
    BY DEF LogInv, LogTypes, Position
  <2> QED BY <1>1, <2>1 DEF LogInv, Media
<1> QED BY <1>2, <1>3, <1>4, <1>5, <1>6, <1>7 DEF LogInv

\* bench syncs the base frame, or fails to.
LEMMA SyncBaseSafe == LogInv /\ Wal!SyncBase => LogInv'
<1> SUFFICES ASSUME LogInv, Wal!SyncBase PROVE LogInv'
  OBVIOUS
<1>1. /\ log_pc = "based" /\ log_pc' \in {"named", "down"}
      /\ synced' = synced \/ synced' = Len(file)
      /\ UNCHANGED <<mode, file, exists, staging, docs, reserved, seq, head, dir_synced, ack, ack_seq>>
  BY DEF Wal!SyncBase, Wal!SyncFile, Wal!acks
<1>2. Len(file) \in Nat /\ exists /\ (ack_seq > 0 => ack_seq <= synced /\ synced <= Len(file))
  BY <1>1 DEF LogInv, LogTypes, Acknowledged, Media
<1>3. Acknowledged'
  BY <1>1, <1>2 DEF LogInv, LogTypes, Acknowledged
<1> QED BY <1>1, <1>3, QuietSafe DEF LogInv, LogTypes

\* The directory is synced, or is not.
LEMMA SyncNameSafe ==
  LogInv /\ (Wal!SyncName("named", "idle") \/ Wal!SyncName("closing", "down")) => LogInv'
<1> SUFFICES ASSUME LogInv, Wal!SyncName("named", "idle") \/ Wal!SyncName("closing", "down")
             PROVE  LogInv'
  OBVIOUS
<1>1. /\ log_pc \in {"named", "closing"} /\ log_pc' \in {"idle", "down"}
      /\ dir_synced' = TRUE \/ (log_pc' = "down" /\ dir_synced' = dir_synced)
      /\ UNCHANGED <<mode, file, exists, synced, staging, docs, reserved, seq, head, ack, ack_seq>>
  BY DEF Wal!SyncName, Wal!acks
<1>2. Acknowledged'
  BY <1>1 DEF LogInv, Acknowledged
<1>3. dir_synced \in BOOLEAN /\ ack_seq \in Nat
  BY DEF LogInv, LogTypes
<1>4. dir_synced' \in BOOLEAN /\ (dir_synced => dir_synced') /\ (log_pc' = "idle" => dir_synced')
  BY <1>1, <1>3
<1> QED BY <1>1, <1>2, <1>3, <1>4, QuietSafe

\* The acknowledged frame is the last selection, and that is of the writer's revision.
LEMMA SyncSafe == LogInv /\ Wal!Sync => LogInv'
<1> SUFFICES ASSUME LogInv, Wal!Sync PROVE LogInv'
  OBVIOUS
<1>1. /\ log_pc = "written" /\ log_pc' \in {"idle", "down"} /\ dir_synced' = dir_synced
      /\ UNCHANGED <<mode, file, exists, staging, docs, reserved, seq, head>>
  BY DEF Wal!Sync
<1>2. exists /\ Len(file) \in Nat /\ synced <= Len(file) /\ (mode # "direct" => dir_synced)
  BY <1>1 DEF LogInv, LogTypes, Media
<1>3. CASE log_pc' = "down" /\ UNCHANGED <<synced, ack, ack_seq>>
  <2>1. Acknowledged'
    BY <1>1, <1>3 DEF LogInv, Acknowledged
  <2> QED BY <1>1, <1>3, <2>1, QuietSafe DEF LogInv, LogTypes
<1>4. CASE /\ log_pc' = "idle" /\ synced' = Len(file) /\ ack' = head
           /\ ack_seq' = Wal!Max({i \in 1 .. Len(file) : file[i].type = "HEAD"})
  <2> DEFINE heads == {i \in 1 .. Len(file) : file[i].type = "HEAD"}
  <2>1. Frames = file /\ DOMAIN file = 1 .. Len(file)
    BY <1>1, NothingStaged DEF LogInv, LogTypes, Staged
  <2>2. PICK i \in heads : file[i].edit.offset = head /\ \A j \in heads : j <= i
    BY <1>1, <2>1 DEF LogInv, Position, Selected
  <2>3. ack_seq' = CHOOSE x \in heads : \A y \in heads : x >= y
    BY <1>4 DEF Wal!Max
  <2>4. \E x \in heads : \A y \in heads : x >= y
    BY <1>2, <2>2
  <2> HIDE DEF heads
  <2>5. ack_seq' \in heads /\ \A y \in heads : ack_seq' >= y
    BY <2>3, <2>4
  <2>6. ack_seq' = i
    BY <1>2, <2>2, <2>5 DEF heads
  <2>7. i \in 1 .. Len(file) /\ file[i].type = "HEAD"
    BY <2>2 DEF heads
  <2>8. Acknowledged'
    BY <1>1, <1>2, <1>4, <2>2, <2>6, <2>7 DEF Acknowledged
  <2> QED BY <1>1, <1>2, <1>4, <2>6, <2>7, <2>8, QuietSafe DEF LogInv, LogTypes
<1> QED BY <1>3, <1>4 DEF Wal!Sync, Wal!SyncFile, Wal!acks

\* The process exits between two of its steps.
LEMMA ExitSafe == LogInv /\ Wal!Exit => LogInv'
<1> SUFFICES ASSUME LogInv, Wal!Exit PROVE LogInv'
  OBVIOUS
<1>1. /\ log_pc \notin {"down", "closing"} /\ staging' = <<>>
      /\ UNCHANGED <<mode, file, exists, synced, dir_synced, reserved, seq, head, ack, ack_seq, docs>>
      /\ \/ log_pc' = "down"
         \/ mode = "direct" /\ log_pc = "idle" /\ log_pc' = "closing"
  BY DEF Wal!Exit, Wal!media, Wal!acks
<1>2. CASE log_pc' = "down"
  <2>1. Remains(file', file)
    BY <1>1, WholeIsCut DEF LogInv, LogTypes, Cut
  <2>2. exists /\ synced <= Len(file) /\ \A i \in DOMAIN file : file[i].part = "whole"
    BY <1>1 DEF LogInv, Media, Position
  <2> QED BY <1>1, <1>2, <2>1, <2>2, HaltSafe
<1>3. CASE mode = "direct" /\ log_pc = "idle" /\ log_pc' = "closing"
  <2>1. staging = <<>>
    BY <1>3 DEF LogInv, Staged
  <2>2. Acknowledged'
    BY <1>1 DEF LogInv, Acknowledged
  <2> QED BY <1>1, <1>3, <2>1, <2>2, QuietSafe DEF LogInv, LogTypes
<1> QED BY <1>1, <1>2, <1>3

\* A frame on the medium goes bad.
LEMMA DamageSafe ==
  LogInv /\ (\E i \in DOMAIN file : Wal!Damage(i)) => LogInv' /\ Remains(file', file)
<1> SUFFICES ASSUME LogInv, NEW i \in DOMAIN file, Wal!Damage(i)
             PROVE  LogInv' /\ Remains(file', file)
  OBVIOUS
<1>1. /\ log_pc = "down" /\ log_pc' = "down" /\ file' = [file EXCEPT ![i].part = "damaged"]
      /\ UNCHANGED <<mode, exists, synced, dir_synced, reserved, staging, ack, ack_seq, docs>>
  BY DEF Wal!Damage, Wal!acks
<1>2. staging = <<>> /\ file \in Seq(FrameSet) /\ Len(file) \in Nat /\ DOMAIN file = 1 .. Len(file)
  BY <1>1 DEF LogInv, Staged, LogTypes
<1>3. [file[i] EXCEPT !.part = "damaged"] \in FrameSet
  <2>1. file[i] \in FrameSet
    BY <1>2
  <2> QED BY <2>1 DEF FrameSet
<1>4. /\ file' \in Seq(FrameSet) /\ Len(file') = Len(file)
      /\ file' = [file EXCEPT ![i] = [file[i] EXCEPT !.part = "damaged"]]
  BY <1>1, <1>2, <1>3
<1>5. \A j \in 1 .. Len(file) : /\ SameFrame(file'[j], file[j])
                                /\ file'[j].part \in {file[j].part, "damaged"}
  BY <1>2, <1>4 DEF SameFrame, FrameSet
<1>6. Remains(file', file)
  BY <1>2, <1>4, <1>5 DEF Remains
<1>7. \A j \in DOMAIN file' : j < Len(file') \/ j <= synced => file'[j].part \in {"whole", "damaged"}
  BY <1>2, <1>4, <1>5 DEF LogInv, Media
<1>8. exists => synced <= Len(file')
  BY <1>4 DEF LogInv, Media
<1> QED BY <1>1, <1>2, <1>6, <1>7, <1>8, HaltSafe

\* The frames that were synced are still in the file.
SyncedKept ==
  synced <= Len(file') /\ \A i \in 1 .. synced : file'[i] = file[i]

\* Power fails: what was synced remains.
LEMMA PowerLossSafe ==
  LogInv /\ Wal!PowerLoss => LogInv' /\ Remains(file', file) /\ (exists' => SyncedKept)
<1> SUFFICES ASSUME LogInv, Wal!PowerLoss
             PROVE  LogInv' /\ Remains(file', file) /\ (exists' => SyncedKept)
  OBVIOUS
<1>1. /\ log_pc' = "down" /\ staging' = <<>>
      /\ UNCHANGED <<mode, synced, dir_synced, reserved, ack, ack_seq, docs>>
      /\ \/ /\ \E rest \in Wal!Torn(SubSeq(file, synced + 1, Len(file))) :
                 file' = SubSeq(file, 1, synced) \o rest
            /\ exists' = exists
         \/ ~dir_synced /\ file' = <<>> /\ exists' = FALSE
  BY DEF Wal!PowerLoss, Wal!acks
<1>2. /\ file \in Seq(FrameSet) /\ Len(file) \in Nat /\ synced \in Nat /\ DOMAIN file = 1 .. Len(file)
      /\ \A i \in 1 .. Len(file) : file[i] \in FrameSet
  BY DEF LogInv, LogTypes
<1>3. CASE /\ \E rest \in Wal!Torn(SubSeq(file, synced + 1, Len(file))) :
                file' = SubSeq(file, 1, synced) \o rest
           /\ exists' = exists
  <2> DEFINE kept == SubSeq(file, 1, synced)
             risk == SubSeq(file, synced + 1, Len(file))
  <2>1. CASE synced <= Len(file)
    <3>1. /\ kept \in Seq(FrameSet) /\ Len(kept) = synced
          /\ \A i \in 1 .. synced : kept[i] = file[i]
      BY <1>2, <2>1, SubSeqProperties
    <3>2. /\ risk \in Seq(FrameSet) /\ Len(risk) = Len(file) - synced
          /\ \A i \in 1 .. Len(file) - synced : risk[i] = file[synced + i]
      <4>1. \A i \in synced + 1 .. Len(file) : file[i] \in FrameSet
        BY <1>2
      <4>2. /\ risk \in Seq(FrameSet)
            /\ Len(risk) = IF synced + 1 <= Len(file) THEN Len(file) - (synced + 1) + 1 ELSE 0
            /\ \A i \in 1 .. Len(file) - (synced + 1) + 1 : risk[i] = file[(synced + 1) + i - 1]
        BY <1>2, <4>1, SubSeqProperties
      <4> HIDE DEF risk
      <4>3. Len(file) - (synced + 1) + 1 = Len(file) - synced
        BY <1>2
      <4>4. ASSUME NEW i \in 1 .. Len(file) - synced PROVE (synced + 1) + i - 1 = synced + i
        BY <1>2
      <4>5. Len(risk) = Len(file) - synced
        <5>1. ASSUME NEW a \in Nat, NEW b \in Nat, a <= b
              PROVE  (IF a + 1 <= b THEN b - (a + 1) + 1 ELSE 0) = b - a
          BY <5>1
        <5> QED BY <1>2, <2>1, <4>2, <5>1
      <4>6. ASSUME NEW i \in 1 .. Len(file) - synced PROVE risk[i] = file[synced + i]
        <5>1. risk[i] = file[(synced + 1) + i - 1]
          BY <4>2, <4>3
        <5> QED BY <4>4, <5>1
      <4> QED BY <4>2, <4>5, <4>6
    <3> HIDE DEF kept, risk
    <3>3. kept \o risk = file
      <4>1. /\ kept \o risk \in Seq(FrameSet) /\ Len(kept \o risk) = Len(file)
            /\ \A i \in 1 .. synced : (kept \o risk)[i] = file[i]
            /\ \A i \in 1 .. Len(file) - synced : (kept \o risk)[synced + i] = file[synced + i]
        <5>1. /\ kept \o risk \in Seq(FrameSet) /\ Len(kept \o risk) = synced + (Len(file) - synced)
              /\ \A i \in 1 .. synced : (kept \o risk)[i] = kept[i]
              /\ \A i \in 1 .. Len(file) - synced : (kept \o risk)[synced + i] = risk[i]
          <6>1. /\ kept \o risk \in Seq(FrameSet) /\ Len(kept \o risk) = Len(kept) + Len(risk)
                /\ \A i \in 1 .. Len(kept) : (kept \o risk)[i] = kept[i]
                /\ \A i \in 1 .. Len(risk) : (kept \o risk)[Len(kept) + i] = risk[i]
            BY <3>1, <3>2, Joined
          <6> QED BY <3>1, <3>2, <6>1
        <5>2. synced + (Len(file) - synced) = Len(file)
          BY <1>2
        <5> QED BY <3>1, <3>2, <5>1, <5>2
      <4>2. ASSUME NEW i \in 1 .. Len(file) PROVE (kept \o risk)[i] = file[i]
        <5>1. CASE i <= synced
          BY <1>2, <4>1, <5>1
        <5>2. CASE i > synced
          <6>1. i - synced \in 1 .. Len(file) - synced /\ synced + (i - synced) = i
            BY <1>2, <5>2
          <6> QED BY <4>1, <6>1
        <5>3. i <= synced \/ i > synced
          BY <1>2
        <5> QED BY <5>1, <5>2, <5>3, Zenon
      <4> QED BY <1>2, <4>1, <4>2, SeqEqual
    <3>4. PICK rest \in Wal!Torn(risk) : file' = kept \o rest
      BY <1>3 DEF kept, risk
    <3>5. Cut(rest, risk) /\ rest \in Seq(FrameSet)
      BY <3>2, TornIsCut DEF Cut, Remains
    <3>6. Cut(file', file) /\ \A i \in 1 .. synced : file'[i] = file[i]
      <4>1. Cut(kept \o rest, kept \o risk) /\ \A i \in 1 .. Len(kept) : (kept \o rest)[i] = kept[i]
        BY <3>1, <3>2, <3>5, JoinedCut
      <4> QED BY <3>1, <3>3, <3>4, <4>1
    <3>7. Len(file') >= synced /\ Len(file') \in Nat
      BY <1>2, <3>1, <3>4, <3>5, Joined
    <3>8. /\ Remains(file', file) /\ Len(file') <= Len(file) /\ DOMAIN file' = 1 .. Len(file')
          /\ \A i \in 1 .. Len(file') : i < Len(file') => file'[i] = file[i]
      BY <3>6 DEF Cut, Remains
    <3>9. ASSUME NEW i \in 1 .. Len(file'), i < Len(file') \/ i <= synced
          PROVE  file'[i].part \in {"whole", "damaged"}
      <4>1. file'[i] = file[i] /\ i \in 1 .. Len(file) /\ (i < Len(file) \/ i <= synced)
        BY <1>2, <3>6, <3>7, <3>8, <3>9
      <4> QED BY <1>2, <4>1 DEF LogInv, Media
    <3>10. SyncedKept
      BY <3>6, <3>7 DEF SyncedKept
    <3> QED BY <1>1, <1>3, <3>7, <3>8, <3>9, <3>10, HaltSafe
  <2>2. CASE ~ (synced <= Len(file))
    <3>1. ~exists /\ file = <<>> /\ Len(file) = 0
      BY <2>2 DEF LogInv, Media
    <3>2. synced + 1 \in Int /\ ~ (synced + 1 <= 0)
      BY <1>2
    <3>3. risk = <<>> /\ Len(risk) = 0
      <4>1. risk \in Seq(FrameSet) /\ Len(risk) = 0
        BY <1>2, <3>1, <3>2, SubSeqProperties
      <4> QED BY <4>1
    <3>4. PICK rest \in Wal!Torn(risk) : TRUE
      BY <1>3
    <3>5. Wal!Torn(<<>>) = {}
      BY DEF Wal!Torn
    <3> QED BY <3>3, <3>4, <3>5
  <2> QED BY <2>1, <2>2
<1>4. CASE ~dir_synced /\ file' = <<>> /\ exists' = FALSE
  <2>1. Remains(file', file)
    BY <1>2, <1>4 DEF Remains
  <2>2. DOMAIN file' = {}
    BY <1>4
  <2> QED BY <1>1, <1>4, <2>1, <2>2, HaltSafe
<1> QED BY <1>1, <1>3, <1>4

-------------------------------------------------------------------------------
(* What the writer makes: edits and frames. *)

\* An edit within a document makes a document.
LEMMA EditApplies ==
  ASSUME NEW d \in Seq(Nat), NEW offset \in Nat, NEW n \in Nat, offset + n <= Len(d),
         NEW new \in Seq(Nat)
  PROVE  LET edit == Wal!EditOf(d, offset, n, new)
         IN /\ edit \in Edits /\ edit.offset = offset /\ Len(edit.old) = n /\ edit.new = new
            /\ Wal!Apply(d, edit) \in Seq(Nat)
            /\ Len(Wal!Apply(d, edit)) = Len(d) - n + Len(new)
            /\ Wal!Apply(d, edit) # Wal!Bad
<1> DEFINE edit == Wal!EditOf(d, offset, n, new)
           old == SubSeq(d, offset + 1, offset + n)
           front == SubSeq(d, 1, offset)
           back == SubSeq(d, offset + n + 1, Len(d))
<1>1. Len(d) \in Nat /\ \A i \in 1 .. Len(d) : d[i] \in Nat
  OBVIOUS
<1>2. old \in Seq(Nat) /\ Len(old) = n
  <2>1. \A i \in offset + 1 .. offset + n : d[i] \in Nat
    BY <1>1
  <2>2. old \in Seq(Nat) /\ Len(old) = IF offset + 1 <= offset + n THEN offset + n - (offset + 1) + 1 ELSE 0
    BY <2>1, SubSeqProperties
  <2> HIDE DEF old
  <2> QED BY <2>2
<1>3. front \in Seq(Nat) /\ Len(front) = offset
  <2>1. \A i \in 1 .. offset : d[i] \in Nat
    BY <1>1
  <2>2. front \in Seq(Nat) /\ Len(front) = IF 1 <= offset THEN offset - 1 + 1 ELSE 0
    BY <2>1, SubSeqProperties
  <2> HIDE DEF front
  <2> QED BY <2>2
<1>4. back \in Seq(Nat) /\ Len(back) = Len(d) - (offset + n)
  <2>1. \A i \in offset + n + 1 .. Len(d) : d[i] \in Nat
    BY <1>1
  <2>2. /\ back \in Seq(Nat)
        /\ Len(back) = IF offset + n + 1 <= Len(d) THEN Len(d) - (offset + n + 1) + 1 ELSE 0
    BY <1>1, <2>1, SubSeqProperties
  <2> HIDE DEF back
  <2> QED BY <1>1, <2>2
<1>5. edit = [offset |-> offset, old |-> old, new |-> new]
  BY DEF Wal!EditOf
<1> HIDE DEF edit
<1>6. edit.offset = offset /\ edit.old = old /\ edit.new = new
  BY <1>5
<1>7. Wal!Apply(d, edit) = (front \o new) \o back
  BY <1>2, <1>6, Zenon DEF Wal!Apply
<1> HIDE DEF old, front, back
<1>a. Len(new) \in Nat
  OBVIOUS
<1>8. front \o new \in Seq(Nat) /\ Len(front \o new) = offset + Len(new) /\ Len(new) \in Nat
  <2>1. front \o new \in Seq(Nat) /\ Len(front \o new) = Len(front) + Len(new)
    BY <1>3, ConcatProperties
  <2> QED BY <1>3, <1>a, <2>1
<1>9. /\ (front \o new) \o back \in Seq(Nat)
      /\ Len((front \o new) \o back) = (offset + Len(new)) + (Len(d) - (offset + n))
  <2>1. /\ (front \o new) \o back \in Seq(Nat)
        /\ Len((front \o new) \o back) = Len(front \o new) + Len(back)
    <3> DEFINE u == front \o new
    <3>1. u \in Seq(Nat)
      BY <1>8
    <3> HIDE DEF u
    <3>2. u \o back \in Seq(Nat) /\ Len(u \o back) = Len(u) + Len(back)
      BY <1>4, <3>1, ConcatProperties
    <3> QED BY <3>2 DEF u
  <2>2. Len(front \o new) + Len(back) = (offset + Len(new)) + (Len(d) - (offset + n))
    BY <1>4, <1>8
  <2> QED BY <2>1, <2>2, Zenon
<1>10. (offset + Len(new)) + (Len(d) - (offset + n)) = Len(d) - n + Len(new)
  BY <1>1, <1>8
<1>11. Wal!Bad \notin Seq(Nat)
  BY DEF Wal!Bad
<1>12. edit \in Edits
  BY <1>2, <1>5 DEF Edits
<1> QED BY <1>2, <1>6, <1>7, <1>9, <1>10, <1>11, <1>12 DEF edit

\* Inserted bytes are a document of one byte.
LEMMA FreshIs == ASSUME NEW id \in Nat PROVE Wal!Fresh(id) \in Seq(Nat) /\ Len(Wal!Fresh(id)) = 1
BY DEF Wal!Fresh

\* Frames that edit nothing carry an empty edit.
LEMMA EmptyEdit == Wal!NoEdit \in Edits
<1>1. <<>> \in Seq(Nat)
  OBVIOUS
<1> QED BY <1>1 DEF Wal!NoEdit, Edits

\* Every frame the writer makes is one.
LEMMA FramesAre ==
  ASSUME NEW n \in Nat, NEW m \in Nat
  PROVE  /\ \A edit \in Edits : /\ Wal!NodeFrame(n, m, edit) \in FrameSet
                                /\ Wal!NodeFrame(n, m, edit).type = "NODE"
                                /\ Wal!NodeFrame(n, m, edit).seq = n
                                /\ Wal!NodeFrame(n, m, edit).parent = m
                                /\ Wal!NodeFrame(n, m, edit).edit = edit
                                /\ Wal!NodeFrame(n, m, edit).part = "whole"
         /\ /\ Wal!HeadFrame(n, m) \in FrameSet /\ Wal!HeadFrame(n, m).type = "HEAD"
            /\ Wal!HeadFrame(n, m).seq = n /\ Wal!HeadFrame(n, m).parent = 0
            /\ Wal!HeadFrame(n, m).edit.offset = m /\ Wal!HeadFrame(n, m).part = "whole"
         /\ /\ Wal!BaseFrame \in FrameSet /\ Wal!BaseFrame.type = "BASE" /\ Wal!BaseFrame.seq = 1
            /\ Wal!BaseFrame.parent = 0 /\ Wal!BaseFrame.edit.new = Base
            /\ Wal!BaseFrame.part = "whole" /\ Wal!BaseFrame.bytes = HDR + 40
<1> USE StoreAssumption
<1>1. ASSUME NEW edit \in Edits PROVE HDR + (16 + Len(edit.old) + Len(edit.new)) \in Nat
  <2>1. Len(edit.old) \in Nat /\ Len(edit.new) \in Nat
    BY DEF Edits
  <2>2. \A a, b \in Nat : HDR + (16 + a + b) \in Nat
    OBVIOUS
  <2> QED BY <2>1, <2>2
<1>2. \A edit \in Edits : /\ Wal!NodeFrame(n, m, edit) \in FrameSet
                          /\ Wal!NodeFrame(n, m, edit).type = "NODE"
                          /\ Wal!NodeFrame(n, m, edit).seq = n
                          /\ Wal!NodeFrame(n, m, edit).parent = m
                          /\ Wal!NodeFrame(n, m, edit).edit = edit
                          /\ Wal!NodeFrame(n, m, edit).part = "whole"
  BY <1>1 DEF Wal!NodeFrame, Wal!Frame, FrameSet
<1>3. [Wal!NoEdit EXCEPT !.offset = m] \in Edits /\ [Wal!NoEdit EXCEPT !.offset = m].offset = m
  BY EmptyEdit DEF Edits
<1>4. HDR + 8 \in Nat /\ HDR + 40 \in Nat
  OBVIOUS
<1>5. [Wal!NoEdit EXCEPT !.new = Base] \in Edits /\ [Wal!NoEdit EXCEPT !.new = Base].new = Base
  BY EmptyEdit DEF Edits
<1> HIDE DEF Edits
<1>6. /\ Wal!HeadFrame(n, m) \in FrameSet /\ Wal!HeadFrame(n, m).type = "HEAD"
      /\ Wal!HeadFrame(n, m).seq = n /\ Wal!HeadFrame(n, m).parent = 0
      /\ Wal!HeadFrame(n, m).edit.offset = m /\ Wal!HeadFrame(n, m).part = "whole"
  BY <1>3, <1>4 DEF Wal!HeadFrame, Wal!Frame, FrameSet
<1>7. /\ Wal!BaseFrame \in FrameSet /\ Wal!BaseFrame.type = "BASE" /\ Wal!BaseFrame.seq = 1
      /\ Wal!BaseFrame.parent = 0 /\ Wal!BaseFrame.edit.new = Base
      /\ Wal!BaseFrame.part = "whole" /\ Wal!BaseFrame.bytes = HDR + 40
  BY <1>4, <1>5 DEF Wal!BaseFrame, Wal!Frame, FrameSet
<1> QED BY <1>2, <1>6, <1>7

\* Each revision of the frames has its document.
LEMMA RevisionDocs ==
  ASSUME LogInv, NEW id \in Revisions(Frames, Len(Frames))
  PROVE  id \in 0 .. MaxSeq /\ docs[id] \in Seq(Nat) /\ docs[id] # Wal!Bad
<1>1. Wal!Bad \notin Seq(Nat)
  BY DEF Wal!Bad
<1>2. CASE id = 0
  BY <1>1, <1>2, StoreAssumption DEF LogInv, Documents
<1>3. CASE id # 0
  <2>1. id \in DOMAIN Frames /\ Frames[id].type = "NODE"
    <3>1. Frames \in Seq(FrameSet)
      BY Joined DEF LogInv, LogTypes, Frames
    <3> QED BY <1>3, <3>1 DEF Revisions
  <2>2. Derived(docs, id, Frames[id].parent, Frames[id].edit)
    BY <2>1 DEF LogInv, Chained, Follows
  <2> QED BY <1>1, <2>2, StoreAssumption DEF Derived
<1> QED BY <1>2, <1>3

-------------------------------------------------------------------------------
(* Recursion over sequences. *)

\* Induction up to N, as a fact about sets: a least counterexample would need one before it.
LEMMA Induction ==
  ASSUME NEW N \in Nat, NEW T, 0 \in T, \A n \in 0 .. N - 1 : n \in T => n + 1 \in T
  PROVE  0 .. N \subseteq T
<1> DEFINE rest == {n \in 0 .. N : n \notin T}
<1>2. ASSUME rest # {} PROVE FALSE
  <2>1. rest \subseteq Nat
    OBVIOUS
  <2>2. PICK m \in rest : \A n \in rest : <<n, m>> \notin OpToRel(<, Nat)
    <3> HIDE DEF rest
    <3> QED BY <1>2, <2>1, WFMin, NatLessThanWellFounded
  <2>3. m \in Nat /\ m # 0 /\ m - 1 \in 0 .. N - 1 /\ m \notin T
    <3>1. m \in 0 .. N /\ m \notin T
      OBVIOUS
    <3>2. m # 0
      BY <3>1
    <3> QED BY <3>1, <3>2
  <2>4. <<m - 1, m>> \in OpToRel(<, Nat)
    BY <2>3 DEF OpToRel
  <2>5. m - 1 \notin rest
    BY <2>2, <2>4
  <2>6. m - 1 \in T
    BY <2>3, <2>5
  <2>7. (m - 1) + 1 \in T /\ (m - 1) + 1 = m
    BY <2>3, <2>6
  <2> QED BY <2>3, <2>7
<1>3. 0 .. N \subseteq T
  <2>1. rest = {}
    BY <1>2
  <2> QED BY <2>1
<1> QED BY <1>3

\* How many bytes the first frames take.
Ends(s, n, f) ==
  /\ f \in [0 .. n -> Nat] /\ f[0] = 0
  /\ \A i \in 1 .. n : f[i] = f[i - 1] + s[i].bytes

\* The size of frames is the last of the sums of the sizes in front.
LEMMA BytesAre ==
  ASSUME NEW s \in Seq(FrameSet)
  PROVE  \E f : Ends(s, Len(s), f) /\ Wal!FileBytes(s) = f[Len(s)]
<1> DEFINE T == {n \in 0 .. Len(s) : \E f : Ends(s, n, f)}
           Total(f) == [n \in 0 .. Len(s) |-> IF n = 0 THEN 0 ELSE f[n - 1] + s[n].bytes]
<1>1. Len(s) \in Nat /\ \A i \in 1 .. Len(s) : s[i].bytes \in Nat
  <2>1. \A i \in 1 .. Len(s) : s[i] \in FrameSet
    OBVIOUS
  <2> QED BY <2>1 DEF FrameSet
<1>2. 0 \in T
  <2> DEFINE f == [n \in 0 .. 0 |-> 0]
  <2>1. Ends(s, 0, f)
    BY DEF Ends
  <2> QED BY <1>1, <2>1
<1>3. ASSUME NEW n \in 0 .. Len(s) - 1, n \in T PROVE n + 1 \in T
  <2>1. PICK f : Ends(s, n, f)
    BY <1>3
  <2> DEFINE g == [i \in 0 .. n + 1 |-> IF i = n + 1 THEN f[n] + s[n + 1].bytes ELSE f[i]]
  <2>2. n \in Nat /\ f \in [0 .. n -> Nat] /\ s[n + 1].bytes \in Nat
    BY <1>1, <2>1 DEF Ends
  <2>3. g \in [0 .. n + 1 -> Nat] /\ g[0] = 0
    BY <2>1, <2>2 DEF Ends
  <2>4. ASSUME NEW i \in 1 .. n + 1 PROVE g[i] = g[i - 1] + s[i].bytes
    BY <2>1, <2>2 DEF Ends
  <2>5. Ends(s, n + 1, g)
    BY <2>3, <2>4 DEF Ends
  <2> QED BY <1>1, <2>5
<1>4. 0 .. Len(s) \subseteq T
  BY <1>1, <1>2, <1>3, Induction
<1>5. PICK f : Ends(s, Len(s), f)
  BY <1>1, <1>4
<1>6. f = Total(f)
  <2>1. \A n \in 0 .. Len(s) : f[n] = IF n = 0 THEN 0 ELSE f[n - 1] + s[n].bytes
    BY <1>1, <1>5 DEF Ends
  <2> QED BY <1>5, <2>1 DEF Ends
<1>7. Wal!FileBytes(s) = (CHOOSE f_ : f_ = Total(f_))[Len(s)]
  BY DEF Wal!FileBytes
<1> DEFINE h == CHOOSE f_ : f_ = Total(f_)
<1>8. h = Total(h)
  <2> HIDE DEF Total
  <2> QED BY <1>6, Zenon
<1> HIDE DEF h
<1>9. DOMAIN h = 0 .. Len(s) /\ h[0] = 0 /\ \A n \in 1 .. Len(s) : h[n] = h[n - 1] + s[n].bytes
  BY <1>1, <1>8
<1>10. ASSUME NEW n \in 0 .. Len(s) PROVE h[n] \in Nat
  <2> DEFINE U == {k \in 0 .. Len(s) : h[k] \in Nat}
  <2>1. 0 \in U /\ \A k \in 0 .. Len(s) - 1 : k \in U => k + 1 \in U
    BY <1>1, <1>9
  <2>2. 0 .. Len(s) \subseteq U
    BY <1>1, <2>1, Induction
  <2> QED BY <2>2
<1>11. Ends(s, Len(s), h)
  <2>1. h \in [0 .. Len(s) -> Nat]
    BY <1>8, <1>9, <1>10
  <2> QED BY <1>9, <2>1 DEF Ends
<1> QED BY <1>7, <1>11 DEF h

\* No frames have no size.
LEMMA BytesOfNone == Wal!FileBytes(<<>>) = 0
<1>1. <<>> \in Seq(FrameSet) /\ Len(<<>>) = 0
  OBVIOUS
<1> QED BY <1>1, BytesAre DEF Ends

\* Frames in front of others take no more than those.
LEMMA BytesOfFront ==
  ASSUME NEW s \in Seq(FrameSet), NEW t \in Seq(FrameSet), Len(t) <= Len(s),
         \A i \in 1 .. Len(t) : t[i].bytes = s[i].bytes
  PROVE  /\ Wal!FileBytes(s) \in Nat /\ Wal!FileBytes(t) \in Nat
         /\ Wal!FileBytes(t) <= Wal!FileBytes(s)
         /\ Len(t) = Len(s) => Wal!FileBytes(t) = Wal!FileBytes(s)
         /\ Len(s) = Len(t) + 1 => Wal!FileBytes(s) = Wal!FileBytes(t) + s[Len(s)].bytes
<1>1. Len(s) \in Nat /\ Len(t) \in Nat /\ \A i \in 1 .. Len(s) : s[i].bytes \in Nat
  <2>1. \A i \in 1 .. Len(s) : s[i] \in FrameSet
    OBVIOUS
  <2> QED BY <2>1 DEF FrameSet
<1>2. PICK f : Ends(s, Len(s), f) /\ Wal!FileBytes(s) = f[Len(s)]
  BY BytesAre
<1>3. PICK g : Ends(t, Len(t), g) /\ Wal!FileBytes(t) = g[Len(t)]
  BY BytesAre
<1>4. g[Len(t)] = f[Len(t)]
  <2> DEFINE T == {n \in 0 .. Len(t) : g[n] = f[n]}
  <2>1. 0 \in T
    BY <1>1, <1>2, <1>3 DEF Ends
  <2>2. ASSUME NEW n \in 0 .. Len(t) - 1, n \in T PROVE n + 1 \in T
    <3>1. n + 1 \in 1 .. Len(t) /\ n + 1 \in 1 .. Len(s) /\ (n + 1) - 1 = n
      BY <1>1
    <3>2. g[n + 1] = g[n] + t[n + 1].bytes /\ f[n + 1] = f[n] + s[n + 1].bytes
      BY <1>2, <1>3, <3>1 DEF Ends
    <3> QED BY <1>1, <2>2, <3>1, <3>2
  <2>3. 0 .. Len(t) \subseteq T
    BY <1>1, <2>1, <2>2, Induction
  <2> QED BY <1>1, <2>3
<1>5. f[Len(t)] <= f[Len(s)]
  <2> DEFINE T == {n \in 0 .. Len(s) - Len(t) : f[Len(t)] <= f[Len(t) + n]}
  <2>a. \A n \in 0 .. Len(s) : f[n] \in Nat
    BY <1>2 DEF Ends
  <2>1. 0 \in T
    BY <1>1, <2>a
  <2>2. ASSUME NEW n \in 0 .. Len(s) - Len(t) - 1, n \in T PROVE n + 1 \in T
    <3>1. /\ Len(t) + (n + 1) \in 1 .. Len(s) /\ (Len(t) + (n + 1)) - 1 = Len(t) + n
          /\ Len(t) + n \in 0 .. Len(s) /\ Len(t) \in 0 .. Len(s)
      BY <1>1
    <3>2. f[Len(t) + (n + 1)] = f[Len(t) + n] + s[Len(t) + (n + 1)].bytes
      BY <1>2, <3>1 DEF Ends
    <3>3. f[Len(t)] <= f[Len(t) + (n + 1)]
      BY <1>1, <2>a, <2>2, <3>1, <3>2
    <3> QED BY <1>1, <3>3
  <2>3. Len(s) - Len(t) \in Nat
    BY <1>1
  <2>4. 0 .. Len(s) - Len(t) \subseteq T
    <3> HIDE DEF T
    <3> QED BY <2>1, <2>2, <2>3, Induction
  <2>5. Len(s) - Len(t) \in T
    <3> HIDE DEF T
    <3>1. Len(s) - Len(t) \in 0 .. Len(s) - Len(t)
      BY <2>3
    <3> QED BY <2>4, <3>1
  <2>6. Len(t) + (Len(s) - Len(t)) = Len(s)
    BY <1>1
  <2>7. f[Len(t)] <= f[Len(t) + (Len(s) - Len(t))]
    BY <2>5
  <2> QED BY <2>6, <2>7, Zenon
<1>6. f[Len(s)] \in Nat /\ g[Len(t)] \in Nat
  <2>1. Len(s) \in 0 .. Len(s) /\ Len(t) \in 0 .. Len(t)
    BY <1>1
  <2>2. f \in [0 .. Len(s) -> Nat] /\ g \in [0 .. Len(t) -> Nat]
    BY <1>2, <1>3 DEF Ends
  <2> QED BY <2>1, <2>2
<1>7. Len(s) = Len(t) + 1 => f[Len(s)] = f[Len(t)] + s[Len(s)].bytes
  BY <1>1, <1>2 DEF Ends
<1> QED BY <1>2, <1>3, <1>4, <1>5, <1>6, <1>7

-------------------------------------------------------------------------------
(* Sizes. *)

\* Division with remainder.
LEMMA Division ==
  ASSUME NEW x \in Nat, NEW c \in Nat \ {0}
  PROVE  x = c * (x \div c) + (x % c) /\ x % c \in 0 .. c - 1 /\ x \div c \in Nat
OBVIOUS

\* Multiples divide.
LEMMA Multiple == ASSUME NEW q \in Nat, NEW c \in Nat \ {0} PROVE (c * q) % c = 0 /\ c * q \in Nat
OBVIOUS

\* Padding brings any end to the next page boundary or the one after, leaves room for
\* its own header, and fits the buffer of one page it is written from.
LEMMA SealedIs ==
  ASSUME NEW e \in Nat
  PROVE  /\ Wal!Sealed(e) \in Nat /\ Wal!Sealed(e) - HDR \in 0 .. Page
         /\ (e + Wal!Sealed(e)) % Page = 0
<1> DEFINE q == e \div Page
           r == e % Page
<1>1. HDR \in Nat \ {0} /\ Page \in Nat \ {0} /\ Page >= HDR
  BY StoreAssumption
<1>2. e = Page * q + r /\ r \in 0 .. Page - 1 /\ q \in Nat
  BY <1>1, Division
<1>3. Wal!Sealed(e) = IF Page - r < HDR THEN Page - r + Page ELSE Page - r
  BY DEF Wal!Sealed
<1> HIDE DEF q, r
<1>4. Wal!Sealed(e) \in Nat /\ Wal!Sealed(e) - HDR \in 0 .. Page
  BY <1>1, <1>2, <1>3
<1>5. e + Wal!Sealed(e) = Page * (q + 1) \/ e + Wal!Sealed(e) = Page * (q + 2)
  BY <1>1, <1>2, <1>3
<1>6. q + 1 \in Nat /\ q + 2 \in Nat
  BY <1>2
<1>7. (Page * (q + 1)) % Page = 0 /\ (Page * (q + 2)) % Page = 0
  BY <1>1, <1>6, Multiple
<1> QED BY <1>4, <1>5, <1>7

\* reserve_wal adds whole chunks, as many as the write needs.
LEMMA GrownIs ==
  ASSUME NEW e \in Nat, reserved \in Nat
  PROVE  /\ Wal!Grown(e) \in Nat /\ Wal!Grown(e) >= reserved
         /\ Chunk > 0 => e <= Wal!Grown(e)
         /\ Chunk > 0 /\ reserved % Chunk = 0 => Wal!Grown(e) % Chunk = 0
<1>1. CASE Chunk > 0 /\ e > reserved
  <2> DEFINE x == e - reserved + Chunk - 1
             k == x \div Chunk
             r == x % Chunk
  <2>1. Chunk \in Nat \ {0} /\ x \in Nat
    BY <1>1, StoreAssumption
  <2>2. x = Chunk * k + r /\ r \in 0 .. Chunk - 1 /\ k \in Nat
    <3> HIDE DEF x
    <3> QED BY <2>1, Division
  <2>3. Wal!Grown(e) = reserved + k * Chunk
    BY <1>1 DEF Wal!Grown
  <2>4. k * Chunk = Chunk * k /\ Chunk * k \in Nat
    <3> HIDE DEF k
    <3> QED BY <2>1, <2>2
  <2>5. Wal!Grown(e) \in Nat /\ Wal!Grown(e) >= reserved /\ e <= Wal!Grown(e)
    <3>1. e - reserved + Chunk - 1 = Chunk * k + r
      BY <2>2
    <3> HIDE DEF k, r, x
    <3> DEFINE m == Chunk * k
    <3>2. m \in Nat /\ e - reserved + Chunk - 1 = m + r /\ Wal!Grown(e) = reserved + m
      BY <2>3, <2>4, <3>1
    <3> HIDE DEF m
    <3> QED BY <2>1, <2>2, <3>2
  <2>6. ASSUME reserved % Chunk = 0 PROVE Wal!Grown(e) % Chunk = 0
    <3> DEFINE j == reserved \div Chunk
    <3>1. reserved = Chunk * j + (reserved % Chunk) /\ j \in Nat
      BY <2>1, Division
    <3> HIDE DEF j, k
    <3>2. reserved = Chunk * j
      <4>1. Chunk * j \in Nat
        BY <2>1, <3>1
      <4> QED BY <2>6, <3>1, <4>1
    <3>3. reserved + k * Chunk = Chunk * (j + k) /\ j + k \in Nat
      BY <2>1, <2>2, <2>4, <3>1, <3>2
    <3>4. (Chunk * (j + k)) % Chunk = 0
      BY <2>1, <3>3, Multiple
    <3> QED BY <2>3, <3>3, <3>4
  <2> QED BY <2>5, <2>6
<1>2. CASE ~ (Chunk > 0 /\ e > reserved)
  <2>1. Wal!Grown(e) = reserved
    BY <1>2 DEF Wal!Grown
  <2> QED BY <1>2, <2>1
<1> QED BY <1>1, <1>2

-------------------------------------------------------------------------------
(* What recovery reads. *)

\* recover reads one frame after another.
LEMMA ReadingIs ==
  ASSUME NEW s, Len(s) \in Nat, NEW base
  PROVE  /\ Wal!Reading(s, base)[0] = Wal!Nothing
         /\ \A i \in 1 .. Len(s) :
              Wal!Reading(s, base)[i] = Wal!RecoverFrame(Wal!Reading(s, base)[i - 1], s[i], base)
<1> DEFINE Step(r, n) == Wal!RecoverFrame(r, s[n], base)
           Total(f) == [n \in 0 .. Len(s) |-> IF n = 0 THEN Wal!Nothing ELSE Step(f[n - 1], n)]
           Reads(f, n) == /\ DOMAIN f = 0 .. n /\ f = [i \in 0 .. n |-> f[i]] /\ f[0] = Wal!Nothing
                          /\ \A i \in 1 .. n : f[i] = Step(f[i - 1], i)
           T == {n \in 0 .. Len(s) : \E f : Reads(f, n)}
<1>1. Wal!Reading(s, base) = CHOOSE f_ : f_ = Total(f_)
  BY DEF Wal!Reading
<1> HIDE DEF Step
<1>2. 0 \in T
  <2> DEFINE f == [n \in 0 .. 0 |-> Wal!Nothing]
  <2>1. Reads(f, 0)
    OBVIOUS
  <2> HIDE DEF f, Reads
  <2> QED BY <2>1
<1>3. ASSUME NEW n \in 0 .. Len(s) - 1, n \in T PROVE n + 1 \in T
  <2>1. PICK f : Reads(f, n)
    BY <1>3
  <2> DEFINE g == [i \in 0 .. n + 1 |-> IF i = n + 1 THEN Step(f[n], n + 1) ELSE f[i]]
  <2>2. g[0] = Wal!Nothing /\ DOMAIN g = 0 .. n + 1 /\ g = [i \in 0 .. n + 1 |-> g[i]]
    BY <2>1
  <2>3. ASSUME NEW i \in 1 .. n + 1 PROVE g[i] = Step(g[i - 1], i)
    <3>1. CASE i = n + 1
      BY <3>1
    <3>2. CASE i # n + 1
      <4>1. i \in 1 .. n /\ g[i] = f[i] /\ g[i - 1] = f[i - 1]
        BY <3>2
      <4> QED BY <2>1, <4>1
    <3> QED BY <3>1, <3>2
  <2>4. Reads(g, n + 1)
    <3> HIDE DEF g
    <3> QED BY <2>2, <2>3
  <2> HIDE DEF g, Reads
  <2> QED BY <2>4
<1>4. 0 .. Len(s) \subseteq T
  <2> HIDE DEF T
  <2> QED BY <1>2, <1>3, Induction
<1>5. PICK f : Reads(f, Len(s))
  BY <1>4
<1>6. f = Total(f)
  BY <1>5
<1> DEFINE h == CHOOSE f_ : f_ = Total(f_)
<1>7. h = Total(h)
  <2> HIDE DEF Total
  <2> QED BY <1>6, Zenon
<1> HIDE DEF h
<1>8. h[0] = Wal!Nothing /\ \A i \in 1 .. Len(s) : h[i] = Step(h[i - 1], i)
  BY <1>7
<1>9. h = Wal!Reading(s, base)
  BY <1>1 DEF h
<1> QED BY <1>8, <1>9 DEF Step

\* The revisions and the selection that n whole frames of s leave.
Nodes(s, d, n) ==
  [i \in {j \in 1 .. n : s[j].type = "NODE"} |->
     [parent |-> s[i].parent, edit |-> s[i].edit, size |-> Len(d[i])]]
Last(s, n, h) ==
  \/ h = 0 /\ \A i \in 1 .. n : s[i].type # "HEAD"
  \/ \E i \in 1 .. n : /\ s[i].type = "HEAD" /\ s[i].edit.offset = h
                       /\ \A j \in 1 .. n : s[j].type = "HEAD" => j <= i
Ending(status, s, d, n, h) ==
  [status |-> status, sequence |-> n, head |-> h, nodes |-> Nodes(s, d, n)]

Wholes(s, n) == \A i \in 1 .. n : s[i].part = "whole"

\* Frame n + 1 ends the reading.
Verdict(s, n) == IF s[n + 1].part \in {"header", "payload"} /\ n > 0 THEN "PREFIX" ELSE "BAD"

\* What is recovered of the first n frames.
Recovers(r, s, d, n) ==
  \/ Wholes(s, n) /\ \E h : Last(s, n, h) /\ r = Ending("reading", s, d, n, h)
  \/ \E m \in 0 .. n - 1 : \E h :
       /\ Wholes(s, m) /\ s[m + 1].part # "whole"
       /\ Last(s, m, h) /\ r = Ending(Verdict(s, m), s, d, m, h)

\* The documents of a chain.
LEMMA ChainedDocs ==
  ASSUME NEW s \in Seq(FrameSet), NEW d, Chained(s, d), d[0] = Base,
         NEW n \in 0 .. Len(s), NEW id \in Revisions(s, n)
  PROVE  d[id] \in Seq(Nat) /\ Len(d[id]) \in Nat /\ id \in Nat
<1>1. CASE id = 0
  BY <1>1, StoreAssumption
<1>2. CASE id # 0
  <2>1. id \in DOMAIN s /\ s[id].type = "NODE"
    BY <1>2 DEF Revisions
  <2>2. Derived(d, id, s[id].parent, s[id].edit)
    BY <2>1 DEF Chained, Follows
  <2>3. d[id] \in Seq(Nat) /\ id \in 1 .. MaxSeq
    BY <2>2 DEF Derived
  <2>4. Len(d[id]) \in Nat
    BY <2>3
  <2> QED BY <2>3, <2>4
<1> QED BY <1>1, <1>2

\* One more whole frame is accepted.
LEMMA FrameAccepted ==
  ASSUME NEW s \in Seq(FrameSet), NEW d, Chained(s, d), d[0] = Base,
         NEW n \in 1 .. Len(s), s[n].part = "whole", NEW h, Last(s, n - 1, h)
  PROVE  \E k : /\ Last(s, n, k)
                /\ Wal!RecoverFrame(Ending("reading", s, d, n - 1, h), s[n], Base)
                     = Ending("reading", s, d, n, k)
<1> DEFINE r == Ending("reading", s, d, n - 1, h)
           f == s[n]
<1>1. Follows(f, n, s, d) /\ f \in FrameSet /\ n \in Nat
  BY DEF Chained
<1>2. /\ r.status = "reading" /\ r.sequence = n - 1 /\ r.head = h
      /\ r.nodes = Nodes(s, d, n - 1) /\ n - 1 \in Nat
  BY DEF Ending
<1>3. Wal!WellPlaced(r, f)
  BY <1>1, <1>2 DEF Wal!WellPlaced, Follows
<1>4. Wal!RecoverFrame(r, f, Base) = Wal!Accept(r, f, Base)
  BY <1>2, <1>3, Zenon DEF Wal!RecoverFrame
<1>5. DOMAIN r.nodes = {j \in 1 .. n - 1 : s[j].type = "NODE"}
  BY <1>2 DEF Nodes
<1>6. {0} \cup DOMAIN r.nodes = Revisions(s, n - 1)
  BY <1>5 DEF Revisions
<1>7. f.type \in {"BASE", "NODE", "HEAD", "PAD"} /\ f.seq = n
  BY <1>1 DEF FrameSet, Follows
<1>8. f.type # "NODE" => Nodes(s, d, n) = Nodes(s, d, n - 1)
  <2> SUFFICES ASSUME f.type # "NODE" PROVE Nodes(s, d, n) = Nodes(s, d, n - 1)
    OBVIOUS
  <2>1. {j \in 1 .. n : s[j].type = "NODE"} = {j \in 1 .. n - 1 : s[j].type = "NODE"}
    BY <1>1
  <2> QED BY <2>1 DEF Nodes
<1>9. f.type # "HEAD" => Last(s, n, h)
  BY <1>1 DEF Last
<1>10. CASE f.type = "BASE"
  <2>1. Wal!Accept(r, f, Base) = [r EXCEPT !.sequence = f.seq]
    BY <1>1, <1>10 DEF Wal!Accept, Follows
  <2>2. [r EXCEPT !.sequence = f.seq] = Ending("reading", s, d, n, h)
    BY <1>7, <1>8, <1>10 DEF Ending
  <2> QED BY <1>4, <1>9, <1>10, <2>1, <2>2
<1>11. CASE f.type = "PAD"
  <2>1. Wal!Accept(r, f, Base) = [r EXCEPT !.sequence = f.seq]
    BY <1>11 DEF Wal!Accept
  <2>2. [r EXCEPT !.sequence = f.seq] = Ending("reading", s, d, n, h)
    BY <1>7, <1>8, <1>11 DEF Ending
  <2> QED BY <1>4, <1>9, <1>11, <2>1, <2>2
<1>12. CASE f.type = "HEAD"
  <2>1. f.edit.offset \in {0} \cup DOMAIN r.nodes
    BY <1>1, <1>6, <1>12 DEF Follows
  <2>2. Wal!Accept(r, f, Base) = [[r EXCEPT !.sequence = f.seq] EXCEPT !.head = f.edit.offset]
    BY <1>12, <2>1 DEF Wal!Accept
  <2>3. [[r EXCEPT !.sequence = f.seq] EXCEPT !.head = f.edit.offset]
          = Ending("reading", s, d, n, f.edit.offset)
    <3>1. [r EXCEPT !.sequence = f.seq] = Ending("reading", s, d, n, h)
      BY <1>7, <1>8, <1>12 DEF Ending
    <3>2. [Ending("reading", s, d, n, h) EXCEPT !.head = f.edit.offset]
            = Ending("reading", s, d, n, f.edit.offset)
      BY DEF Ending
    <3> HIDE DEF r, f
    <3> QED BY <3>1, <3>2
  <2>4. Last(s, n, f.edit.offset)
    BY <1>12 DEF Last
  <2> QED BY <1>4, <2>2, <2>3, <2>4
<1>13. CASE f.type = "NODE"
  <2>1. f.parent \in Revisions(s, n - 1) /\ Derived(d, n, f.parent, f.edit)
    BY <1>1, <1>13 DEF Follows
  <2>a. n - 1 \in 0 .. Len(s)
    BY <1>1
  <2>2. d[f.parent] \in Seq(Nat) /\ Len(d[f.parent]) \in Nat /\ f.parent \in Nat
    BY <1>1, <2>1, <2>a, ChainedDocs
  <2>3. Wal!ResultSize(r, f.parent, Base) = Len(d[f.parent])
    <3>1. CASE f.parent = 0
      BY <3>1 DEF Wal!ResultSize
    <3>2. CASE f.parent # 0
      <4>1. f.parent \in {j \in 1 .. n - 1 : s[j].type = "NODE"}
        BY <2>1, <3>2 DEF Revisions
      <4>2. r.nodes[f.parent].size = Len(d[f.parent])
        BY <1>2, <4>1 DEF Nodes
      <4> QED BY <3>2, <4>2 DEF Wal!ResultSize
    <3> QED BY <3>1, <3>2
  <2>4. Wal!Fits(r, f, Base)
    BY <1>6, <2>1, <2>3 DEF Wal!Fits, Derived
  <2> DEFINE size == Wal!ResultSize(r, f.parent, Base) - Len(f.edit.old) + Len(f.edit.new)
             node == [parent |-> f.parent, edit |-> f.edit, size |-> size]
             grown == [i \in DOMAIN r.nodes \cup {f.seq} |->
                         IF i = f.seq THEN node ELSE r.nodes[i]]
  <2>5. Wal!Accept(r, f, Base) = [[r EXCEPT !.sequence = f.seq] EXCEPT !.nodes = grown]
    BY <1>13, <2>4 DEF Wal!Accept
  <2>6. node = [parent |-> s[n].parent, edit |-> s[n].edit, size |-> Len(d[n])]
    BY <2>1, <2>3 DEF Derived
  <2> HIDE DEF node
  <2>7. grown = Nodes(s, d, n)
    <3>1. DOMAIN r.nodes \cup {f.seq} = {j \in 1 .. n : s[j].type = "NODE"}
      BY <1>1, <1>5, <1>7, <1>13
    <3>2. ASSUME NEW i \in {j \in 1 .. n : s[j].type = "NODE"}
          PROVE  (IF i = f.seq THEN node ELSE r.nodes[i])
                   = [parent |-> s[i].parent, edit |-> s[i].edit, size |-> Len(d[i])]
      <4>1. CASE i = n
        BY <1>7, <2>6, <4>1
      <4>2. CASE i # n
        <5>1. i \in {j \in 1 .. n - 1 : s[j].type = "NODE"}
          BY <1>1, <4>2
        <5> QED BY <1>2, <1>7, <4>2, <5>1 DEF Nodes
      <4> QED BY <4>1, <4>2
    <3> HIDE DEF r, f
    <3> QED BY <3>1, <3>2 DEF Nodes
  <2> HIDE DEF grown
  <2>8. [[r EXCEPT !.sequence = f.seq] EXCEPT !.nodes = grown] = Ending("reading", s, d, n, h)
    <3> DEFINE counted == [status |-> "reading", sequence |-> n, head |-> h,
                           nodes |-> Nodes(s, d, n - 1)]
    <3>1. [r EXCEPT !.sequence = f.seq] = counted
      BY <1>7 DEF Ending
    <3>2. [counted EXCEPT !.nodes = grown] = Ending("reading", s, d, n, h)
      BY <2>7 DEF Ending
    <3> HIDE DEF r, f, counted
    <3> QED BY <3>1, <3>2
  <2> QED BY <1>4, <1>9, <1>13, <2>5, <2>8
<1> QED BY <1>7, <1>10, <1>11, <1>12, <1>13

\* Recovery of a chain of frames returns exactly the whole ones in front.
LEMMA ChainRecovered ==
  ASSUME NEW s \in Seq(FrameSet), NEW d, Chained(s, d), d[0] = Base, NEW n \in 0 .. Len(s)
  PROVE  Recovers(Wal!Reading(s, Base)[n], s, d, n)
<1> DEFINE r(k) == Wal!Reading(s, Base)[k]
           T == {k \in 0 .. Len(s) : Recovers(r(k), s, d, k)}
<1>1. /\ Len(s) \in Nat /\ r(0) = Wal!Nothing
      /\ \A i \in 1 .. Len(s) : r(i) = Wal!RecoverFrame(r(i - 1), s[i], Base)
  BY ReadingIs
<1> HIDE DEF r
<1>2. 0 \in T
  <2>1. Nodes(s, d, 0) = <<>>
    <3>1. {j \in 1 .. 0 : s[j].type = "NODE"} = {}
      OBVIOUS
    <3>2. Nodes(s, d, 0) = [i \in {} |-> [parent |-> s[i].parent, edit |-> s[i].edit,
                                          size |-> Len(d[i])]]
      BY <3>1 DEF Nodes
    <3> QED BY <3>2
  <2>2. r(0) = Ending("reading", s, d, 0, 0)
    BY <1>1, <2>1 DEF Ending, Wal!Nothing
  <2>3. Wholes(s, 0) /\ Last(s, 0, 0)
    BY DEF Wholes, Last
  <2> QED BY <1>1, <2>2, <2>3 DEF Recovers
<1>3. ASSUME NEW k \in 0 .. Len(s) - 1, k \in T PROVE k + 1 \in T
  <2>1. k \in Nat /\ k + 1 \in 1 .. Len(s) /\ (k + 1) - 1 = k
    BY <1>1
  <2>2. r(k + 1) = Wal!RecoverFrame(r(k), s[k + 1], Base)
    BY <1>1, <2>1
  <2>3. CASE Wholes(s, k) /\ \E h : Last(s, k, h) /\ r(k) = Ending("reading", s, d, k, h)
    <3>1. PICK h : Last(s, k, h) /\ r(k) = Ending("reading", s, d, k, h)
      BY <2>3
    <3>2. CASE s[k + 1].part = "whole"
      <4>1. Wholes(s, k + 1)
        BY <2>1, <2>3, <3>2 DEF Wholes
      <4>2. Last(s, (k + 1) - 1, h) /\ Ending("reading", s, d, (k + 1) - 1, h) = r(k)
        BY <2>1, <3>1
      <4>3. PICK g : /\ Last(s, k + 1, g)
                     /\ Wal!RecoverFrame(Ending("reading", s, d, (k + 1) - 1, h), s[k + 1], Base)
                          = Ending("reading", s, d, k + 1, g)
        BY <2>1, <3>2, <4>2, FrameAccepted
      <4>4. r(k + 1) = Ending("reading", s, d, k + 1, g)
        BY <2>2, <4>2, <4>3
      <4> QED BY <2>1, <4>1, <4>3, <4>4 DEF Recovers
    <3>3. CASE s[k + 1].part # "whole"
      <4>1. Wal!RecoverFrame(r(k), s[k + 1], Base) = Wal!Stops(r(k), Verdict(s, k))
        <5>1. r(k).status = "reading" /\ r(k).sequence = k
          BY <3>1 DEF Ending
        <5>2. CASE s[k + 1].part \in {"header", "payload"}
          <6>1. Wal!RecoverFrame(r(k), s[k + 1], Base) = Wal!Stops(r(k), IF k > 0 THEN "PREFIX" ELSE "BAD")
            BY <5>1, <5>2 DEF Wal!RecoverFrame
          <6> QED BY <5>2, <6>1 DEF Verdict
        <5>3. CASE s[k + 1].part \notin {"header", "payload"}
          <6>1. Wal!RecoverFrame(r(k), s[k + 1], Base) = Wal!Stops(r(k), "BAD")
            BY <3>3, <5>1, <5>3 DEF Wal!RecoverFrame
          <6> QED BY <5>3, <6>1 DEF Verdict
        <5> QED BY <5>2, <5>3
      <4>2. Wal!Stops(r(k), Verdict(s, k)) = Ending(Verdict(s, k), s, d, k, h)
        BY <3>1 DEF Wal!Stops, Ending
      <4>3. k \in 0 .. (k + 1) - 1
        BY <2>1
      <4>4. r(k + 1) = Ending(Verdict(s, k), s, d, k, h)
        BY <2>2, <4>1, <4>2
      <4> QED BY <2>1, <2>3, <3>1, <3>3, <4>3, <4>4 DEF Recovers
    <3> QED BY <3>2, <3>3
  <2>4. CASE \E m \in 0 .. k - 1 : \E h :
               /\ Wholes(s, m) /\ s[m + 1].part # "whole"
               /\ Last(s, m, h) /\ r(k) = Ending(Verdict(s, m), s, d, m, h)
    <3>1. PICK m \in 0 .. k - 1 : \E h :
            /\ Wholes(s, m) /\ s[m + 1].part # "whole"
            /\ Last(s, m, h) /\ r(k) = Ending(Verdict(s, m), s, d, m, h)
      BY <2>4
    <3>a. PICK h : Last(s, m, h) /\ r(k) = Ending(Verdict(s, m), s, d, m, h)
      BY <3>1
    <3>2. r(k).status # "reading"
      BY <3>a DEF Ending, Verdict
    <3>3. r(k + 1) = r(k)
      BY <2>2, <3>2, Zenon DEF Wal!RecoverFrame
    <3>4. m \in 0 .. (k + 1) - 1
      BY <2>1
    <3> QED BY <2>1, <3>1, <3>a, <3>3, <3>4 DEF Recovers
  <2> QED BY <1>3, <2>3, <2>4 DEF Recovers
<1>4. 0 .. Len(s) \subseteq T
  <2> HIDE DEF T
  <2> QED BY <1>1, <1>2, <1>3, Induction
<1> QED BY <1>4 DEF r

\* Over a base that is not its own, no frame of a chain is accepted.
LEMMA ChainRefused ==
  ASSUME NEW s \in Seq(FrameSet), NEW d, Chained(s, d), NEW n \in 1 .. Len(s)
  PROVE  \E status \in {"BAD", "MISMATCH"} :
           Wal!Reading(s, OtherBase)[n] = Wal!Stops(Wal!Nothing, status)
<1> DEFINE r(k) == Wal!Reading(s, OtherBase)[k]
           Refused(q) == \E status \in {"BAD", "MISMATCH"} : q = Wal!Stops(Wal!Nothing, status)
           T == {k \in 0 .. Len(s) : k > 0 => Refused(r(k))}
<1>1. /\ Len(s) \in Nat /\ r(0) = Wal!Nothing
      /\ \A i \in 1 .. Len(s) : r(i) = Wal!RecoverFrame(r(i - 1), s[i], OtherBase)
  BY ReadingIs
<1> HIDE DEF r
<1>2. 0 \in T
  BY <1>1
<1>3. ASSUME NEW k \in 0 .. Len(s) - 1, k \in T PROVE k + 1 \in T
  <2>1. k \in Nat /\ k + 1 \in 1 .. Len(s) /\ (k + 1) - 1 = k
    BY <1>1
  <2>2. r(k + 1) = Wal!RecoverFrame(r(k), s[k + 1], OtherBase)
    BY <1>1, <2>1
  <2>3. CASE k > 0
    <3>1. PICK status \in {"BAD", "MISMATCH"} : r(k) = Wal!Stops(Wal!Nothing, status)
      BY <1>3, <2>3
    <3>2. r(k).status # "reading"
      BY <3>1 DEF Wal!Stops, Wal!Nothing
    <3>3. r(k + 1) = r(k)
      BY <2>2, <3>2, Zenon DEF Wal!RecoverFrame
    <3> QED BY <2>1, <3>1, <3>3
  <2>4. CASE k = 0
    <3>1. r(1) = Wal!RecoverFrame(Wal!Nothing, s[1], OtherBase) /\ 1 \in 1 .. Len(s)
      BY <1>1, <2>1, <2>2, <2>4
    <3>2. Follows(s[1], 1, s, d)
      BY <3>1 DEF Chained
    <3>3. s[1].type = "BASE" /\ s[1].edit.new # OtherBase
      BY <3>2, StoreAssumption DEF Follows
    <3>4. Wal!Nothing.status = "reading" /\ Wal!Nothing.sequence = 0
      BY DEF Wal!Nothing
    <3>5. Wal!Accept(Wal!Nothing, s[1], OtherBase) = Wal!Stops(Wal!Nothing, "MISMATCH")
      BY <3>3 DEF Wal!Accept
    <3>6. \/ Wal!RecoverFrame(Wal!Nothing, s[1], OtherBase) = Wal!Stops(Wal!Nothing, "BAD")
          \/ Wal!RecoverFrame(Wal!Nothing, s[1], OtherBase) = Wal!Accept(Wal!Nothing, s[1], OtherBase)
      BY <3>4 DEF Wal!RecoverFrame
    <3>7. Refused(r(1))
      BY <3>1, <3>5, <3>6
    <3> HIDE DEF Refused
    <3> QED BY <2>1, <2>4, <3>7
  <2> QED BY <2>1, <2>3, <2>4
<1>4. 0 .. Len(s) \subseteq T
  <2> HIDE DEF T
  <2> QED BY <1>1, <1>2, <1>3, Induction
<1> QED BY <1>4 DEF r

\* Every revision that is recovered materializes to its document.
LEMMA ChainMaterializes ==
  ASSUME NEW s \in Seq(FrameSet), NEW d, Chained(s, d), d[0] = Base, NEW n \in 0 .. Len(s),
         NEW status, NEW h, NEW id \in Revisions(s, n)
  PROVE  Wal!Materialize(Ending(status, s, d, n, h), Base, id) = d[id]
<1> DEFINE r == Ending(status, s, d, n, h)
           all == {0} \cup DOMAIN r.nodes
           Total(f) == [i \in all |-> IF i = 0 THEN Base
                                      ELSE Wal!Apply(f[r.nodes[i].parent], r.nodes[i].edit)]
<1>1. r.nodes = Nodes(s, d, n) /\ DOMAIN r.nodes = {j \in 1 .. n : s[j].type = "NODE"}
  BY DEF Ending, Nodes
<1>2. all = Revisions(s, n) /\ n \in Nat /\ Len(s) \in Nat
  BY <1>1 DEF Revisions
<1>3. ASSUME NEW i \in all, i # 0
      PROVE  /\ r.nodes[i].parent \in all /\ r.nodes[i].parent \in 0 .. i - 1
             /\ d[i] = Wal!Apply(d[r.nodes[i].parent], r.nodes[i].edit)
             /\ i \in 1 .. n
  <2>1. i \in {j \in 1 .. n : s[j].type = "NODE"}
    BY <1>1, <1>3
  <2>2. r.nodes[i].parent = s[i].parent /\ r.nodes[i].edit = s[i].edit
    BY <1>1, <2>1 DEF Nodes
  <2>3. i \in DOMAIN s
    BY <1>2, <2>1
  <2>4. s[i].parent \in Revisions(s, i - 1) /\ Derived(d, i, s[i].parent, s[i].edit)
    BY <2>1, <2>3 DEF Chained, Follows
  <2>5. s[i].parent \in Revisions(s, n) /\ s[i].parent \in 0 .. i - 1
    BY <1>2, <2>1, <2>4 DEF Revisions
  <2> QED BY <1>2, <2>1, <2>2, <2>4, <2>5 DEF Derived
<1>4. Wal!Materialize(r, Base, id) = (CHOOSE f_ : f_ = Total(f_))[id]
  BY <1>2 DEF Wal!Materialize
<1> HIDE DEF r
<1> DEFINE g == [i \in all |-> d[i]]
<1>5. g = Total(g)
  <2>1. ASSUME NEW i \in all
        PROVE  d[i] = IF i = 0 THEN Base ELSE Wal!Apply(g[r.nodes[i].parent], r.nodes[i].edit)
    BY <1>3
  <2> HIDE DEF all
  <2> QED BY <2>1
<1> DEFINE f == CHOOSE f_ : f_ = Total(f_)
<1>6. f = Total(f)
  <2> HIDE DEF Total, g
  <2> QED BY <1>5, Zenon
<1> HIDE DEF f, g
<1>7. \A i \in all : f[i] = IF i = 0 THEN Base ELSE Wal!Apply(f[r.nodes[i].parent], r.nodes[i].edit)
  <2> HIDE DEF all
  <2> QED BY <1>6
<1> DEFINE T == {k \in 0 .. n : \A i \in all : i <= k => f[i] = d[i]}
<1>8. 0 \in T
  <2>1. \A i \in all : i = 0 \/ i \in 1 .. n
    BY <1>3
  <2> QED BY <1>2, <1>7, <2>1
<1>9. ASSUME NEW k \in 0 .. n - 1, k \in T PROVE k + 1 \in T
  <2>1. ASSUME NEW i \in all, i <= k + 1 PROVE f[i] = d[i]
    <3>1. CASE i = 0
      BY <1>7, <3>1
    <3>2. CASE i # 0
      <4>1. r.nodes[i].parent \in all /\ r.nodes[i].parent <= k
        BY <1>2, <1>3, <2>1, <3>2
      <4>2. f[r.nodes[i].parent] = d[r.nodes[i].parent]
        BY <1>9, <4>1
      <4> QED BY <1>3, <1>7, <3>2, <4>2
    <3> QED BY <3>1, <3>2
  <2> QED BY <1>2, <2>1
<1>10. 0 .. n \subseteq T
  <2> HIDE DEF T
  <2> QED BY <1>2, <1>8, <1>9, Induction
<1>11. id \in all /\ id <= n /\ n \in 0 .. n
  BY <1>2 DEF Revisions
<1>12. f[id] = d[id]
  BY <1>10, <1>11
<1> QED BY <1>4, <1>12 DEF r, f

\* Before the first frame nothing is recovered.
LEMMA NothingIs ==
  ASSUME NEW s, NEW d, NEW status
  PROVE  /\ Wal!Stops(Wal!Nothing, status) = Ending(status, s, d, 0, 0)
         /\ Last(s, 0, 0) /\ Wholes(s, 0)
<1>1. {j \in 1 .. 0 : s[j].type = "NODE"} = {}
  OBVIOUS
<1>2. Nodes(s, d, 0) = [i \in {} |-> [parent |-> s[i].parent, edit |-> s[i].edit,
                                      size |-> Len(d[i])]]
  BY <1>1 DEF Nodes
<1>3. Nodes(s, d, 0) = <<>>
  BY <1>2
<1> QED BY <1>3 DEF Ending, Wal!Nothing, Wal!Stops, Wholes, Last

\* What recovery returns of the file.
LEMMA FileRecovered ==
  ASSUME LogInv
  PROVE  /\ file \in Seq(FrameSet) /\ Len(file) \in Nat /\ Chained(file, docs) /\ docs[0] = Base
         /\ \E m \in 0 .. Len(file) : \E h, status :
              /\ Wal!Recover(Base) = Ending(status, file, docs, m, h)
              /\ Wholes(file, m) /\ Last(file, m, h)
              /\ m < Len(file) => file[m + 1].part # "whole" /\ status = Verdict(file, m)
              /\ m = Len(file) => status = IF ~exists THEN "IO" ELSE IF m > 0 THEN "OK" ELSE "BAD"
<1>1. /\ file \in Seq(FrameSet) /\ Len(file) \in Nat /\ staging \in Seq(FrameSet)
      /\ exists \in BOOLEAN /\ docs[0] = Base
  BY DEF LogInv, LogTypes, Documents
<1>2. Chained(file, docs)
  <2>1. Frames \in Seq(FrameSet) /\ Remains(file, Frames)
    BY <1>1, Joined DEF Frames, Remains, SameFrame
  <2> QED BY <1>1, <2>1, RemainsChained DEF LogInv
<1> DEFINE N == Len(file)
           r == Wal!Reading(file, Base)[N]
           Result(m, h, status) ==
              /\ Wal!Recover(Base) = Ending(status, file, docs, m, h)
              /\ Wholes(file, m) /\ Last(file, m, h)
              /\ m < N => file[m + 1].part # "whole" /\ status = Verdict(file, m)
              /\ m = N => status = IF ~exists THEN "IO" ELSE IF m > 0 THEN "OK" ELSE "BAD"
<1>3. Recovers(r, file, docs, N)
  BY <1>1, <1>2, ChainRecovered
<1> HIDE DEF r
<1>4. Wal!Recover(Base) = IF ~exists THEN Wal!Stops(Wal!Nothing, "IO")
                          ELSE IF r.status = "reading"
                          THEN Wal!Stops(r, IF r.sequence > 0 THEN "OK" ELSE "BAD") ELSE r
  BY <1>1 DEF Wal!Recover, r
<1>5. CASE ~exists
  <2>1. N = 0
    BY <1>5 DEF LogInv, Media
  <2>2. Result(0, 0, "IO")
    BY <1>4, <1>5, <2>1, NothingIs
  <2> HIDE DEF Result
  <2>3. \E m \in 0 .. N : \E h, status : Result(m, h, status)
    BY <2>1, <2>2
  <2> QED BY <1>1, <1>2, <2>3 DEF Result
<1>6. CASE exists /\ Wholes(file, N)
           /\ \E h : Last(file, N, h) /\ r = Ending("reading", file, docs, N, h)
  <2>1. PICK h : Last(file, N, h) /\ r = Ending("reading", file, docs, N, h)
    BY <1>6
  <2> DEFINE status == IF N > 0 THEN "OK" ELSE "BAD"
  <2>2. r.status = "reading" /\ r.sequence = N
    BY <2>1 DEF Ending
  <2>3. Wal!Recover(Base) = Wal!Stops(r, status)
    BY <1>4, <1>6, <2>2
  <2>4. Wal!Stops(r, status) = Ending(status, file, docs, N, h)
    BY <2>1 DEF Wal!Stops, Ending
  <2>5. Result(N, h, status)
    BY <1>1, <1>6, <2>1, <2>3, <2>4
  <2> HIDE DEF Result, status
  <2>6. \E m \in 0 .. N : \E g, st : Result(m, g, st)
    BY <1>1, <2>5
  <2> QED BY <1>1, <1>2, <2>6 DEF Result
<1>7. CASE exists /\ \E m \in 0 .. N - 1 : \E h :
             /\ Wholes(file, m) /\ file[m + 1].part # "whole"
             /\ Last(file, m, h) /\ r = Ending(Verdict(file, m), file, docs, m, h)
  <2>1. PICK m \in 0 .. N - 1 : \E h :
             /\ Wholes(file, m) /\ file[m + 1].part # "whole"
             /\ Last(file, m, h) /\ r = Ending(Verdict(file, m), file, docs, m, h)
    BY <1>7
  <2>2. PICK h : Last(file, m, h) /\ r = Ending(Verdict(file, m), file, docs, m, h)
    BY <2>1
  <2>3. r.status # "reading"
    BY <2>2 DEF Ending, Verdict
  <2>4. Wal!Recover(Base) = r
    BY <1>4, <1>7, <2>3
  <2>5. Result(m, h, Verdict(file, m)) /\ m \in 0 .. N
    BY <1>1, <2>1, <2>2, <2>4
  <2> HIDE DEF Result
  <2>6. \E k \in 0 .. N : \E g, st : Result(k, g, st)
    BY <1>1, <2>5
  <2> QED BY <1>1, <1>2, <2>6 DEF Result
<1> QED BY <1>1, <1>3, <1>5, <1>6, <1>7 DEF Recovers

\* An acknowledged revision survives.
LEMMA AcknowledgedSurvives == LogInv => Wal!AckSurvives
<1> SUFFICES ASSUME LogInv, ack_seq > 0, Wal!Undamaged, ~Wal!LostWithName
             PROVE  LET r == Wal!Recover(Base) IN
                      /\ r.status \in {"OK", "PREFIX"}
                      /\ r.sequence >= ack_seq
                      /\ \/ r.head = ack
                         \/ \E i \in ack_seq + 1 .. Len(file) :
                              file[i].type = "HEAD" /\ file[i].edit.offset = r.head
  BY DEF Wal!AckSurvives
<1>0. exists
  BY DEF LogInv, Acknowledged, Media, LogTypes, Wal!LostWithName
<1>1. /\ exists /\ ack_seq <= synced /\ file[ack_seq].type = "HEAD"
      /\ file[ack_seq].edit.offset = ack /\ synced <= Len(file)
      /\ ack_seq \in Nat /\ synced \in Nat
  BY <1>0 DEF LogInv, Acknowledged, Media, LogTypes
<1>2. Len(file) \in Nat /\ DOMAIN file = 1 .. Len(file)
  BY DEF LogInv, LogTypes
<1>3. PICK m \in 0 .. Len(file) : \E h, status :
              /\ Wal!Recover(Base) = Ending(status, file, docs, m, h)
              /\ Wholes(file, m) /\ Last(file, m, h)
              /\ m < Len(file) => file[m + 1].part # "whole" /\ status = Verdict(file, m)
              /\ m = Len(file) => status = IF ~exists THEN "IO" ELSE IF m > 0 THEN "OK" ELSE "BAD"
  BY FileRecovered
<1>4. PICK h, status :
              /\ Wal!Recover(Base) = Ending(status, file, docs, m, h)
              /\ Wholes(file, m) /\ Last(file, m, h)
              /\ m < Len(file) => file[m + 1].part # "whole" /\ status = Verdict(file, m)
              /\ m = Len(file) => status = IF ~exists THEN "IO" ELSE IF m > 0 THEN "OK" ELSE "BAD"
  BY <1>3
<1>a. m \in Nat /\ (m # Len(file) => m < Len(file)) /\ (m < Len(file) => m + 1 \in 1 .. Len(file))
  <2> DEFINE N == Len(file)
  <2>1. N \in Nat /\ m \in 0 .. N
    BY <1>2
  <2> HIDE DEF N
  <2>2. m \in Nat /\ (m # N => m < N) /\ (m < N => m + 1 \in 1 .. N)
    BY <2>1
  <2> QED BY <2>2 DEF N
<1>5. ASSUME m < Len(file) PROVE m >= synced /\ file[m + 1].part \in {"header", "payload"}
  <2>a. m + 1 \in DOMAIN file
    BY <1>2, <1>5, <1>a, Zenon
  <2>1. m + 1 \in DOMAIN file /\ file[m + 1].part # "whole" /\ file[m + 1].part # "damaged"
    BY <1>4, <1>5, <2>a DEF Wal!Undamaged
  <2>2. ~ (m + 1 <= synced)
    BY <2>1 DEF LogInv, Media
  <2>3. file[m + 1] \in FrameSet
    BY <2>1 DEF LogInv, LogTypes
  <2> QED BY <1>1, <2>1, <2>2, <2>3 DEF FrameSet
<1>6. m >= ack_seq /\ m > 0 /\ m \in Nat
  BY <1>1, <1>2, <1>5
<1>7. status \in {"OK", "PREFIX"}
  <2>1. CASE m = Len(file)
    BY <1>1, <1>4, <1>6, <2>1
  <2>2. CASE m # Len(file)
    <3>1. m < Len(file)
      BY <1>a, <2>2
    <3> QED BY <1>4, <1>5, <1>6, <3>1 DEF Verdict
  <2> QED BY <2>1, <2>2
<1>8. PICK i \in 1 .. m : /\ file[i].type = "HEAD" /\ file[i].edit.offset = h
                          /\ \A j \in 1 .. m : file[j].type = "HEAD" => j <= i
  BY <1>1, <1>4, <1>6 DEF Last
<1>9. ack_seq <= i
  BY <1>1, <1>6, <1>8
<1>10. h = ack \/ i \in ack_seq + 1 .. Len(file)
  BY <1>1, <1>2, <1>6, <1>8, <1>9
<1>11. /\ Wal!Recover(Base).status = status /\ Wal!Recover(Base).sequence = m
       /\ Wal!Recover(Base).head = h
  BY <1>4 DEF Ending
<1> QED BY <1>6, <1>7, <1>8, <1>10, <1>11

\* Each revision recovered materializes to the document its writer had.
LEMMA RevisionsAreReached == LogInv => Wal!RevisionsReachable
<1> SUFFICES ASSUME LogInv, NEW id \in DOMAIN Wal!Recover(Base).nodes \cup {Wal!Recover(Base).head}
             PROVE  Wal!Materialize(Wal!Recover(Base), Base, id) = docs[id]
  BY DEF Wal!RevisionsReachable
<1>1. /\ file \in Seq(FrameSet) /\ Len(file) \in Nat /\ Chained(file, docs) /\ docs[0] = Base
      /\ DOMAIN file = 1 .. Len(file)
  BY FileRecovered
<1>2. PICK m \in 0 .. Len(file) : \E h, status :
        Wal!Recover(Base) = Ending(status, file, docs, m, h) /\ Last(file, m, h)
  BY FileRecovered
<1>3. PICK h, status : Wal!Recover(Base) = Ending(status, file, docs, m, h) /\ Last(file, m, h)
  BY <1>2
<1>4. /\ DOMAIN Wal!Recover(Base).nodes = {j \in 1 .. m : file[j].type = "NODE"}
      /\ Wal!Recover(Base).head = h
  BY <1>3 DEF Ending, Nodes
<1>5. h \in Revisions(file, m)
  <2>1. CASE h = 0
    BY <2>1 DEF Revisions
  <2>2. CASE h # 0
    <3>1. PICK i \in 1 .. m : file[i].type = "HEAD" /\ file[i].edit.offset = h
      BY <1>3, <2>2 DEF Last
    <3>2. h \in Revisions(file, i - 1) /\ i \in Nat
      BY <1>1, <3>1 DEF Chained, Follows
    <3> QED BY <3>1, <3>2 DEF Revisions
  <2> QED BY <2>1, <2>2
<1>6. id \in Revisions(file, m)
  BY <1>4, <1>5 DEF Revisions
<1> QED BY <1>1, <1>3, <1>6, ChainMaterializes

\* The status is the truth about the file.
LEMMA StatusIsTruthful == LogInv => Wal!StatusTruthful
<1> SUFFICES ASSUME LogInv PROVE Wal!StatusTruthful
  OBVIOUS
<1> DEFINE N == Len(file)
           r == Wal!Recover(Base)
           other == Wal!Recover(OtherBase)
           before == \A i \in 1 .. N - 1 : file[i].part = "whole"
<1>1. /\ file \in Seq(FrameSet) /\ N \in Nat /\ Chained(file, docs) /\ docs[0] = Base
      /\ DOMAIN file = 1 .. N
  BY FileRecovered
<1>2. exists \in BOOLEAN /\ (~exists => N = 0)
  BY DEF LogInv, LogTypes, Media
<1>3. PICK m \in 0 .. N : \E h, status :
              /\ r = Ending(status, file, docs, m, h)
              /\ Wholes(file, m) /\ Last(file, m, h)
              /\ m < N => file[m + 1].part # "whole" /\ status = Verdict(file, m)
              /\ m = N => status = IF ~exists THEN "IO" ELSE IF m > 0 THEN "OK" ELSE "BAD"
  BY FileRecovered
<1>4. PICK h, status :
              /\ r = Ending(status, file, docs, m, h)
              /\ Wholes(file, m) /\ Last(file, m, h)
              /\ m < N => file[m + 1].part # "whole" /\ status = Verdict(file, m)
              /\ m = N => status = IF ~exists THEN "IO" ELSE IF m > 0 THEN "OK" ELSE "BAD"
  BY <1>3
<1>5. r.status = status
  BY <1>4 DEF Ending
<1>6. \A i \in 1 .. m : file[i].part = "whole"
  BY <1>4 DEF Wholes
<1> HIDE DEF r, N
<1>7. /\ status = "OK" <=> exists /\ N > 0 /\ before /\ file[N].part = "whole"
      /\ status = "PREFIX" <=> exists /\ N > 1 /\ before /\ file[N].part \in {"header", "payload"}
  <2>1. CASE m = N
    <3>1. CASE N = 0
      BY <1>4, <2>1, <3>1
    <3>2. CASE N # 0
      <4>1. N > 0 /\ exists /\ before /\ file[N].part = "whole"
        BY <1>1, <1>2, <1>6, <2>1, <3>2
      <4>2. status = "OK"
        BY <1>4, <2>1, <4>1
      <4> QED BY <4>1, <4>2
    <3> QED BY <3>1, <3>2
  <2>2. CASE m < N
    <3>1. /\ file[m + 1].part # "whole" /\ status = Verdict(file, m) /\ exists
          /\ m + 1 \in 1 .. N /\ m \in Nat
      BY <1>1, <1>2, <1>4, <2>2
    <3>2. status # "OK"
      BY <3>1 DEF Verdict
    <3>3. ~ (before /\ file[N].part = "whole")
      <4>1. CASE m + 1 = N
        BY <3>1, <4>1
      <4>2. CASE m + 1 # N
        <5>1. m + 1 \in 1 .. N - 1
          BY <1>1, <3>1, <4>2
        <5> QED BY <3>1, <5>1
      <4> QED BY <4>1, <4>2
    <3>4. CASE m + 1 = N
      <4>1. before
        BY <1>1, <1>6, <3>4
      <4>2. status = "PREFIX" <=> file[N].part \in {"header", "payload"} /\ m > 0
        BY <3>1, <3>4 DEF Verdict
      <4>3. m > 0 <=> N > 1
        BY <3>1, <3>4
      <4> QED BY <3>1, <3>2, <3>3, <4>1, <4>2, <4>3
    <3>5. CASE m + 1 # N
      <4>1. m + 1 \in 1 .. N - 1
        BY <1>1, <3>1, <3>5
      <4>2. ~before
        BY <3>1, <4>1
      <4>3. file[m + 1].part \in {"whole", "damaged"}
        BY <1>1, <4>1 DEF LogInv, Media, N
      <4>4. status = "BAD"
        BY <3>1, <4>3 DEF Verdict
      <4> QED BY <4>2, <4>4
    <3> QED BY <3>4, <3>5
  <2>3. m = N \/ m < N
    BY <1>1
  <2> QED BY <2>1, <2>2, <2>3, Zenon
<1>8. other.status \in {"IO", "BAD", "MISMATCH"} /\ other.nodes = <<>>
  <2>1. \A st : /\ Wal!Stops(Wal!Nothing, st).status = st
                /\ Wal!Stops(Wal!Nothing, st).nodes = <<>>
    BY DEF Wal!Stops, Wal!Nothing
  <2> DEFINE q == Wal!Reading(file, OtherBase)[N]
  <2>2. \/ other = Wal!Stops(Wal!Nothing, "IO")
        \/ exists /\ q.status = "reading" /\ other = Wal!Stops(q, IF q.sequence > 0 THEN "OK" ELSE "BAD")
        \/ exists /\ q.status # "reading" /\ other = q
    BY <1>2 DEF Wal!Recover, N
  <2>3. CASE N = 0
    <3>1. q = Wal!Nothing
      BY <1>1, <2>3, ReadingIs DEF N
    <3>2. Wal!Nothing.status = "reading" /\ Wal!Nothing.sequence = 0
      BY DEF Wal!Nothing
    <3> HIDE DEF q, other
    <3> QED BY <2>1, <2>2, <3>1, <3>2
  <2>4. CASE N # 0
    <3>1. N \in 1 .. Len(file)
      BY <1>1, <2>4 DEF N
    <3>2. PICK st \in {"BAD", "MISMATCH"} : q = Wal!Stops(Wal!Nothing, st)
      BY <1>1, <3>1, ChainRefused
    <3>3. q.status # "reading" /\ q.status \in {"BAD", "MISMATCH"} /\ q.nodes = <<>>
      BY <2>1, <3>2
    <3> HIDE DEF q, other
    <3> QED BY <2>1, <2>2, <3>3
  <2> QED BY <2>3, <2>4
<1> QED BY <1>5, <1>7, <1>8 DEF Wal!StatusTruthful, r, N

-------------------------------------------------------------------------------
(* The steps that write frames. *)

\* The writer's frames before it writes: nothing is torn, nothing is beyond them.
LEMMA Writing ==
  ASSUME LogInv, log_pc # "down"
  PROVE  /\ Frames \in Seq(FrameSet) /\ Len(Frames) \in Nat /\ DOMAIN Frames = 1 .. Len(Frames)
         /\ Chained(Frames, docs) /\ Selected(Frames, head) /\ seq = Len(Frames)
         /\ \A id \in 1 .. MaxSeq : docs[id] # Wal!Bad => id <= Len(Frames)
         /\ head \in Revisions(Frames, Len(Frames))
         /\ log_pc # "create" => Len(Frames) > 0
<1>1. /\ Frames \in Seq(FrameSet) /\ Chained(Frames, docs) /\ Selected(Frames, head)
      /\ seq = Len(Frames) /\ \A id \in 1 .. MaxSeq : docs[id] # Wal!Bad => id <= Len(Frames)
  BY Joined DEF LogInv, LogTypes, Position, Frames
<1>2. Len(Frames) \in Nat /\ DOMAIN Frames = 1 .. Len(Frames)
  BY <1>1
<1>3. head \in Revisions(Frames, Len(Frames))
  <2>1. CASE head = 0
    BY <2>1 DEF Revisions
  <2>2. CASE head # 0
    <3>1. PICK i \in DOMAIN Frames : Frames[i].type = "HEAD" /\ Frames[i].edit.offset = head
      BY <1>1, <2>2 DEF Selected
    <3>2. head \in Revisions(Frames, i - 1)
      BY <1>1, <3>1 DEF Chained, Follows
    <3> QED BY <1>2, <3>1, <3>2 DEF Revisions
  <2> QED BY <2>1, <2>2
<1>4. ASSUME log_pc # "create" PROVE Len(Frames) > 0
  <2>1. Len(file) > 0
    BY <1>4 DEF LogInv, Position
  <2>2. Len(Frames) = Len(file) + Len(staging) /\ Len(file) \in Nat /\ Len(staging) \in Nat
    BY Joined DEF LogInv, LogTypes, Frames
  <2> QED BY <2>1, <2>2
<1> QED BY <1>1, <1>2, <1>3, <1>4

\* A document there is, is that of a revision.
LEMMA DocumentIsRevision ==
  ASSUME LogInv, log_pc # "down", NEW id \in 0 .. seq, docs[id] # Wal!Bad, seq <= MaxSeq
  PROVE  id \in Revisions(Frames, Len(Frames)) /\ id \in Nat
<1>1. seq = Len(Frames) /\ Len(Frames) \in Nat /\ MaxSeq \in Nat
  BY Writing, StoreAssumption
<1>2. CASE id = 0
  BY <1>2 DEF Revisions
<1>3. CASE id # 0
  <2>1. id \in 1 .. MaxSeq /\ id \in 1 .. Len(Frames)
    BY <1>1, <1>3
  <2>2. Frames[id].type = "NODE"
    BY <2>1 DEF LogInv, Documents, Recorded
  <2> QED BY <2>1, <2>2 DEF Revisions
<1> QED BY <1>2, <1>3

\* One more selection, or one more frame that selects nothing.
LEMMA SelectedNext ==
  ASSUME NEW s \in Seq(FrameSet), NEW f \in FrameSet, NEW id
  PROVE  /\ f.type = "HEAD" => Selected(s \o <<f>>, f.edit.offset)
         /\ f.type # "HEAD" /\ Selected(s, id) => Selected(s \o <<f>>, id)
<1> DEFINE t == s \o <<f>>
<1>1. /\ Len(s) \in Nat /\ \A i \in 1 .. Len(s) : t[i] = s[i]
      /\ t[Len(s) + 1] = f /\ DOMAIN t = 1 .. Len(s) + 1 /\ DOMAIN s = 1 .. Len(s)
  BY Extended
<1> HIDE DEF t
<1>2. ASSUME f.type = "HEAD" PROVE Selected(t, f.edit.offset)
  BY <1>1, <1>2 DEF Selected
<1>3. ASSUME f.type # "HEAD", Selected(s, id) PROVE Selected(t, id)
  <2>1. ASSUME NEW i \in 1 .. Len(s) + 1, t[i].type = "HEAD"
        PROVE  i \in 1 .. Len(s) /\ s[i].type = "HEAD"
    BY <1>1, <1>3, <2>1
  <2>2. CASE id = 0 /\ \A i \in DOMAIN s : s[i].type # "HEAD"
    BY <1>1, <2>1, <2>2 DEF Selected
  <2>3. CASE \E i \in DOMAIN s :
               /\ s[i].type = "HEAD" /\ s[i].edit.offset = id
               /\ \A j \in DOMAIN s : s[j].type = "HEAD" => j <= i
    <3>1. PICK i \in DOMAIN s : /\ s[i].type = "HEAD" /\ s[i].edit.offset = id
                                /\ \A j \in DOMAIN s : s[j].type = "HEAD" => j <= i
      BY <2>3
    <3>2. i \in DOMAIN t /\ t[i].type = "HEAD" /\ t[i].edit.offset = id
      BY <1>1, <3>1
    <3>3. \A j \in DOMAIN t : t[j].type = "HEAD" => j <= i
      BY <1>1, <2>1, <3>1
    <3> QED BY <3>2, <3>3 DEF Selected
  <2> QED BY <1>3, <2>2, <2>3 DEF Selected
<1> QED BY <1>2, <1>3 DEF t

\* The documents may grow by one for a node frame that is appended.
LEMMA RecordedNext ==
  ASSUME NEW s \in Seq(FrameSet), NEW f \in FrameSet, NEW d, NEW e,
         \A id \in 1 .. MaxSeq : d[id] # Wal!Bad => id <= Len(s), Recorded(d, s),
         \A id \in 1 .. MaxSeq : id # Len(s) + 1 => e[id] = d[id],
         f.type = "NODE" \/ (Len(s) + 1 \in 1 .. MaxSeq => e[Len(s) + 1] = d[Len(s) + 1])
  PROVE  /\ Recorded(e, s \o <<f>>)
         /\ \A id \in 1 .. MaxSeq : e[id] # Wal!Bad => id <= Len(s \o <<f>>)
<1> DEFINE t == s \o <<f>>
<1>1. /\ Len(s) \in Nat /\ \A i \in 1 .. Len(s) : t[i] = s[i]
      /\ t[Len(s) + 1] = f /\ Len(t) = Len(s) + 1
  BY Extended
<1> HIDE DEF t
<1>2. ASSUME NEW id \in 1 .. MaxSeq, e[id] # Wal!Bad
      PROVE  id <= Len(t) /\ t[id].type = "NODE"
  <2>1. CASE id = Len(s) + 1
    <3>1. d[id] = Wal!Bad
      BY <1>1, <2>1
    <3>2. f.type = "NODE"
      BY <1>2, <2>1, <3>1
    <3> QED BY <1>1, <2>1, <3>2
  <2>2. CASE id # Len(s) + 1
    <3>1. e[id] = d[id] /\ id <= Len(s) /\ s[id].type = "NODE" /\ id \in 1 .. Len(s)
      BY <1>1, <1>2, <2>2 DEF Recorded
    <3> QED BY <1>1, <3>1
  <2> QED BY <2>1, <2>2
<1>3. Recorded(e, t) /\ \A id \in 1 .. MaxSeq : e[id] # Wal!Bad => id <= Len(t)
  BY <1>2 DEF Recorded
<1> QED BY <1>3 DEF t

\* The base frame is written to the new file.
LEMMA WriteBaseSafe == LogInv /\ Wal!WriteBase => LogInv'
<1> SUFFICES ASSUME LogInv, Wal!WriteBase PROVE LogInv'
  OBVIOUS
<1> DEFINE f == Wal!BaseFrame
           frames == <<f>>
           to == IF mode = "direct" THEN "idle" ELSE "based"
<1>1. /\ log_pc = "create" /\ Wal!WriteAll(frames, to) /\ seq' = 1
      /\ UNCHANGED <<mode, exists, synced, dir_synced, reserved, staging, head, ack, ack_seq, docs>>
  BY DEF Wal!WriteBase, Wal!acks
<1>2. file = <<>> /\ staging = <<>> /\ file \in Seq(FrameSet) /\ Frames = file
  BY <1>1, NothingStaged DEF LogInv, Position, Staged, LogTypes
<1>3. f \in FrameSet /\ f.type = "BASE" /\ f.seq = 1 /\ f.parent = 0 /\ f.edit.new = Base /\ f.part = "whole"
  BY FramesAre
<1> HIDE DEF f
<1>4. /\ Chained(file, docs) /\ Selected(file, head) /\ Len(file) = 0
      /\ \A id \in 1 .. MaxSeq : docs[id] # Wal!Bad => id <= Len(file)
  BY <1>1, <1>2, Writing
<1>5. /\ Chained(file \o frames, docs) /\ Selected(file \o frames, head)
      /\ Recorded(docs, file \o frames) /\ Len(file \o frames) = 1
      /\ \A id \in 1 .. MaxSeq : docs[id] # Wal!Bad => id <= Len(file \o frames)
  <2>1. Follows(f, Len(file) + 1, file, docs)
    BY <1>3, <1>4 DEF Follows
  <2>2. Chained(file \o <<f>>, docs)
    BY <1>2, <1>3, <1>4, <2>1, ExtendedChained
  <2>3. Selected(file \o <<f>>, head)
    BY <1>2, <1>3, <1>4, SelectedNext
  <2>4. Recorded(docs, file)
    BY <1>2 DEF LogInv, Documents
  <2>5. /\ Recorded(docs, file \o <<f>>)
        /\ \A id \in 1 .. MaxSeq : docs[id] # Wal!Bad => id <= Len(file \o <<f>>)
    BY <1>2, <1>3, <1>4, <2>4, RecordedNext
  <2>6. Len(file \o <<f>>) = Len(file) + 1
    BY <1>2, <1>3, Extended
  <2> QED BY <1>4, <2>2, <2>3, <2>5, <2>6
<1>6. frames \in Seq(FrameSet) /\ frames # <<>> /\ \A i \in 1 .. Len(frames) : frames[i].part = "whole"
  BY <1>3
<1>7. docs \in [0 .. MaxSeq -> Seq(Int)] /\ docs[0] = Base /\ (mode # "direct" => InPlace(docs))
      /\ reserved \in Nat
  BY DEF LogInv, LogTypes, Documents
<1>8. to \in {"based", "idle", "written"} /\ (mode # "direct" => to = "based") /\ to # "written"
  OBVIOUS
<1> HIDE DEF frames, to
<1> QED BY <1>1, <1>2, <1>5, <1>6, <1>7, <1>8, WriteSafe

\* f is the frame of an edit that makes a document of another, n bytes for those of new.
NodeOf(f, id, parent, edit) ==
  /\ f \in FrameSet /\ f.type = "NODE" /\ f.part = "whole" /\ f.seq = id
  /\ f.parent = parent /\ f.edit = edit
Edited(text, old, edit, n, new) ==
  /\ edit.offset + Len(edit.old) <= Len(old)
  /\ text = Wal!Apply(old, edit) /\ text \in Seq(Nat)
  /\ Len(text) = Len(old) - Len(edit.old) + Len(edit.new)
  /\ Len(text) = Len(old) - n + Len(new)

\* The frame of an edit, and the document it makes.
LEMMA NodeMade ==
  ASSUME LogInv, log_pc # "down", seq + 1 \in 1 .. MaxSeq,
         NEW parent \in 0 .. seq, docs[parent] # Wal!Bad,
         NEW offset \in Nat, NEW n \in Nat, offset + n <= Len(docs[parent]),
         NEW new \in Seq(Nat),
         NEW edit, edit = Wal!EditOf(docs[parent], offset, n, new),
         NEW f, f = Wal!NodeFrame(seq + 1, parent, edit)
  PROVE  /\ NodeOf(f, seq + 1, parent, edit)
         /\ Edited(Wal!Apply(docs[parent], edit), docs[parent], edit, n, new)
         /\ parent \in Revisions(Frames, Len(Frames))
<1> DEFINE id == seq + 1
<1>1. seq = Len(Frames) /\ Len(Frames) \in Nat /\ MaxSeq \in Nat
  BY Writing, StoreAssumption
<1>2. seq <= MaxSeq /\ id \in Nat
  BY <1>1
<1>3. parent \in Revisions(Frames, Len(Frames)) /\ parent \in Nat
  BY <1>2, DocumentIsRevision
<1>4. docs[parent] \in Seq(Nat)
  BY <1>3, RevisionDocs
<1>5. /\ edit \in Edits /\ edit.offset = offset /\ Len(edit.old) = n /\ edit.new = new
      /\ Wal!Apply(docs[parent], edit) \in Seq(Nat)
      /\ Len(Wal!Apply(docs[parent], edit)) = Len(docs[parent]) - n + Len(new)
  <2> DEFINE doc == docs[parent]
  <2>1. doc \in Seq(Nat) /\ offset + n <= Len(doc)
    BY <1>4
  <2> HIDE DEF doc
  <2>2. LET e == Wal!EditOf(doc, offset, n, new)
        IN /\ e \in Edits /\ e.offset = offset /\ Len(e.old) = n /\ e.new = new
           /\ Wal!Apply(doc, e) \in Seq(Nat)
           /\ Len(Wal!Apply(doc, e)) = Len(doc) - n + Len(new)
    BY <2>1, EditApplies
  <2> QED BY <2>2 DEF doc
<1>6. /\ f \in FrameSet /\ f.type = "NODE" /\ f.seq = id /\ f.parent = parent /\ f.edit = edit
      /\ f.part = "whole"
  <2>1. id \in Nat /\ parent \in Nat /\ edit \in Edits
    BY <1>2, <1>3, <1>5
  <2> QED BY <2>1, FramesAre
<1> QED BY <1>3, <1>5, <1>6 DEF NodeOf, Edited

\* One node more, and its document.
LEMMA NodeNext ==
  ASSUME LogInv, log_pc \notin {"create", "down"}, NEW id, id = seq + 1, id \in 1 .. MaxSeq,
         NEW f \in FrameSet, f.type = "NODE", f.seq = id,
         f.parent \in Revisions(Frames, Len(Frames)),
         f.edit.offset + Len(f.edit.old) <= Len(docs[f.parent]),
         NEW d, \A i \in 0 .. MaxSeq : i # id => d[i] = docs[i],
         d[id] = Wal!Apply(docs[f.parent], f.edit), d[id] \in Seq(Nat),
         Len(d[id]) = Len(docs[f.parent]) - Len(f.edit.old) + Len(f.edit.new)
  PROVE  /\ Frames \o <<f>> \in Seq(FrameSet) /\ Len(Frames \o <<f>>) = id /\ d[0] = Base
         /\ Chained(Frames \o <<f>>, d) /\ Recorded(d, Frames \o <<f>>)
         /\ \A i \in 1 .. MaxSeq : d[i] # Wal!Bad => i <= id
         /\ Selected(Frames \o <<f>>, head)
<1> DEFINE s == Frames
<1>1. /\ s \in Seq(FrameSet) /\ Len(s) \in Nat /\ Chained(s, docs) /\ Selected(s, head)
      /\ Len(s) > 0 /\ id = Len(s) + 1 /\ MaxSeq \in Nat
      /\ \A i \in 1 .. MaxSeq : docs[i] # Wal!Bad => i <= Len(s)
  BY Writing, StoreAssumption
<1>2. docs \in [0 .. MaxSeq -> Seq(Int)] /\ docs[0] = Base /\ Recorded(docs, s)
  BY DEF LogInv, LogTypes, Documents
<1> HIDE DEF s
<1>3. d[0] = Base
  BY <1>1, <1>2
<1>4. \A i \in Revisions(s, Len(s)) : d[i] = docs[i]
  <2>1. \A i \in Revisions(s, Len(s)) : i \in 0 .. MaxSeq /\ i # id
    BY <1>1 DEF Revisions
  <2> QED BY <2>1
<1>5. f.parent \in Revisions(s, Len(s))
  BY DEF s
<1>6. Derived(d, id, f.parent, f.edit)
  <2>1. d[f.parent] = docs[f.parent]
    BY <1>4, <1>5
  <2> QED BY <2>1 DEF Derived
<1>7. Follows(f, Len(s) + 1, s, d)
  <2>1. id # 1 /\ id - 1 = Len(s) /\ f.type # "BASE" /\ f.type # "HEAD"
    BY <1>1
  <2>2. Follows(f, id, s, d)
    BY <1>5, <1>6, <2>1 DEF Follows
  <2> QED BY <1>1, <2>2
<1>8. Chained(s \o <<f>>, d)
  BY <1>1, <1>4, <1>7, ExtendedChained
<1>9. Selected(s \o <<f>>, head)
  <2>1. f.type # "HEAD"
    OBVIOUS
  <2> QED BY <1>1, <2>1, SelectedNext, Zenon
<1>10. Recorded(d, s \o <<f>>) /\ \A i \in 1 .. MaxSeq : d[i] # Wal!Bad => i <= Len(s \o <<f>>)
  <2>1. \A i \in 1 .. MaxSeq : i # Len(s) + 1 => d[i] = docs[i]
    BY <1>1
  <2> QED BY <1>1, <1>2, <2>1, RecordedNext, Zenon
<1>11. s \o <<f>> \in Seq(FrameSet) /\ Len(s \o <<f>>) = id
  BY <1>1, Extended
<1> QED BY <1>3, <1>8, <1>9, <1>10, <1>11 DEF s

\* recover_check derives a revision and writes it at once.
LEMMA EditSafe ==
  ASSUME LogInv, NEW parent \in 0 .. seq, NEW offset \in Nat, NEW n \in Nat, NEW new \in Seq(Nat),
         Wal!Edit(parent, offset, n, new)
  PROVE  LogInv'
<1> DEFINE id == seq + 1
           edit == Wal!EditOf(docs[parent], offset, n, new)
           text == Wal!Apply(docs[parent], edit)
           f == Wal!NodeFrame(id, parent, edit)
           frames == <<f>>
<1>1. /\ mode = "direct" /\ log_pc = "idle" /\ seq < MaxDirect
      /\ docs[parent] # Wal!Bad /\ offset + n <= Len(docs[parent])
      /\ Wal!WriteAll(frames, "idle") /\ seq' = id
      /\ docs' = [docs EXCEPT ![id] = text]
      /\ UNCHANGED <<mode, exists, synced, dir_synced, reserved, staging, head, ack, ack_seq>>
  BY DEF Wal!Edit, Wal!acks
<1>2. staging = <<>> /\ Frames = file /\ file \in Seq(FrameSet) /\ reserved \in Nat
  BY <1>1, NothingStaged DEF LogInv, Staged, LogTypes
<1>3. id \in 1 .. MaxSeq
  BY <1>1, Writing, StoreAssumption
<1>4. /\ f \in FrameSet /\ f.type = "NODE" /\ f.part = "whole" /\ f.seq = id
      /\ f.parent = parent /\ f.edit = edit
      /\ edit.offset + Len(edit.old) <= Len(docs[parent])
      /\ text \in Seq(Nat) /\ Len(text) = Len(docs[parent]) - Len(edit.old) + Len(edit.new)
      /\ parent \in Revisions(Frames, Len(Frames))
  <2>1. log_pc # "down" /\ docs[parent] # Wal!Bad /\ offset + n <= Len(docs[parent])
    BY <1>1
  <2>2. seq \in Nat
    BY <1>1, Writing
  <2>3. /\ edit = Wal!EditOf(docs[parent], offset, n, new) /\ f = Wal!NodeFrame(id, parent, edit)
        /\ id = seq + 1
    OBVIOUS
  <2> DEFINE made == Wal!Apply(docs[parent], edit)
  <2> HIDE DEF edit, f, id, text, made
  <2>4. NodeOf(f, id, parent, edit) /\ Edited(made, docs[parent], edit, n, new)
        /\ parent \in Revisions(Frames, Len(Frames))
    BY <1>3, <2>1, <2>2, <2>3, NodeMade DEF made
  <2>5. made = text
    BY DEF made, text
  <2> QED BY <2>4, <2>5 DEF NodeOf, Edited
<1>5. frames = <<f>> /\ docs' = [docs EXCEPT ![id] = text] /\ id = seq + 1
  BY <1>1
<1> HIDE DEF text, f, edit, id, frames
<1>6. /\ docs' \in [0 .. MaxSeq -> Seq(Int)] /\ docs'[id] = text
      /\ \A i \in 0 .. MaxSeq : i # id => docs'[i] = docs[i]
  <2>1. docs \in [0 .. MaxSeq -> Seq(Int)]
    BY DEF LogInv, LogTypes
  <2>2. text \in Seq(Int) /\ id \in 0 .. MaxSeq
    BY <1>3, <1>4, StoreAssumption
  <2> QED BY <1>5, <2>1, <2>2
<1>7. /\ Frames \o <<f>> \in Seq(FrameSet) /\ Len(Frames \o <<f>>) = id /\ docs'[0] = Base
      /\ Chained(Frames \o <<f>>, docs') /\ Recorded(docs', Frames \o <<f>>)
      /\ \A i \in 1 .. MaxSeq : docs'[i] # Wal!Bad => i <= id
      /\ Selected(Frames \o <<f>>, head)
  <2>1. log_pc \notin {"create", "down"} /\ id = seq + 1
    BY <1>1, <1>5
  <2>2. docs'[id] = Wal!Apply(docs[f.parent], f.edit)
    BY <1>4, <1>6 DEF text
  <2> HIDE DEF text
  <2>3. /\ docs'[id] \in Seq(Nat)
        /\ Len(docs'[id]) = Len(docs[f.parent]) - Len(f.edit.old) + Len(f.edit.new)
        /\ f.edit.offset + Len(f.edit.old) <= Len(docs[f.parent])
        /\ f.parent \in Revisions(Frames, Len(Frames))
    BY <1>4, <1>6
  <2>4. f \in FrameSet /\ f.type = "NODE" /\ f.seq = id
    BY <1>4
  <2>5. \A i \in 0 .. MaxSeq : i # id => docs'[i] = docs[i]
    BY <1>6
  <2> QED BY <1>3, <2>1, <2>2, <2>3, <2>4, <2>5, NodeNext
<1>8. frames \in Seq(FrameSet) /\ frames # <<>> /\ \A i \in 1 .. Len(frames) : frames[i].part = "whole"
  BY <1>4, <1>5
<1>9. /\ Chained(file \o frames, docs') /\ Recorded(docs', file \o frames)
      /\ Len(file \o frames) = id /\ Selected(file \o frames, head')
  BY <1>1, <1>2, <1>5, <1>7
<1> QED BY <1>1, <1>2, <1>5, <1>6, <1>7, <1>8, <1>9, WriteSafe

\* select_durable writes its HEAD frame.
LEMMA SelectSafe == ASSUME LogInv, NEW id \in 0 .. seq, Wal!Select(id) PROVE LogInv'
<1> DEFINE f == Wal!HeadFrame(seq + 1, id)
<1>1. /\ mode = "direct" /\ log_pc = "idle" /\ seq < MaxDirect /\ docs[id] # Wal!Bad
      /\ Wal!WriteAll(<<f>>, "written") /\ seq' = seq + 1 /\ head' = id
      /\ UNCHANGED <<mode, exists, synced, dir_synced, reserved, staging, ack, ack_seq, docs>>
  BY DEF Wal!Select, Wal!acks
<1>2. staging = <<>> /\ Frames = file /\ file \in Seq(FrameSet) /\ reserved \in Nat
  BY <1>1, NothingStaged DEF LogInv, Staged, LogTypes
<1>3. /\ seq = Len(file) /\ Len(file) \in Nat /\ Len(file) > 0 /\ Chained(file, docs)
      /\ \A i \in 1 .. MaxSeq : docs[i] # Wal!Bad => i <= Len(file)
  BY <1>1, <1>2, Writing
<1>4. id \in Revisions(file, Len(file)) /\ id \in Nat
  <2>1. seq <= MaxSeq
    BY <1>1, <1>3, StoreAssumption
  <2> QED BY <1>1, <1>2, <2>1, DocumentIsRevision
<1>5. /\ f \in FrameSet /\ f.type = "HEAD" /\ f.seq = seq + 1 /\ f.parent = 0
      /\ f.edit.offset = id /\ f.part = "whole"
  BY <1>3, <1>4, FramesAre
<1>6. /\ docs \in [0 .. MaxSeq -> Seq(Int)] /\ docs[0] = Base /\ Recorded(docs, file)
  BY <1>2 DEF LogInv, LogTypes, Documents
<1> HIDE DEF f
<1>7. Follows(f, Len(file) + 1, file, docs)
  <2>1. Len(file) + 1 # 1 /\ (Len(file) + 1) - 1 = Len(file)
    BY <1>3
  <2> QED BY <1>3, <1>4, <1>5, <2>1 DEF Follows
<1>8. Chained(file \o <<f>>, docs)
  BY <1>2, <1>3, <1>5, <1>7, ExtendedChained
<1>9. Selected(file \o <<f>>, id)
  BY <1>2, <1>5, SelectedNext
<1>10. /\ Recorded(docs, file \o <<f>>)
       /\ \A i \in 1 .. MaxSeq : docs[i] # Wal!Bad => i <= Len(file \o <<f>>)
  BY <1>2, <1>3, <1>5, <1>6, RecordedNext
<1>11. /\ Len(file \o <<f>>) = seq + 1
       /\ \E i \in DOMAIN (file \o <<f>>) : (file \o <<f>>)[i].type = "HEAD"
  BY <1>2, <1>3, <1>5, Extended
<1> DEFINE frames == <<f>>
<1>12. frames \in Seq(FrameSet) /\ frames # <<>> /\ \A i \in 1 .. Len(frames) : frames[i].part = "whole"
  BY <1>5
<1>13. /\ Wal!WriteAll(frames, "written") /\ Chained(file \o frames, docs')
       /\ Recorded(docs', file \o frames) /\ Len(file \o frames) = seq'
       /\ Selected(file \o frames, head') /\ docs' = docs
       /\ \A i \in 1 .. MaxSeq : docs'[i] # Wal!Bad => i <= Len(file \o frames)
       /\ \E i \in DOMAIN (file \o frames) : (file \o frames)[i].type = "HEAD"
  BY <1>1, <1>8, <1>9, <1>10, <1>11
<1> HIDE DEF frames
<1> QED BY <1>1, <1>2, <1>6, <1>12, <1>13, WriteSafe

\* A pair appended to two sequences is appended one by one.
LEMMA Regroup ==
  ASSUME NEW S, NEW a \in Seq(S), NEW b \in Seq(S), NEW f \in S, NEW g \in S
  PROVE  a \o (b \o <<f, g>>) = ((a \o b) \o <<f>>) \o <<g>>
<1> DEFINE c == <<f>>
           e == <<g>>
           ab == a \o b
           ce == c \o e
<1>1. c \in Seq(S) /\ e \in Seq(S)
  OBVIOUS
<1>2. ce = <<f, g>>
  <2>1. /\ ce \in Seq(S) /\ Len(ce) = 2
        /\ \A i \in 1 .. 2 : ce[i] = IF i <= 1 THEN c[i] ELSE e[i - 1]
    <3>1. Len(c) = 1 /\ Len(e) = 1
      OBVIOUS
    <3> HIDE DEF c, e
    <3>2. /\ c \o e \in Seq(S) /\ Len(c \o e) = Len(c) + Len(e)
          /\ \A i \in 1 .. Len(c) + Len(e) :
               (c \o e)[i] = IF i <= Len(c) THEN c[i] ELSE e[i - Len(c)]
      BY <1>1, ConcatProperties
    <3> HIDE DEF ce
    <3>3. ce = c \o e
      BY DEF ce
    <3> QED BY <3>1, <3>2, <3>3
  <2>2. c[1] = f /\ e[1] = g
    OBVIOUS
  <2> HIDE DEF c, e, ce
  <2>3. ce[1] = f /\ ce[2] = g
    BY <2>1, <2>2
  <2>4. <<f, g>> \in Seq(S) /\ Len(<<f, g>>) = 2 /\ <<f, g>>[1] = f /\ <<f, g>>[2] = g
    OBVIOUS
  <2> DEFINE p == <<f, g>>
  <2> HIDE DEF p
  <2>5. p \in Seq(S) /\ Len(p) = 2 /\ p[1] = f /\ p[2] = g
    BY <2>4 DEF p
  <2>6. ce = p
    BY <2>1, <2>3, <2>5, SeqEqual
  <2> QED BY <2>6 DEF p
<1> HIDE DEF c, e
<1>3. ab \in Seq(S) /\ ce \in Seq(S)
  BY <1>1, ConcatProperties
<1> HIDE DEF ce
<1>a. \A s, t, u \in Seq(S) : (s \o t) \o u = s \o (t \o u)
  BY ConcatAssociative
<1>4. ab \o ce = a \o (b \o ce)
  BY <1>3, <1>a, Zenon
<1> HIDE DEF ab
<1>5. (ab \o c) \o e = ab \o (c \o e)
  BY <1>1, <1>3, <1>a, Zenon
<1>6. a \o (b \o ce) = (ab \o c) \o e
  BY <1>4, <1>5 DEF ce
<1> QED BY <1>2, <1>6 DEF ab, c, e

\* A sequence with two more elements.
LEMMA Pair ==
  ASSUME NEW S, NEW a \in Seq(S), NEW f \in S, NEW g \in S
  PROVE  /\ a \o <<f, g>> \in Seq(S) /\ Len(a \o <<f, g>>) = Len(a) + 2 /\ Len(a) \in Nat
         /\ \A i \in 1 .. Len(a) : (a \o <<f, g>>)[i] = a[i]
         /\ (a \o <<f, g>>)[Len(a) + 1] = f /\ (a \o <<f, g>>)[Len(a) + 2] = g
         /\ DOMAIN (a \o <<f, g>>) = 1 .. Len(a) + 2 /\ DOMAIN a = 1 .. Len(a)
<1> DEFINE e == <<f, g>>
<1>1. e \in Seq(S) /\ Len(e) = 2 /\ e[1] = f /\ e[2] = g
  OBVIOUS
<1> HIDE DEF e
<1> DEFINE t == a \o e
<1>2. /\ t \in Seq(S) /\ Len(t) = Len(a) + 2 /\ Len(a) \in Nat
      /\ \A i \in 1 .. Len(a) : t[i] = a[i]
      /\ \A i \in 1 .. 2 : t[Len(a) + i] = e[i]
      /\ DOMAIN t = 1 .. Len(a) + 2 /\ DOMAIN a = 1 .. Len(a)
  <2>1. e \in Seq(S)
    BY <1>1
  <2>2. /\ t \in Seq(S) /\ Len(t) = Len(a) + Len(e) /\ Len(a) \in Nat
        /\ \A i \in 1 .. Len(a) : t[i] = a[i]
        /\ \A i \in 1 .. Len(e) : t[Len(a) + i] = e[i]
        /\ DOMAIN t = 1 .. Len(a) + Len(e) /\ DOMAIN a = 1 .. Len(a)
    BY <2>1, Joined
  <2> HIDE DEF t
  <2> QED BY <1>1, <2>2
<1> HIDE DEF t
<1>3. t[Len(a) + 1] = f /\ t[Len(a) + 2] = g
  BY <1>1, <1>2
<1> QED BY <1>2, <1>3 DEF t, e

\* Edits in place leave the size of the document.
LEMMA StageSafe == ASSUME LogInv, NEW offset \in 0 .. Len(Base) - 1, Wal!Stage(offset) PROVE LogInv'
<1> DEFINE id == seq + 1
           new == Wal!Fresh(id)
           edit == Wal!EditOf(docs[head], offset, 1, new)
           text == Wal!Apply(docs[head], edit)
           f == Wal!NodeFrame(id, head, edit)
           g == Wal!HeadFrame(id + 1, id)
           s == Frames
           t == s \o <<f>>
           u == t \o <<g>>
<1>1. /\ mode # "direct" /\ log_pc = "idle" /\ seq + 3 <= MaxSeq
      /\ staging' = staging \o <<f, g>> /\ seq' = id + 1 /\ head' = id
      /\ docs' = [docs EXCEPT ![id] = text]
      /\ UNCHANGED <<mode, file, exists, synced, dir_synced, reserved, log_pc, ack, ack_seq>>
  BY DEF Wal!Stage, Wal!media, Wal!acks
<1>2. /\ s \in Seq(FrameSet) /\ Len(s) \in Nat /\ seq = Len(s) /\ Len(s) > 0
      /\ head \in Revisions(s, Len(s)) /\ Selected(s, head) /\ MaxSeq \in Nat
      /\ \A i \in 1 .. MaxSeq : docs[i] # Wal!Bad => i <= Len(s)
  BY <1>1, Writing, StoreAssumption
<1>3. id \in 1 .. MaxSeq /\ head \in 0 .. seq /\ id \in Nat /\ id + 1 \in Nat /\ seq \in Nat
  <2>1. seq \in Nat /\ seq + 3 <= MaxSeq /\ MaxSeq \in Nat
    BY <1>1, <1>2
  <2>2. head \in Revisions(s, seq)
    BY <1>2
  <2> HIDE DEF s
  <2>3. head \in 0 .. seq
    BY <2>1, <2>2 DEF Revisions
  <2> QED BY <2>1, <2>3
<1>4. docs[head] \in Seq(Nat) /\ docs[head] # Wal!Bad /\ head \in 0 .. MaxSeq
  BY <1>2, RevisionDocs
<1>5. Len(docs[head]) = Len(Base) /\ InPlace(docs)
  BY <1>1, <1>4 DEF LogInv, Documents, InPlace
<1>6. new \in Seq(Nat) /\ Len(new) = 1 /\ offset \in Nat /\ offset + 1 <= Len(docs[head])
  <2>1. Len(Base) \in Nat
    BY StoreAssumption
  <2> QED BY <1>3, <1>5, <2>1, FreshIs
<1>7. NodeOf(f, id, head, edit) /\ Edited(text, docs[head], edit, 1, new)
  <2>1. /\ edit = Wal!EditOf(docs[head], offset, 1, new) /\ f = Wal!NodeFrame(seq + 1, head, edit)
        /\ id = seq + 1 /\ log_pc # "down" /\ 1 \in Nat
    BY <1>1
  <2> DEFINE made == Wal!Apply(docs[head], edit)
  <2> HIDE DEF edit, f, id, text, made, new
  <2>2. NodeOf(f, id, head, edit) /\ Edited(made, docs[head], edit, 1, new)
    BY <1>3, <1>4, <1>6, <2>1, NodeMade DEF made
  <2>3. made = text
    BY DEF made, text
  <2> QED BY <2>2, <2>3
<1>8. /\ g \in FrameSet /\ g.type = "HEAD" /\ g.seq = id + 1 /\ g.parent = 0
      /\ g.edit.offset = id /\ g.part = "whole"
  <2> HIDE DEF id
  <2> QED BY <1>3, FramesAre
<1> HIDE DEF f, g, edit, new, text
<1>a. /\ f \in FrameSet /\ f.type = "NODE" /\ f.part = "whole" /\ f.seq = id
      /\ f.parent = head /\ f.edit = edit
  BY <1>7 DEF NodeOf
<1>9. /\ docs' \in [0 .. MaxSeq -> Seq(Int)] /\ docs'[id] = text /\ docs[0] = Base
      /\ \A i \in 0 .. MaxSeq : i # id => docs'[i] = docs[i]
  <2>1. docs \in [0 .. MaxSeq -> Seq(Int)] /\ docs[0] = Base
    BY DEF LogInv, LogTypes, Documents
  <2>2. text \in Seq(Int) /\ id \in 0 .. MaxSeq
    BY <1>2, <1>3, <1>7 DEF Edited
  <2> QED BY <1>1, <2>1, <2>2
<1>10. /\ t \in Seq(FrameSet) /\ Len(t) = id /\ docs'[0] = Base
       /\ Chained(t, docs') /\ Recorded(docs', t) /\ Selected(t, head)
       /\ \A i \in 1 .. MaxSeq : docs'[i] # Wal!Bad => i <= id
  <2>1. log_pc \notin {"create", "down"} /\ id = seq + 1
    BY <1>1
  <2>2. /\ docs'[id] = Wal!Apply(docs[f.parent], f.edit) /\ docs'[id] \in Seq(Nat)
        /\ Len(docs'[id]) = Len(docs[f.parent]) - Len(f.edit.old) + Len(f.edit.new)
        /\ f.edit.offset + Len(f.edit.old) <= Len(docs[f.parent])
    BY <1>7, <1>a, <1>9 DEF Edited
  <2>3. f.parent \in Revisions(Frames, Len(Frames))
    BY <1>2, <1>a
  <2>4. \A i \in 0 .. MaxSeq : i # id => docs'[i] = docs[i]
    BY <1>9
  <2>5. f \in FrameSet /\ f.type = "NODE" /\ f.seq = id
    BY <1>a
  <2>6. t = Frames \o <<f>> /\ id \in 1 .. MaxSeq
    BY <1>3 DEF s
  <2> HIDE DEF id, s, t
  <2> DEFINE d == docs'
  <2>7. /\ d[id] = Wal!Apply(docs[f.parent], f.edit) /\ d[id] \in Seq(Nat)
        /\ Len(d[id]) = Len(docs[f.parent]) - Len(f.edit.old) + Len(f.edit.new)
        /\ \A i \in 0 .. MaxSeq : i # id => d[i] = docs[i]
    BY <2>2, <2>4
  <2> HIDE DEF d
  <2>8. /\ Frames \o <<f>> \in Seq(FrameSet) /\ Len(Frames \o <<f>>) = id /\ d[0] = Base
        /\ Chained(Frames \o <<f>>, d) /\ Recorded(d, Frames \o <<f>>)
        /\ \A i \in 1 .. MaxSeq : d[i] # Wal!Bad => i <= id
        /\ Selected(Frames \o <<f>>, head)
    BY <2>1, <2>2, <2>3, <2>5, <2>6, <2>7, NodeNext
  <2> QED BY <2>6, <2>8 DEF d
<1> HIDE DEF id
<1>11. /\ Len(s) + 1 = id /\ t[id] = f /\ DOMAIN t = 1 .. id
  <2>1. t[Len(s) + 1] = f /\ DOMAIN t = 1 .. Len(s) + 1 /\ Len(s) + 1 = id
    BY <1>2, <1>a, Extended DEF id
  <2> QED BY <2>1
<1> HIDE DEF s, t
<1>12. Follows(g, Len(t) + 1, t, docs')
  <2>1. id + 1 # 1 /\ (id + 1) - 1 = id
    BY <1>2, <1>3, <1>11
  <2>2. id \in Revisions(t, id)
    BY <1>2, <1>3, <1>11, <1>a DEF Revisions
  <2>3. Follows(g, id + 1, t, docs')
    BY <1>8, <2>1, <2>2 DEF Follows
  <2> QED BY <1>10, <2>3
<1>13. /\ Chained(u, docs') /\ u \in Seq(FrameSet) /\ Len(u) = id + 1
  <2>1. \A i \in Revisions(t, Len(t)) : docs'[i] = docs'[i]
    OBVIOUS
  <2>2. Chained(t \o <<g>>, docs')
    BY <1>8, <1>10, <1>12, <2>1, ExtendedChained
  <2>3. t \o <<g>> \in Seq(FrameSet) /\ Len(t \o <<g>>) = Len(t) + 1
    BY <1>8, <1>10, Extended
  <2> QED BY <1>10, <2>2, <2>3
<1>14. Selected(u, id)
  <2>1. Selected(t \o <<g>>, g.edit.offset)
    BY <1>8, <1>10, SelectedNext
  <2> QED BY <1>8, <2>1
<1>15. Recorded(docs', u) /\ \A i \in 1 .. MaxSeq : docs'[i] # Wal!Bad => i <= Len(u)
  <2>1. \A i \in 1 .. MaxSeq : docs'[i] # Wal!Bad => i <= Len(t)
    BY <1>10
  <2>2. /\ Recorded(docs', t \o <<g>>)
        /\ \A i \in 1 .. MaxSeq : docs'[i] # Wal!Bad => i <= Len(t \o <<g>>)
    BY <1>8, <1>10, <2>1, RecordedNext
  <2> QED BY <2>2
<1>16. staging \in Seq(FrameSet) /\ file \in Seq(FrameSet)
  BY DEF LogInv, LogTypes
<1>17. Frames' = u
  <2>1. Frames' = file \o (staging \o <<f, g>>)
    BY <1>1 DEF Frames
  <2>2. u = ((file \o staging) \o <<f>>) \o <<g>>
    BY DEF t, s, Frames
  <2>3. file \o (staging \o <<f, g>>) = ((file \o staging) \o <<f>>) \o <<g>>
    BY <1>8, <1>16, <1>a, Regroup
  <2> QED BY <2>1, <2>2, <2>3
<1> HIDE DEF u
<1>18. /\ staging' \in Seq(FrameSet) /\ Len(staging') = Len(staging) + 2 /\ Len(staging) \in Nat
       /\ \A i \in 1 .. Len(staging) : staging'[i] = staging[i]
       /\ staging'[Len(staging) + 1] = f /\ staging'[Len(staging) + 2] = g
       /\ DOMAIN staging' = 1 .. Len(staging) + 2 /\ DOMAIN staging = 1 .. Len(staging)
  <2>1. staging' = staging \o <<f, g>> /\ f \in FrameSet /\ g \in FrameSet
    BY <1>1, <1>8, <1>a
  <2> QED BY <1>16, <2>1, Pair
<1>19. LogTypes'
  BY <1>1, <1>9, <1>18 DEF LogInv, LogTypes
<1>20. Staged'
  <2>1. ASSUME NEW i \in 1 .. Len(staging) + 2
        PROVE  staging'[i].type \in {"NODE", "HEAD"} /\ staging'[i].part = "whole"
    <3>1. CASE i \in 1 .. Len(staging)
      <4>1. staging'[i] = staging[i] /\ i \in DOMAIN staging
        BY <1>18, <3>1
      <4> QED BY <4>1 DEF LogInv, Staged
    <3>2. CASE i = Len(staging) + 1
      BY <1>a, <1>18, <3>2
    <3>3. CASE i = Len(staging) + 2
      BY <1>8, <1>18, <3>3
    <3>4. i \in 1 .. Len(staging) \/ i = Len(staging) + 1 \/ i = Len(staging) + 2
      BY <1>18
    <3> QED BY <3>1, <3>2, <3>3, <3>4, Zenon
  <2>2. \E i \in DOMAIN staging' : staging'[i].type = "HEAD"
    BY <1>8, <1>18
  <2> QED BY <1>1, <1>18, <2>1, <2>2 DEF Staged
<1>21. Chained(Frames, docs)'
  BY <1>13, <1>17 DEF Chained, Follows, Derived, Revisions
<1>22. Position'
  <2>1. seq' = Len(u) /\ Selected(u, head')
    BY <1>1, <1>13, <1>14
  <2>2. /\ \A i \in DOMAIN file : file[i].part = "whole"
        /\ Len(file) > 0
    BY <1>1 DEF LogInv, Position
  <2> QED BY <1>1, <1>15, <1>17, <2>1, <2>2 DEF Position, Selected
<1>23. Documents'
  <2>1. InPlace(docs')
    <3>1. Len(text) = Len(Base)
      <4>1. Len(text) = Len(docs[head]) - 1 + Len(new)
        BY <1>7 DEF Edited
      <4>2. Len(Base) \in Nat
        BY StoreAssumption
      <4> QED BY <1>5, <1>6, <4>1, <4>2
    <3> QED BY <1>5, <1>9, <3>1 DEF InPlace
  <2> QED BY <1>10, <1>15, <1>17, <2>1 DEF Documents, Recorded, InPlace
<1>24. Media' /\ Acknowledged'
  BY <1>1 DEF LogInv, Media, Acknowledged
<1> QED BY <1>19, <1>20, <1>21, <1>22, <1>23, <1>24 DEF LogInv

\* The frame that pads a file to a page.
LEMMA PadIs ==
  ASSUME NEW n \in Nat, NEW end \in Nat, NEW f, f = Wal!PadFrame(n, end)
  PROVE  /\ f \in FrameSet /\ f.type = "PAD" /\ f.part = "whole" /\ f.seq = n /\ f.parent = 0
         /\ f.bytes = Wal!Sealed(end)
<1>1. Wal!Sealed(end) \in Nat /\ HDR \in Nat
  BY SealedIs, StoreAssumption
<1>2. Wal!NoEdit \in Edits
  BY EmptyEdit
<1>3. HDR + (Wal!Sealed(end) - HDR) = Wal!Sealed(end)
  BY <1>1
<1>4. f = [type |-> "PAD", seq |-> n, parent |-> 0, edit |-> Wal!NoEdit,
           bytes |-> Wal!Sealed(end), part |-> "whole"]
  BY <1>3 DEF Wal!PadFrame, Wal!Frame
<1> QED BY <1>1, <1>2, <1>4 DEF FrameSet

\* Padding fits a page.
Padded(s) == \A i \in 1 .. Len(s) : s[i].type = "PAD" => s[i].bytes - HDR \in 0 .. Page

\* What bench writes when it seals a group: the frames it staged and, aligned, one that
\* pads the file to a page.
Group(frames, pads) ==
  /\ frames \in Seq(FrameSet) /\ frames # <<>>
  /\ \A i \in 1 .. Len(frames) : frames[i].part = "whole"
  /\ Chained(file \o frames, docs) /\ Recorded(docs, file \o frames)
  /\ \A i \in 1 .. MaxSeq : docs[i] # Wal!Bad => i <= Len(file \o frames)
  /\ seq + Len(pads) = Len(file \o frames) /\ Selected(file \o frames, head)
  /\ \E i \in DOMAIN (file \o frames) : (file \o frames)[i].type = "HEAD"
  /\ Padded(frames)
  /\ mode = "aligned" => Wal!FileBytes(file \o frames) % Page = 0

\* Sizes are numbers.
LEMMA BytesAreNat == ASSUME NEW s \in Seq(FrameSet) PROVE Wal!FileBytes(s) \in Nat
<1>1. Len(s) <= Len(s) /\ \A i \in 1 .. Len(s) : s[i].bytes = s[i].bytes
  OBVIOUS
<1> QED BY <1>1, BytesOfFront

\* A staged group selects a revision.
LEMMA StagedHead ==
  ASSUME LogInv, staging # <<>>
  PROVE  \E i \in 1 .. Len(Frames) : Frames[i].type = "HEAD"
<1>1. /\ Len(file) \in Nat /\ Len(staging) \in Nat /\ Len(Frames) = Len(file) + Len(staging)
      /\ \A i \in 1 .. Len(staging) : Frames[Len(file) + i] = staging[i]
      /\ DOMAIN staging = 1 .. Len(staging)
  BY Joined DEF LogInv, LogTypes, Frames
<1>2. PICK i \in DOMAIN staging : staging[i].type = "HEAD"
  BY DEF LogInv, Staged
<1>3. Len(file) + i \in 1 .. Len(Frames) /\ Frames[Len(file) + i].type = "HEAD"
  BY <1>1, <1>2
<1> QED BY <1>3

\* The frames of a sealed group continue the file.
LEMMA GroupMade ==
  ASSUME LogInv, log_pc = "idle", staging # <<>>,
         NEW pads, pads = IF mode = "aligned"
                          THEN <<Wal!PadFrame(seq + 1, Wal!FileBytes(Frames))>> ELSE <<>>
  PROVE  Group(staging \o pads, pads)
<1>1. /\ Frames \in Seq(FrameSet) /\ Len(Frames) \in Nat /\ DOMAIN Frames = 1 .. Len(Frames)
      /\ Chained(Frames, docs) /\ Selected(Frames, head) /\ seq = Len(Frames)
      /\ \A id \in 1 .. MaxSeq : docs[id] # Wal!Bad => id <= Len(Frames)
      /\ Len(Frames) > 0
  BY Writing
<1>2. /\ file \in Seq(FrameSet) /\ staging \in Seq(FrameSet) /\ Recorded(docs, Frames)
      /\ \A i \in DOMAIN staging : staging[i].part = "whole"
  BY DEF LogInv, LogTypes, Documents, Staged
<1>3. \E i \in 1 .. Len(Frames) : Frames[i].type = "HEAD"
  BY StagedHead
<1>4. CASE mode # "aligned"
  <2>1. staging \o pads = staging /\ Len(pads) = 0
    BY <1>2, <1>4, ConcatEmptySeq
  <2>2. Len(staging) \in Nat /\ DOMAIN staging = 1 .. Len(staging) /\ file \o staging = Frames
    BY <1>2 DEF Frames
  <2>3. Group(staging, pads)
    <3>1. /\ seq + Len(pads) = Len(Frames) /\ \A i \in 1 .. Len(staging) : staging[i].part = "whole"
          /\ \E i \in DOMAIN Frames : Frames[i].type = "HEAD"
      <4>1. seq + Len(pads) = Len(Frames)
        <5> DEFINE n == Len(pads)
                   N == Len(Frames)
        <5>1. n = 0 /\ seq = N /\ N \in Nat
          BY <1>1, <2>1
        <5> HIDE DEF n, N
        <5>2. seq + n = N
          BY <5>1
        <5> QED BY <5>2 DEF n, N
      <4>2. \A i \in 1 .. Len(staging) : staging[i].part = "whole"
        BY <1>2, <2>2
      <4>3. \E i \in DOMAIN Frames : Frames[i].type = "HEAD"
        BY <1>1, <1>3, Zenon
      <4> QED BY <4>1, <4>2, <4>3
    <3> HIDE DEF Frames
    <3> DEFINE all == file \o staging
    <3>2. all = Frames
      BY <2>2
    <3> HIDE DEF all
    <3>3. /\ Chained(all, docs) /\ Recorded(docs, all) /\ Selected(all, head)
          /\ \A i \in 1 .. MaxSeq : docs[i] # Wal!Bad => i <= Len(all)
          /\ seq + Len(pads) = Len(all) /\ \E i \in DOMAIN all : all[i].type = "HEAD"
      BY <1>1, <1>2, <3>1, <3>2
    <3>4. Padded(staging)
      <4>1. \A i \in 1 .. Len(staging) : staging[i].type # "PAD"
        BY <2>2 DEF LogInv, Staged
      <4> QED BY <4>1 DEF Padded
    <3> QED BY <1>2, <1>4, <3>1, <3>3, <3>4 DEF Group, all
  <2> QED BY <2>1, <2>3
<1>5. CASE mode = "aligned"
  <2> DEFINE end == Wal!FileBytes(Frames)
             f == Wal!PadFrame(seq + 1, end)
             s == Frames
             t == s \o <<f>>
             frames == staging \o <<f>>
  <2>1. end \in Nat
    BY <1>1, BytesOfFront
  <2>2. f \in FrameSet /\ f.type = "PAD" /\ f.part = "whole" /\ f.seq = Len(s) + 1 /\ f.parent = 0
    <3>1. seq + 1 \in Nat /\ seq + 1 = Len(s) + 1
      BY <1>1
    <3> HIDE DEF end
    <3> QED BY <2>1, <3>1, PadIs
  <2>3. pads = <<f>>
    BY <1>5
  <2>a. f.bytes = Wal!Sealed(end)
    <3>1. seq + 1 \in Nat
      BY <1>1
    <3> HIDE DEF end
    <3> QED BY <2>1, <3>1, PadIs
  <2>b. Wal!Sealed(end) - HDR \in 0 .. Page /\ (end + Wal!Sealed(end)) % Page = 0
    <3> HIDE DEF end
    <3> QED BY <2>1, SealedIs
  <2> HIDE DEF f, s
  <2>4. /\ s \in Seq(FrameSet) /\ Len(s) \in Nat /\ Chained(s, docs) /\ Selected(s, head)
        /\ Recorded(docs, s) /\ Len(s) > 0 /\ seq = Len(s)
        /\ \A id \in 1 .. MaxSeq : docs[id] # Wal!Bad => id <= Len(s)
        /\ \E i \in 1 .. Len(s) : s[i].type = "HEAD"
    BY <1>1, <1>2, <1>3 DEF s
  <2>5. Follows(f, Len(s) + 1, s, docs)
    BY <2>2, <2>4 DEF Follows
  <2>6. Chained(t, docs) /\ Selected(t, head)
    BY <2>2, <2>4, <2>5, ExtendedChained, SelectedNext
  <2>7. Recorded(docs, t) /\ \A i \in 1 .. MaxSeq : docs[i] # Wal!Bad => i <= Len(t)
    BY <2>2, <2>4, RecordedNext
  <2>8. /\ t \in Seq(FrameSet) /\ Len(t) = Len(s) + 1 /\ DOMAIN t = 1 .. Len(s) + 1
        /\ \A i \in 1 .. Len(s) : t[i] = s[i]
    BY <2>2, <2>4, Extended
  <2>9. t = file \o frames
    <3>1. <<f>> \in Seq(FrameSet)
      BY <2>2
    <3>2. \A a, b, c \in Seq(FrameSet) : (a \o b) \o c = a \o (b \o c)
      BY ConcatAssociative
    <3> DEFINE e == <<f>>
    <3> HIDE DEF e
    <3>3. e \in Seq(FrameSet)
      BY <3>1 DEF e
    <3>4. (file \o staging) \o e = file \o (staging \o e)
      BY <1>2, <3>2, <3>3, Zenon
    <3> QED BY <3>4 DEF e, s, Frames
  <2>10. /\ frames \in Seq(FrameSet) /\ frames # <<>>
         /\ \A i \in 1 .. Len(frames) : frames[i].part = "whole"
         /\ Padded(frames)
    <3>1. /\ frames \in Seq(FrameSet) /\ Len(frames) = Len(staging) + 1 /\ Len(staging) \in Nat
          /\ \A i \in 1 .. Len(staging) : frames[i] = staging[i]
          /\ frames[Len(staging) + 1] = f /\ DOMAIN staging = 1 .. Len(staging)
      BY <1>2, <2>2, Extended
    <3> HIDE DEF frames
    <3>2. frames # <<>>
      BY <3>1
    <3>3. ASSUME NEW i \in 1 .. Len(frames) PROVE frames[i].part = "whole"
      <4>1. CASE i <= Len(staging)
        <5>1. i \in 1 .. Len(staging)
          BY <3>1, <4>1
        <5>2. frames[i] = staging[i] /\ i \in DOMAIN staging
          BY <3>1, <5>1
        <5> QED BY <1>2, <5>2
      <4>2. CASE i > Len(staging)
        <5>1. i = Len(staging) + 1
          BY <3>1, <4>2
        <5> QED BY <2>2, <3>1, <5>1
      <4> QED BY <3>1, <4>1, <4>2
    <3>4. ASSUME NEW i \in 1 .. Len(frames), frames[i].type = "PAD"
          PROVE  frames[i].bytes - HDR \in 0 .. Page
      <4>1. i \notin 1 .. Len(staging)
        <5>1. \A j \in 1 .. Len(staging) : staging[j].type # "PAD"
          BY <2>2, <3>1 DEF LogInv, Staged
        <5> QED BY <3>1, <3>4, <5>1
      <4>2. i = Len(staging) + 1
        BY <3>1, <4>1
      <4> QED BY <2>a, <2>b, <3>1, <4>2
    <3> QED BY <3>1, <3>2, <3>3, <3>4 DEF Padded
  <2>c. Wal!FileBytes(t) % Page = 0
    <3>1. t[Len(t)] = f
      BY <2>2, <2>4, Extended
    <3> HIDE DEF t
    <3>2. Len(s) <= Len(t) /\ Len(t) = Len(s) + 1 /\ \A i \in 1 .. Len(s) : s[i].bytes = t[i].bytes
      BY <2>4, <2>8
    <3>3. Wal!FileBytes(t) = Wal!FileBytes(s) + t[Len(t)].bytes
      BY <2>4, <2>8, <3>2, BytesOfFront
    <3> QED BY <2>a, <2>b, <3>1, <3>3 DEF s
  <2> HIDE DEF t, frames
  <2>11. \E i \in DOMAIN t : t[i].type = "HEAD"
    BY <2>4, <2>8
  <2>12. Len(pads) = 1 /\ seq + Len(pads) = Len(t)
    BY <2>3, <2>4, <2>8
  <2>13. Group(frames, pads)
    BY <2>6, <2>7, <2>9, <2>10, <2>11, <2>12, <2>c DEF Group
  <2> QED BY <2>3, <2>13 DEF frames
<1> QED BY <1>4, <1>5

\* bench writes a group, or fails to reserve its space.
LEMMA WriteGroupSafe == LogInv /\ Wal!WriteGroup => LogInv'
<1> SUFFICES ASSUME LogInv, Wal!WriteGroup PROVE LogInv'
  OBVIOUS
<1> DEFINE end == Wal!FileBytes(file \o staging)
           pads == IF mode = "aligned" THEN <<Wal!PadFrame(seq + 1, end)>> ELSE <<>>
           frames == staging \o pads
           size == Wal!FileBytes(file \o frames)
<1>1. /\ log_pc = "idle" /\ staging # <<>> /\ staging' = <<>> /\ seq' = seq + Len(pads)
      /\ UNCHANGED <<mode, exists, synced, dir_synced, head, ack, ack_seq, docs>>
      /\ \/ reserved' = Wal!Grown(size) /\ Wal!WriteAll(frames, "written")
         \/ log_pc' = "down" /\ UNCHANGED <<reserved, file>>
  BY DEF Wal!WriteGroup, Wal!acks
<1>2. Group(frames, pads)
  <2>1. pads = IF mode = "aligned"
               THEN <<Wal!PadFrame(seq + 1, Wal!FileBytes(Frames))>> ELSE <<>>
    BY DEF Frames
  <2> HIDE DEF pads
  <2> QED BY <1>1, <2>1, GroupMade
<1>3. size \in Nat
  <2>1. file \in Seq(FrameSet)
    BY DEF LogInv, LogTypes
  <2> HIDE DEF frames
  <2>2. file \o frames \in Seq(FrameSet)
    BY <1>2, <2>1, Joined DEF Group
  <2> QED BY <2>2, BytesAreNat
<1>4. reserved \in Nat /\ Wal!Grown(size) \in Nat
  <2>1. reserved \in Nat
    BY DEF LogInv, LogTypes
  <2> HIDE DEF size
  <2> QED BY <1>3, <2>1, GrownIs
<1> HIDE DEF size, pads, frames
<1>5. CASE reserved' = Wal!Grown(size) /\ Wal!WriteAll(frames, "written")
  <2>1. /\ docs' \in [0 .. MaxSeq -> Seq(Int)] /\ docs'[0] = Base /\ (mode # "direct" => InPlace(docs'))
        /\ docs' = docs
    BY <1>1 DEF LogInv, LogTypes, Documents
  <2>2. mode # "direct" => dir_synced
    BY <1>1 DEF LogInv, Media
  <2>3. /\ frames \in Seq(FrameSet) /\ frames # <<>>
        /\ \A i \in 1 .. Len(frames) : frames[i].part = "whole"
        /\ Chained(file \o frames, docs') /\ Recorded(docs', file \o frames)
        /\ \A i \in 1 .. MaxSeq : docs'[i] # Wal!Bad => i <= Len(file \o frames)
        /\ seq' = Len(file \o frames) /\ Selected(file \o frames, head')
        /\ \E i \in DOMAIN (file \o frames) : (file \o frames)[i].type = "HEAD"
    BY <1>1, <1>2, <2>1 DEF Group
  <2>4. reserved' \in Nat /\ "written" \in {"based", "idle", "written"} /\ log_pc # "down"
    BY <1>1, <1>4, <1>5
  <2> QED BY <1>1, <1>5, <2>1, <2>2, <2>3, <2>4, WriteSafe
<1>6. CASE log_pc' = "down" /\ UNCHANGED <<reserved, file>>
  <2>1. Remains(file', file)
    BY <1>6, WholeIsCut DEF LogInv, LogTypes, Cut
  <2>2. /\ exists /\ synced <= Len(file) /\ \A i \in DOMAIN file : file[i].part = "whole"
    BY <1>1 DEF LogInv, Media, Position
  <2> QED BY <1>1, <1>6, <2>1, <2>2, HaltSafe
<1> QED BY <1>1, <1>5, <1>6

\* A history that recovers completely tells a new process where it is.
LEMMA ReopenSafe == LogInv /\ Wal!Reopen => LogInv'
<1> SUFFICES ASSUME LogInv, Wal!Reopen PROVE LogInv'
  OBVIOUS
<1> DEFINE r == Wal!Recover(Base)
           N == Len(file)
<1>1. /\ mode = "direct" /\ log_pc = "down" /\ r.status = "OK" /\ log_pc' = "idle"
      /\ seq' = r.sequence /\ head' = r.head
      /\ docs' = [id \in DOMAIN docs |-> IF id <= r.sequence THEN docs[id] ELSE Wal!Bad]
      /\ UNCHANGED <<mode, file, exists, synced, dir_synced, reserved, staging, ack, ack_seq>>
  BY DEF Wal!Reopen, Wal!media, Wal!acks
<1>2. /\ file \in Seq(FrameSet) /\ N \in Nat /\ Chained(file, docs) /\ docs[0] = Base
      /\ \E m \in 0 .. N : \E h, status :
           /\ r = Ending(status, file, docs, m, h)
           /\ Wholes(file, m) /\ Last(file, m, h)
           /\ m < N => file[m + 1].part # "whole" /\ status = Verdict(file, m)
           /\ m = N => status = IF ~exists THEN "IO" ELSE IF m > 0 THEN "OK" ELSE "BAD"
  BY FileRecovered
<1>3. DOMAIN file = 1 .. N /\ staging = <<>> /\ Frames = file
  BY <1>1, <1>2, NothingStaged DEF LogInv, Staged
<1> HIDE DEF r, N
<1>4. exists /\ N > 0 /\ Wholes(file, N) /\ r.sequence = N /\ Last(file, N, r.head)
  <2>1. PICK m \in 0 .. N : \E h, status :
           /\ r = Ending(status, file, docs, m, h)
           /\ Wholes(file, m) /\ Last(file, m, h)
           /\ m < N => file[m + 1].part # "whole" /\ status = Verdict(file, m)
           /\ m = N => status = IF ~exists THEN "IO" ELSE IF m > 0 THEN "OK" ELSE "BAD"
    BY <1>2
  <2>2. PICK h, status :
           /\ r = Ending(status, file, docs, m, h)
           /\ Wholes(file, m) /\ Last(file, m, h)
           /\ m < N => file[m + 1].part # "whole" /\ status = Verdict(file, m)
           /\ m = N => status = IF ~exists THEN "IO" ELSE IF m > 0 THEN "OK" ELSE "BAD"
    BY <2>1
  <2>3. r.status = status /\ r.sequence = m /\ r.head = h
    BY <2>2 DEF Ending
  <2>4. status = "OK"
    BY <1>1, <2>3
  <2>5. m < N => status \in {"PREFIX", "BAD"}
    BY <2>2 DEF Verdict
  <2>6. m = N
    BY <1>2, <2>4, <2>5
  <2> QED BY <2>2, <2>3, <2>4, <2>6
<1>5. docs \in [0 .. MaxSeq -> Seq(Int)] /\ MaxSeq \in Nat /\ Recorded(docs, file) /\ reserved \in Nat
  BY <1>3, StoreAssumption DEF LogInv, LogTypes, Documents
<1>6. /\ docs' \in [0 .. MaxSeq -> Seq(Int)] /\ docs'[0] = Base
      /\ \A i \in 0 .. MaxSeq : docs'[i] = IF i <= N THEN docs[i] ELSE Wal!Bad
  <2>1. docs' = [id \in 0 .. MaxSeq |-> IF id <= N THEN docs[id] ELSE Wal!Bad]
    BY <1>1, <1>4, <1>5
  <2>2. Wal!Bad \in Seq(Int)
    BY DEF Wal!Bad
  <2> QED BY <1>2, <1>4, <1>5, <2>1, <2>2
<1>7. Chained(file, docs')
  <2>1. \A i \in Revisions(file, Len(file)) : docs'[i] = docs[i]
    <3> SUFFICES ASSUME NEW i \in Revisions(file, N) PROVE docs'[i] = docs[i]
      BY DEF N
    <3>1. i \in 0 .. MaxSeq /\ i <= N
      <4>1. CASE i = 0
        BY <1>2, <1>5, <4>1
      <4>2. CASE i # 0
        <5>1. i \in 1 .. N /\ file[i].type = "NODE"
          BY <4>2 DEF Revisions
        <5>2. i \in 1 .. MaxSeq
          BY <1>2, <1>3, <5>1 DEF Chained, Follows, Derived
        <5> QED BY <1>2, <5>1, <5>2
      <4> QED BY <4>1, <4>2
    <3> QED BY <1>6, <3>1
  <2> QED BY <1>2, <2>1, SameChained
<1>8. \A i \in 1 .. MaxSeq : docs'[i] # Wal!Bad => i <= N /\ docs'[i] = docs[i]
  BY <1>5, <1>6
<1>9. Frames' = file
  BY <1>1, <1>3 DEF Frames
<1>10. LogTypes' /\ Staged'
  BY <1>1, <1>3, <1>6 DEF LogInv, LogTypes, Staged
<1>11. Chained(Frames, docs)'
  <2>1. Frames' = file'
    BY <1>1, <1>9
  <2>2. Chained(file', docs')
    BY <1>1, <1>7
  <2> QED BY <2>1, <2>2 DEF Chained, Follows, Derived, Revisions
<1>12. Position'
  <2>1. Selected(file, head')
    BY <1>1, <1>3, <1>4 DEF Last, Selected
  <2>2. \A i \in DOMAIN file : file[i].part = "whole"
    BY <1>3, <1>4 DEF Wholes
  <2> QED BY <1>1, <1>4, <1>8, <1>9, <2>1, <2>2 DEF Position, Selected, N
<1>13. Documents'
  <2>1. Recorded(docs', file)
    BY <1>5, <1>8 DEF Recorded
  <2> QED BY <1>1, <1>6, <1>9, <2>1 DEF Documents, Recorded, InPlace
<1>14. Media' /\ Acknowledged'
  BY <1>1, <1>4 DEF LogInv, Media, Acknowledged
<1> QED BY <1>10, <1>11, <1>12, <1>13, <1>14 DEF LogInv

\* The log keeps its invariant while the process publishes files.
LEMMA StillSafe == LogInv /\ UNCHANGED logVars => LogInv'
<1> SUFFICES ASSUME LogInv, UNCHANGED logVars PROVE LogInv'
  OBVIOUS
<1>1. UNCHANGED <<mode, file, exists, synced, dir_synced, reserved, log_pc, staging, seq, head,
                  ack, ack_seq, docs>>
  BY DEF logVars
<1>2. Frames' = Frames
  BY <1>1 DEF Frames
<1>3. LogTypes'
  BY <1>1 DEF LogInv, LogTypes
<1>4. Staged'
  BY <1>1 DEF LogInv, Staged
<1>5. Chained(Frames, docs)'
  BY <1>1, <1>2, Zenon DEF LogInv, Chained, Follows, Derived, Revisions
<1>6. Position'
  BY <1>1, <1>2, Zenon DEF LogInv, Position, Selected
<1>7. Documents'
  BY <1>1, <1>2, Zenon DEF LogInv, Documents, Recorded, InPlace
<1>8. Media' /\ Acknowledged'
  BY <1>1 DEF LogInv, Media, Acknowledged
<1> QED BY <1>3, <1>4, <1>5, <1>6, <1>7, <1>8 DEF LogInv

\* Every edit recover_check may make.
LEMMA EditsAre ==
  ASSUME LogInv, NEW parent \in 0 .. seq, NEW offset \in 0 .. Len(Base) + MaxEdits,
         \/ Wal!Edit(parent, offset, 1, <<>>)
         \/ \E n \in 0 .. 1 : Wal!Edit(parent, offset, n, Wal!Fresh(seq + 1))
  PROVE  /\ offset \in Nat
         /\ \E n \in Nat, new \in Seq(Nat) : Wal!Edit(parent, offset, n, new)
<1>1. offset \in Nat
  BY StoreAssumption
<1>2. CASE Wal!Edit(parent, offset, 1, <<>>)
  <2>1. 1 \in Nat /\ <<>> \in Seq(Nat)
    OBVIOUS
  <2>2. \E n \in Nat, new \in Seq(Nat) : Wal!Edit(parent, offset, n, new)
    BY <1>2, <2>1, Zenon
  <2> QED BY <1>1, <2>2
<1>3. ASSUME NEW n \in 0 .. 1, Wal!Edit(parent, offset, n, Wal!Fresh(seq + 1))
      PROVE  \E m \in Nat, new \in Seq(Nat) : Wal!Edit(parent, offset, m, new)
  <2>1. log_pc = "idle"
    BY <1>3 DEF Wal!Edit
  <2>2. seq + 1 \in Nat
    BY <2>1, Writing
  <2>3. Wal!Fresh(seq + 1) \in Seq(Nat) /\ n \in Nat
    BY <2>2, FreshIs
  <2> QED BY <1>3, <2>3, Zenon
<1> QED BY <1>1, <1>2, <1>3

\* The invariant is kept by every step of the log.
LEMMA LogStep == LogInv /\ [Wal!Next]_logVars => LogInv'
<1> SUFFICES ASSUME LogInv, [Wal!Next]_logVars PROVE LogInv'
  OBVIOUS
<1>1. CASE UNCHANGED logVars
  BY <1>1, StillSafe
<1>2. CASE Wal!WriteBase
  BY <1>2, WriteBaseSafe
<1>3. CASE Wal!SyncBase
  BY <1>3, SyncBaseSafe
<1>4. CASE Wal!SyncName("named", "idle") \/ Wal!SyncName("closing", "down")
  BY <1>4, SyncNameSafe
<1>5. ASSUME NEW parent \in 0 .. seq, NEW offset \in 0 .. Len(Base) + MaxEdits,
             \/ Wal!Edit(parent, offset, 1, <<>>)
             \/ \E n \in 0 .. 1 : Wal!Edit(parent, offset, n, Wal!Fresh(seq + 1))
      PROVE  LogInv'
  BY <1>5, EditsAre, EditSafe
<1>6. ASSUME NEW id \in 0 .. seq, Wal!Select(id) PROVE LogInv'
  BY <1>6, SelectSafe
<1>7. ASSUME NEW offset \in 0 .. Len(Base) - 1, Wal!Stage(offset) PROVE LogInv'
  BY <1>7, StageSafe
<1>8. CASE Wal!WriteGroup
  BY <1>8, WriteGroupSafe
<1>9. CASE Wal!Sync
  BY <1>9, SyncSafe
<1>10. CASE Wal!Exit
  BY <1>10, ExitSafe
<1>11. CASE Wal!PowerLoss
  BY <1>11, PowerLossSafe
<1>12. CASE \E i \in DOMAIN file : Wal!Damage(i)
  BY <1>12, DamageSafe
<1>13. CASE Wal!Reopen
  BY <1>13, ReopenSafe
<1> QED BY <1>1, <1>2, <1>3, <1>4, <1>5, <1>6, <1>7, <1>8, <1>9, <1>10, <1>11, <1>12, <1>13
        DEF Wal!Next
-------------------------------------------------------------------------------
(* Where the groups are placed. *)

\* bench reserves its first chunk before it creates the file.
Placed ==
  /\ Wal!GroupsPlaced
  /\ log_pc = "create" /\ mode # "direct" => reserved = Chunk

\* What remains of frames takes no more space and is padded no worse.
LEMMA RemainsPlaced ==
  ASSUME NEW s \in Seq(FrameSet), NEW t, Remains(t, s)
  PROVE  /\ Wal!FileBytes(t) \in Nat /\ Wal!FileBytes(s) \in Nat
         /\ Wal!FileBytes(t) <= Wal!FileBytes(s)
         /\ Padded(s) => Padded(t)
         /\ t \in Seq(FrameSet) /\ DOMAIN t = 1 .. Len(t) /\ DOMAIN s = 1 .. Len(s)
<1>1. /\ t \in Seq(FrameSet) /\ Len(t) <= Len(s) /\ Len(t) \in Nat /\ Len(s) \in Nat
      /\ \A i \in 1 .. Len(t) : t[i].bytes = s[i].bytes /\ t[i].type = s[i].type
  BY DEF Remains, SameFrame
<1>2. /\ Wal!FileBytes(t) \in Nat /\ Wal!FileBytes(s) \in Nat
      /\ Wal!FileBytes(t) <= Wal!FileBytes(s)
  BY <1>1, BytesOfFront
<1>3. Padded(s) => Padded(t)
  BY <1>1 DEF Padded
<1> QED BY <1>1, <1>2, <1>3

\* Nothing is written that was not there or is not reserved.
LEMMA PlacedKept ==
  ASSUME LogInv, Placed, Remains(file', file), UNCHANGED <<mode, reserved>>,
         log_pc' # "written", log_pc' # "create" \/ log_pc = "create"
  PROVE  Placed'
<1>1. file \in Seq(FrameSet) /\ reserved \in Nat /\ Chunk \in Nat
  BY StoreAssumption DEF LogInv, LogTypes
<1>2. /\ Wal!FileBytes(file') \in Nat /\ Wal!FileBytes(file) \in Nat
      /\ Wal!FileBytes(file') <= Wal!FileBytes(file)
      /\ Padded(file) => Padded(file')
      /\ DOMAIN file' = 1 .. Len(file') /\ DOMAIN file = 1 .. Len(file)
  BY <1>1, RemainsPlaced
<1>3. Padded(file')
  BY <1>2 DEF Placed, Wal!GroupsPlaced, Padded
<1> DEFINE a == Wal!FileBytes(file)
           b == Wal!FileBytes(file')
<1>4. mode # "direct" /\ Chunk > 0 => b <= reserved /\ reserved % Chunk = 0
  <2>1. mode # "direct" /\ Chunk > 0 => a <= reserved /\ reserved % Chunk = 0
    BY DEF Placed, Wal!GroupsPlaced
  <2> HIDE DEF a, b
  <2>2. a \in Nat /\ b \in Nat /\ b <= a
    BY <1>2 DEF a, b
  <2> QED BY <1>1, <2>1, <2>2
<1>5. log_pc' = "create" /\ mode # "direct" => reserved = Chunk
  BY DEF Placed
<1> QED BY <1>2, <1>3, <1>4, <1>5 DEF Placed, Wal!GroupsPlaced, Padded

\* A write of frames that fit.
LEMMA PlacedWritten ==
  ASSUME LogInv, Placed, NEW frames \in Seq(FrameSet), NEW to,
         Wal!WriteAll(frames, to), UNCHANGED mode, to # "create", Padded(frames),
         mode = "aligned" /\ to = "written" => Wal!FileBytes(file \o frames) % Page = 0,
         mode # "direct" /\ Chunk > 0 =>
           Wal!FileBytes(file \o frames) <= reserved' /\ reserved' % Chunk = 0,
         reserved' \in Nat
  PROVE  Placed'
<1> DEFINE all == file \o frames
<1>1. file \in Seq(FrameSet)
  BY DEF LogInv, LogTypes
<1>2. /\ all \in Seq(FrameSet) /\ Len(all) = Len(file) + Len(frames) /\ Len(file) \in Nat
      /\ Len(frames) \in Nat /\ DOMAIN file = 1 .. Len(file)
      /\ \A i \in 1 .. Len(file) : all[i] = file[i]
      /\ \A i \in 1 .. Len(frames) : all[Len(file) + i] = frames[i]
  BY <1>1, Joined
<1>3. Cut(file', all) /\ ((file' = all /\ log_pc' = to) \/ log_pc' = "down")
  BY <1>1, WriteCut
<1>4. Padded(file)
  BY <1>2 DEF Placed, Wal!GroupsPlaced, Padded
<1> HIDE DEF all
<1>5. Padded(all)
  <2> SUFFICES ASSUME NEW i \in 1 .. Len(all), all[i].type = "PAD"
               PROVE  all[i].bytes - HDR \in 0 .. Page
    BY DEF Padded
  <2>1. CASE i <= Len(file)
    <3>1. i \in 1 .. Len(file) /\ all[i] = file[i]
      BY <1>2, <2>1
    <3> QED BY <1>4, <3>1 DEF Padded
  <2>2. CASE i > Len(file)
    <3>1. i - Len(file) \in 1 .. Len(frames) /\ i = Len(file) + (i - Len(file))
      BY <1>2, <2>2
    <3>2. all[i] = frames[i - Len(file)]
      BY <1>2, <3>1
    <3> QED BY <3>1, <3>2 DEF Padded
  <2> QED BY <1>2, <2>1, <2>2
<1>6. /\ Wal!FileBytes(file') \in Nat /\ Wal!FileBytes(all) \in Nat
      /\ Wal!FileBytes(file') <= Wal!FileBytes(all)
      /\ Padded(file') /\ DOMAIN file' = 1 .. Len(file')
  BY <1>2, <1>3, <1>5, RemainsPlaced DEF Cut
<1> DEFINE a == Wal!FileBytes(all)
           b == Wal!FileBytes(file')
<1>7. mode # "direct" /\ Chunk > 0 => b <= reserved' /\ reserved' % Chunk = 0
  <2>1. mode # "direct" /\ Chunk > 0 => a <= reserved' /\ reserved' % Chunk = 0
    BY DEF all
  <2> HIDE DEF a, b
  <2>2. a \in Nat /\ b \in Nat /\ b <= a
    BY <1>6 DEF a, b
  <2> QED BY <2>1, <2>2
<1>8. mode = "aligned" /\ log_pc' = "written" => b % Page = 0
  BY <1>3 DEF all
<1>9. log_pc' # "create"
  BY <1>3
<1> QED BY <1>6, <1>7, <1>8, <1>9 DEF Placed, Wal!GroupsPlaced, Padded

\* A new file fits its first chunk.
LEMMA PlacedInit == Wal!Init => Placed
<1> SUFFICES ASSUME Wal!Init PROVE Placed
  OBVIOUS
<1>1. /\ file = <<>> /\ log_pc = "create" /\ reserved = IF mode = "direct" THEN 0 ELSE Chunk
  BY DEF Wal!Init
<1>2. Wal!FileBytes(file) = 0 /\ DOMAIN file = {} /\ Chunk \in Nat
  BY <1>1, BytesOfNone, StoreAssumption
<1>3. Chunk > 0 => Chunk % Chunk = 0
  <2>1. ASSUME NEW c \in Nat \ {0} PROVE c % c = 0
    OBVIOUS
  <2> QED BY <1>2, <2>1
<1> QED BY <1>1, <1>2, <1>3 DEF Placed, Wal!GroupsPlaced

\* The base frame fits the first chunk.
LEMMA PlacedBase == LogInv /\ Placed /\ Wal!WriteBase => Placed'
<1> SUFFICES ASSUME LogInv, Placed, Wal!WriteBase PROVE Placed'
  OBVIOUS
<1> DEFINE f == Wal!BaseFrame
           frames == <<f>>
           to == IF mode = "direct" THEN "idle" ELSE "based"
<1>1. log_pc = "create" /\ Wal!WriteAll(frames, to) /\ UNCHANGED <<mode, reserved>>
  BY DEF Wal!WriteBase
<1>2. f \in FrameSet /\ f.type = "BASE" /\ f.bytes = HDR + 40
  BY FramesAre
<1> HIDE DEF f
<1>3. file = <<>> /\ reserved \in Nat
  BY <1>1 DEF LogInv, Position, LogTypes
<1>4. frames \in Seq(FrameSet) /\ Len(frames) = 1 /\ frames[1] = f
  BY <1>2
<1> HIDE DEF frames
<1>5. Padded(frames)
  BY <1>2, <1>4 DEF Padded
<1>6. file \o frames = frames
  BY <1>3, <1>4, ConcatEmptySeq
<1>7. Wal!FileBytes(frames) = HDR + 40
  <2> DEFINE none == <<>>
  <2>1. none \in Seq(FrameSet) /\ Len(none) = 0 /\ Wal!FileBytes(none) = 0
    BY BytesOfNone
  <2> HIDE DEF none
  <2>2. Len(frames) = Len(none) + 1 /\ Len(none) <= Len(frames)
        /\ \A i \in 1 .. Len(none) : none[i].bytes = frames[i].bytes
    BY <1>4, <2>1
  <2>3. Wal!FileBytes(frames) = Wal!FileBytes(none) + frames[Len(frames)].bytes
    BY <1>4, <2>1, <2>2, BytesOfFront
  <2> QED BY <1>2, <1>4, <2>1, <2>3, StoreAssumption
<1>8. mode # "direct" /\ Chunk > 0 =>
        Wal!FileBytes(file \o frames) <= reserved' /\ reserved' % Chunk = 0
  <2>1. ASSUME mode # "direct", Chunk > 0 PROVE HDR + 40 <= reserved /\ reserved % Chunk = 0
    <3>1. reserved = Chunk
      BY <1>1, <2>1 DEF Placed
    <3>2. HDR + 40 <= Chunk
      BY <2>1, StoreAssumption
    <3>3. reserved % Chunk = 0
      BY <2>1 DEF Placed, Wal!GroupsPlaced
    <3> QED BY <3>1, <3>2, <3>3
  <2> QED BY <1>1, <1>6, <1>7, <2>1
<1>9. to # "create" /\ to # "written" /\ reserved' \in Nat
  BY <1>1, <1>3
<1> HIDE DEF to
<1> QED BY <1>1, <1>4, <1>5, <1>8, <1>9, PlacedWritten

\* What recover_check writes is not padded, and reserves nothing.
LEMMA PlacedDirect ==
  ASSUME LogInv, Placed, mode = "direct", NEW f \in FrameSet, f.type # "PAD",
         NEW to, to # "create", Wal!WriteAll(<<f>>, to), UNCHANGED <<mode, reserved>>
  PROVE  Placed'
<1> DEFINE frames == <<f>>
<1>1. frames \in Seq(FrameSet) /\ Len(frames) = 1 /\ frames[1] = f /\ Wal!WriteAll(frames, to)
  OBVIOUS
<1> HIDE DEF frames
<1>2. Padded(frames)
  BY <1>1 DEF Padded
<1>3. reserved' \in Nat
  BY DEF LogInv, LogTypes
<1> QED BY <1>1, <1>2, <1>3, PlacedWritten

\* Edits written at once reserve nothing.
LEMMA PlacedEdits ==
  ASSUME LogInv, Placed, NEW parent \in 0 .. seq, NEW offset \in Nat, NEW n \in Nat,
         NEW new \in Seq(Nat), Wal!Edit(parent, offset, n, new)
  PROVE  Placed'
<1> DEFINE edit == Wal!EditOf(docs[parent], offset, n, new)
           f == Wal!NodeFrame(seq + 1, parent, edit)
<1>1. /\ mode = "direct" /\ log_pc = "idle" /\ seq < MaxDirect
      /\ docs[parent] # Wal!Bad /\ offset + n <= Len(docs[parent])
      /\ Wal!WriteAll(<<f>>, "idle") /\ UNCHANGED <<mode, reserved>>
  BY DEF Wal!Edit
<1>2. seq + 1 \in 1 .. MaxSeq /\ log_pc # "down" /\ seq \in Nat
  BY <1>1, Writing, StoreAssumption
<1>3. NodeOf(f, seq + 1, parent, edit)
  <2>1. edit = Wal!EditOf(docs[parent], offset, n, new) /\ f = Wal!NodeFrame(seq + 1, parent, edit)
    OBVIOUS
  <2> HIDE DEF edit, f
  <2> QED BY <1>1, <1>2, <2>1, NodeMade
<1> HIDE DEF f
<1>4. f \in FrameSet /\ f.type # "PAD"
  BY <1>3 DEF NodeOf
<1> QED BY <1>1, <1>4, PlacedDirect

\* Nor do selections.
LEMMA PlacedSelect == ASSUME LogInv, Placed, NEW id \in 0 .. seq, Wal!Select(id) PROVE Placed'
<1> DEFINE f == Wal!HeadFrame(seq + 1, id)
<1>1. /\ mode = "direct" /\ log_pc = "idle" /\ Wal!WriteAll(<<f>>, "written")
      /\ UNCHANGED <<mode, reserved>>
  BY DEF Wal!Select
<1>2. seq \in Nat /\ id \in Nat
  BY <1>1, Writing
<1>3. f \in FrameSet /\ f.type # "PAD"
  BY <1>2, FramesAre
<1> HIDE DEF f
<1> QED BY <1>1, <1>3, PlacedDirect

\* A group is written in the space reserved for it, up to a page boundary.
LEMMA PlacedGroup == LogInv /\ Placed /\ Wal!WriteGroup => Placed'
<1> SUFFICES ASSUME LogInv, Placed, Wal!WriteGroup PROVE Placed'
  OBVIOUS
<1> DEFINE end == Wal!FileBytes(file \o staging)
           pads == IF mode = "aligned" THEN <<Wal!PadFrame(seq + 1, end)>> ELSE <<>>
           frames == staging \o pads
           size == Wal!FileBytes(file \o frames)
<1>1. /\ log_pc = "idle" /\ staging # <<>> /\ UNCHANGED mode
      /\ \/ reserved' = Wal!Grown(size) /\ Wal!WriteAll(frames, "written")
         \/ log_pc' = "down" /\ UNCHANGED <<reserved, file>>
  BY DEF Wal!WriteGroup
<1>2. Group(frames, pads)
  <2>1. pads = IF mode = "aligned"
               THEN <<Wal!PadFrame(seq + 1, Wal!FileBytes(Frames))>> ELSE <<>>
    BY DEF Frames
  <2> HIDE DEF pads
  <2> QED BY <1>1, <2>1, GroupMade
<1> HIDE DEF frames, pads
<1>3. file \in Seq(FrameSet) /\ reserved \in Nat
  BY DEF LogInv, LogTypes
<1>4. frames \in Seq(FrameSet) /\ Padded(frames) /\ (mode = "aligned" => size % Page = 0)
  BY <1>2 DEF Group
<1>5. size \in Nat
  <2>1. file \o frames \in Seq(FrameSet)
    BY <1>3, <1>4, Joined
  <2> QED BY <2>1, BytesAreNat
<1>6. CASE reserved' = Wal!Grown(size) /\ Wal!WriteAll(frames, "written")
  <2> HIDE DEF size
  <2>1. /\ Wal!Grown(size) \in Nat /\ (Chunk > 0 => size <= Wal!Grown(size))
        /\ Chunk > 0 /\ reserved % Chunk = 0 => Wal!Grown(size) % Chunk = 0
    BY <1>3, <1>5, GrownIs
  <2>2. mode # "direct" /\ Chunk > 0 => size <= reserved' /\ reserved' % Chunk = 0
    BY <1>6, <2>1 DEF Placed, Wal!GroupsPlaced
  <2>3. reserved' \in Nat
    BY <1>6, <2>1
  <2> QED BY <1>1, <1>4, <1>6, <2>2, <2>3, PlacedWritten DEF size
<1>7. CASE log_pc' = "down" /\ UNCHANGED <<reserved, file>>
  <2>1. Remains(file', file)
    BY <1>3, <1>7, WholeIsCut DEF Cut
  <2> QED BY <1>1, <1>7, <2>1, PlacedKept
<1> QED BY <1>1, <1>6, <1>7

\* The placement is kept by every step of the log.
LEMMA PlacedStep == LogInv /\ Placed /\ [Wal!Next]_logVars => Placed'
<1> SUFFICES ASSUME LogInv, Placed, [Wal!Next]_logVars PROVE Placed'
  OBVIOUS
<1>0. Remains(file, file)
  BY WholeIsCut DEF LogInv, LogTypes, Cut
<1>a. ASSUME UNCHANGED <<mode, reserved, file>>, log_pc' \notin {"written", "create"} PROVE Placed'
  <2>1. Remains(file', file)
    BY <1>0, <1>a
  <2> QED BY <1>a, <2>1, PlacedKept
<1>1. CASE UNCHANGED logVars
  <2>1. UNCHANGED <<mode, reserved, file, log_pc>>
    BY <1>1 DEF logVars
  <2> QED BY <2>1 DEF Placed, Wal!GroupsPlaced, Wal!FileBytes
<1>2. CASE Wal!WriteBase
  BY <1>2, PlacedBase
<1>3. CASE Wal!SyncBase
  BY <1>3, <1>a DEF Wal!SyncBase
<1>4. CASE Wal!SyncName("named", "idle") \/ Wal!SyncName("closing", "down")
  BY <1>4, <1>a DEF Wal!SyncName
<1>5. ASSUME NEW parent \in 0 .. seq, NEW offset \in 0 .. Len(Base) + MaxEdits,
             \/ Wal!Edit(parent, offset, 1, <<>>)
             \/ \E n \in 0 .. 1 : Wal!Edit(parent, offset, n, Wal!Fresh(seq + 1))
      PROVE  Placed'
  BY <1>5, EditsAre, PlacedEdits
<1>6. ASSUME NEW id \in 0 .. seq, Wal!Select(id) PROVE Placed'
  BY <1>6, PlacedSelect
<1>7. ASSUME NEW offset \in 0 .. Len(Base) - 1, Wal!Stage(offset) PROVE Placed'
  BY <1>7, <1>a DEF Wal!Stage, Wal!media
<1>8. CASE Wal!WriteGroup
  BY <1>8, PlacedGroup
<1>9. CASE Wal!Sync
  BY <1>9, <1>a DEF Wal!Sync
<1>10. CASE Wal!Exit
  BY <1>10, <1>a DEF Wal!Exit, Wal!media
<1>11. CASE Wal!PowerLoss
  <2>1. UNCHANGED <<mode, reserved>> /\ log_pc' = "down"
    BY <1>11 DEF Wal!PowerLoss
  <2> QED BY <1>11, <2>1, PowerLossSafe, PlacedKept
<1>12. CASE \E i \in DOMAIN file : Wal!Damage(i)
  <2>1. UNCHANGED <<mode, reserved>> /\ log_pc' = "down"
    BY <1>12 DEF Wal!Damage
  <2> QED BY <1>12, <2>1, DamageSafe, PlacedKept
<1>13. CASE Wal!Reopen
  BY <1>13, <1>a DEF Wal!Reopen, Wal!media
<1> QED BY <1>1, <1>2, <1>3, <1>4, <1>5, <1>6, <1>7, <1>8, <1>9, <1>10, <1>11, <1>12, <1>13
        DEF Wal!Next

-------------------------------------------------------------------------------
(* What was synced stays. *)

\* A step of the log takes back neither a sync nor an acknowledgement, and keeps every
\* frame that was synced, though the medium may damage it, unless the file itself is lost
\* with its name.
SyncedStay ==
  /\ synced <= synced' /\ ack_seq <= ack_seq'
  /\ exists' => /\ synced <= Len(file')
                /\ \A i \in 1 .. synced : /\ SameFrame(file'[i], file[i])
                                          /\ file'[i].part \in {file[i].part, "damaged"}

\* Nothing in the file changes.
LEMMA FileStays ==
  ASSUME LogInv, UNCHANGED <<file, exists>>, synced <= synced', ack_seq <= ack_seq'
  PROVE  SyncedStay
BY DEF SyncedStay, SameFrame, LogInv, Media

\* Frames are only added.
LEMMA WriteStays ==
  ASSUME LogInv, NEW frames \in Seq(FrameSet), NEW to, Wal!WriteAll(frames, to),
         UNCHANGED <<exists, synced, ack_seq>>
  PROVE  SyncedStay
<1>1. /\ file \in Seq(FrameSet) /\ Len(file) \in Nat /\ synced \in Nat /\ ack_seq \in Nat
      /\ exists => synced <= Len(file)
  BY DEF LogInv, LogTypes, Media
<1>2. /\ Cut(file', file \o frames) /\ Len(file') >= Len(file)
      /\ \A i \in 1 .. Len(file) : file'[i] = file[i]
  BY <1>1, WriteCut
<1>3. Len(file') \in Nat
  BY <1>2 DEF Cut, Remains
<1> QED BY <1>1, <1>2, <1>3 DEF SyncedStay, SameFrame

\* An edit is one frame added.
LEMMA EditStays ==
  ASSUME LogInv, NEW parent \in 0 .. seq, NEW offset \in Nat, NEW n \in Nat,
         NEW new \in Seq(Nat), Wal!Edit(parent, offset, n, new)
  PROVE  SyncedStay
<1> DEFINE edit == Wal!EditOf(docs[parent], offset, n, new)
           f == Wal!NodeFrame(seq + 1, parent, edit)
           frames == <<f>>
<1>1. /\ mode = "direct" /\ log_pc = "idle" /\ seq < MaxDirect
      /\ docs[parent] # Wal!Bad /\ offset + n <= Len(docs[parent])
      /\ Wal!WriteAll(frames, "idle") /\ UNCHANGED <<exists, synced, ack_seq>>
  BY DEF Wal!Edit, Wal!acks
<1>2. seq + 1 \in 1 .. MaxSeq /\ log_pc # "down" /\ seq \in Nat
  BY <1>1, Writing, StoreAssumption
<1>3. NodeOf(f, seq + 1, parent, edit)
  <2>1. edit = Wal!EditOf(docs[parent], offset, n, new) /\ f = Wal!NodeFrame(seq + 1, parent, edit)
    OBVIOUS
  <2> HIDE DEF edit, f
  <2> QED BY <1>1, <1>2, <2>1, NodeMade
<1> HIDE DEF f
<1>4. frames \in Seq(FrameSet)
  BY <1>3 DEF NodeOf
<1> HIDE DEF frames
<1> QED BY <1>1, <1>4, WriteStays

\* So is a selection.
LEMMA SelectStays == ASSUME LogInv, NEW id \in 0 .. seq, Wal!Select(id) PROVE SyncedStay
<1> DEFINE f == Wal!HeadFrame(seq + 1, id)
           frames == <<f>>
<1>1. log_pc = "idle" /\ Wal!WriteAll(frames, "written") /\ UNCHANGED <<exists, synced, ack_seq>>
  BY DEF Wal!Select, Wal!acks
<1>2. seq \in Nat /\ id \in Nat
  BY <1>1, Writing
<1>3. f \in FrameSet
  BY <1>2, FramesAre
<1> HIDE DEF f
<1>4. frames \in Seq(FrameSet)
  BY <1>3
<1> HIDE DEF frames
<1> QED BY <1>1, <1>4, WriteStays

\* A sealed group is added behind the file.
LEMMA GroupStays == LogInv /\ Wal!WriteGroup => SyncedStay
<1> SUFFICES ASSUME LogInv, Wal!WriteGroup PROVE SyncedStay
  OBVIOUS
<1> DEFINE end == Wal!FileBytes(file \o staging)
           pads == IF mode = "aligned" THEN <<Wal!PadFrame(seq + 1, end)>> ELSE <<>>
           frames == staging \o pads
<1>1. /\ log_pc = "idle" /\ staging # <<>> /\ UNCHANGED <<exists, synced, ack_seq>>
      /\ \/ Wal!WriteAll(frames, "written")
         \/ UNCHANGED file
  BY DEF Wal!WriteGroup, Wal!acks
<1>2. Group(frames, pads)
  <2>1. pads = IF mode = "aligned"
               THEN <<Wal!PadFrame(seq + 1, Wal!FileBytes(Frames))>> ELSE <<>>
    BY DEF Frames
  <2> HIDE DEF pads
  <2> QED BY <1>1, <2>1, GroupMade
<1> HIDE DEF frames, pads
<1>3. frames \in Seq(FrameSet) /\ synced \in Nat /\ ack_seq \in Nat
  BY <1>2 DEF Group, LogInv, LogTypes
<1> QED BY <1>1, <1>3, WriteStays, FileStays

\* When a selection has been written there is a last one.
LEMMA LastHead ==
  ASSUME LogInv, log_pc = "written"
  PROVE  LET heads == {i \in 1 .. Len(file) : file[i].type = "HEAD"}
         IN Wal!Max(heads) \in heads /\ \A i \in heads : i <= Wal!Max(heads)
<1> DEFINE heads == {i \in 1 .. Len(file) : file[i].type = "HEAD"}
<1>1. /\ Frames = file /\ DOMAIN file = 1 .. Len(file) /\ Len(file) \in Nat
      /\ \E i \in DOMAIN file : file[i].type = "HEAD"
  BY NothingStaged DEF LogInv, LogTypes, Staged, Position
<1>2. PICK i \in heads : \A j \in heads : j <= i
  BY <1>1 DEF LogInv, Position, Selected
<1>3. Wal!Max(heads) = CHOOSE x \in heads : \A y \in heads : x >= y
  BY DEF Wal!Max
<1>4. \E x \in heads : \A y \in heads : x >= y
  BY <1>1, <1>2
<1>5. heads \subseteq Nat
  BY <1>1
<1> HIDE DEF heads
<1>6. Wal!Max(heads) \in heads /\ \A y \in heads : Wal!Max(heads) >= y
  BY <1>3, <1>4
<1>7. \A y \in heads : y <= Wal!Max(heads)
  BY <1>5, <1>6
<1> QED BY <1>6, <1>7 DEF heads

\* A sync covers what the one before it covered, and the last selection comes after every
\* other.
LEMMA SyncStays == LogInv /\ Wal!Sync => SyncedStay
<1> SUFFICES ASSUME LogInv, Wal!Sync PROVE SyncedStay
  OBVIOUS
<1> DEFINE heads == {i \in 1 .. Len(file) : file[i].type = "HEAD"}
<1>1. /\ log_pc = "written" /\ UNCHANGED <<file, exists>>
      /\ \/ synced' = Len(file) /\ ack_seq' = Wal!Max(heads)
         \/ UNCHANGED <<synced, ack_seq>>
  BY DEF Wal!Sync, Wal!SyncFile, Wal!acks
<1>2. /\ file \in Seq(FrameSet) /\ Len(file) \in Nat /\ synced \in Nat /\ ack_seq \in Nat
      /\ synced <= Len(file) /\ DOMAIN file = 1 .. Len(file)
      /\ ack_seq > 0 => ack_seq <= synced /\ file[ack_seq].type = "HEAD"
  BY <1>1 DEF LogInv, LogTypes, Media, Acknowledged
<1>3. \E i \in DOMAIN file : file[i].type = "HEAD"
  BY <1>1 DEF LogInv, Position
<1>4. Wal!Max(heads) \in heads /\ \A i \in heads : i <= Wal!Max(heads)
  BY <1>1, LastHead
<1>5. ack_seq <= Wal!Max(heads)
  <2>1. ack_seq > 0 => ack_seq \in heads
    BY <1>2
  <2>2. Wal!Max(heads) \in Nat
    BY <1>2, <1>4
  <2> HIDE DEF heads
  <2> QED BY <1>2, <1>4, <2>1, <2>2
<1> HIDE DEF heads
<1>6. synced <= synced' /\ ack_seq <= ack_seq'
  BY <1>1, <1>2, <1>5
<1> QED BY <1>1, <1>2, <1>6, FileStays

\* Every step of the log keeps what was synced.
LEMMA StayStep == LogInv /\ [Wal!Next]_logVars => SyncedStay
<1> SUFFICES ASSUME LogInv, [Wal!Next]_logVars PROVE SyncedStay
  OBVIOUS
<1>0. synced \in Nat /\ ack_seq \in Nat
  BY DEF LogInv, LogTypes
<1>1. CASE UNCHANGED logVars
  BY <1>0, <1>1, FileStays DEF logVars
<1>2. CASE Wal!WriteBase
  <2> DEFINE f == Wal!BaseFrame
             frames == <<f>>
  <2>1. /\ Wal!WriteAll(frames, IF mode = "direct" THEN "idle" ELSE "based")
        /\ UNCHANGED <<exists, synced, ack_seq>>
    BY <1>2 DEF Wal!WriteBase, Wal!acks
  <2>2. f \in FrameSet
    BY FramesAre
  <2> HIDE DEF f
  <2>3. frames \in Seq(FrameSet)
    BY <2>2
  <2> HIDE DEF frames
  <2> QED BY <2>1, <2>3, WriteStays
<1>3. CASE Wal!SyncBase
  <2>1. /\ log_pc = "based" /\ UNCHANGED <<file, exists, ack_seq>>
        /\ synced' \in {synced, Len(file)}
    BY <1>3 DEF Wal!SyncBase, Wal!SyncFile, Wal!acks
  <2>2. synced <= Len(file) /\ Len(file) \in Nat
    BY <2>1 DEF LogInv, LogTypes, Media
  <2> QED BY <1>0, <2>1, <2>2, FileStays
<1>4. CASE Wal!SyncName("named", "idle") \/ Wal!SyncName("closing", "down")
  <2>1. UNCHANGED <<file, exists, synced, ack_seq>>
    BY <1>4 DEF Wal!SyncName, Wal!acks
  <2> QED BY <1>0, <2>1, FileStays
<1>5. ASSUME NEW parent \in 0 .. seq, NEW offset \in 0 .. Len(Base) + MaxEdits,
             \/ Wal!Edit(parent, offset, 1, <<>>)
             \/ \E n \in 0 .. 1 : Wal!Edit(parent, offset, n, Wal!Fresh(seq + 1))
      PROVE  SyncedStay
  BY <1>5, EditsAre, EditStays
<1>6. ASSUME NEW id \in 0 .. seq, Wal!Select(id) PROVE SyncedStay
  BY <1>6, SelectStays
<1>7. ASSUME NEW offset \in 0 .. Len(Base) - 1, Wal!Stage(offset) PROVE SyncedStay
  <2>1. UNCHANGED <<file, exists, synced, ack_seq>>
    BY <1>7 DEF Wal!Stage, Wal!media, Wal!acks
  <2> QED BY <1>0, <2>1, FileStays
<1>8. CASE Wal!WriteGroup
  BY <1>8, GroupStays
<1>9. CASE Wal!Sync
  BY <1>9, SyncStays
<1>10. CASE Wal!Exit
  <2>1. UNCHANGED <<file, exists, synced, ack_seq>>
    BY <1>10 DEF Wal!Exit, Wal!media, Wal!acks
  <2> QED BY <1>0, <2>1, FileStays
<1>11. CASE Wal!PowerLoss
  <2>1. UNCHANGED <<synced, ack_seq>> /\ (exists' => SyncedKept)
    BY <1>11, PowerLossSafe DEF Wal!PowerLoss, Wal!acks
  <2> QED BY <1>0, <2>1 DEF SyncedStay, SyncedKept, SameFrame
<1>12. ASSUME NEW i \in DOMAIN file, Wal!Damage(i) PROVE SyncedStay
  <2>1. /\ log_pc = "down" /\ file' = [file EXCEPT ![i].part = "damaged"]
        /\ UNCHANGED <<exists, synced, ack_seq>>
    BY <1>12 DEF Wal!Damage, Wal!acks
  <2>2. /\ file \in Seq(FrameSet) /\ Len(file) \in Nat /\ DOMAIN file = 1 .. Len(file)
        /\ exists => synced <= Len(file)
    BY DEF LogInv, LogTypes, Media
  <2>3. file[i] \in FrameSet
    BY <2>2
  <2>4. /\ file' = [file EXCEPT ![i] = [file[i] EXCEPT !.part = "damaged"]]
        /\ Len(file') = Len(file)
    BY <2>1, <2>2
  <2>5. \A j \in 1 .. Len(file) : /\ SameFrame(file'[j], file[j])
                                  /\ file'[j].part \in {file[j].part, "damaged"}
    BY <2>2, <2>3, <2>4 DEF SameFrame, FrameSet
  <2> QED BY <1>0, <2>1, <2>2, <2>4, <2>5 DEF SyncedStay
<1>13. CASE Wal!Reopen
  <2>1. UNCHANGED <<file, exists, synced, ack_seq>>
    BY <1>13 DEF Wal!Reopen, Wal!media, Wal!acks
  <2> QED BY <1>0, <2>1, FileStays
<1> QED BY <1>1, <1>2, <1>3, <1>4, <1>5, <1>6, <1>7, <1>8, <1>9, <1>10, <1>11, <1>12, <1>13
        DEF Wal!Next

-------------------------------------------------------------------------------
(* Theorems. *)

\* A process that publishes takes the steps of Publish; one that uses the log, none.
LEMMA FileRuns == SSpec => Spec
<1>1. SInit => Init
  BY DEF SInit
<1>2. [SNext]_storageVars => [Next]_vars
  BY DEF SNext, storageVars
<1> QED BY <1>1, <1>2, PTL DEF SSpec, Spec

\* The strengthened invariant of publication holds in every reachable state.
LEMMA Invariance == Spec => []IInv
<1>1. IInv /\ [Next]_vars => IInv'
  BY TypeStep, WriterStep, ProgressStep, OverwritingStep, ReplacingStep DEF IInv
<1>2. QED
  BY InitIInv, <1>1, PTL DEF Spec

\* The variables of a publication keep their types.
THEOREM TypeCorrect == SSpec => []TypeOK
<1>1. IInv => TypeOK
  BY DEF IInv
<1>2. QED
  BY FileRuns, Invariance, <1>1, PTL

\* With replace a reader finds a complete document under the target's name, before
\* and after any crash, however many documents of whatever size are published.
THEOREM ReplacementIsAtomic == SSpec => []ReplaceIsAtomic
<1>1. IInv => ReplaceIsAtomic
  BY DEF IInv, TypeOK, Writer, Replacing, Settled, ReplaceIsAtomic
<1>2. QED
  BY FileRuns, Invariance, <1>1, PTL

\* A publication that returned 0, by any of the three ways, is on the disk.
THEOREM PublicationIsDurable == SSpec => []PublishedIsDurable
<1>1. IInv => PublishedIsDurable
  BY DEF IInv, TypeOK, Writer, Replacing, Overwriting, Settled, PublishedIsDurable
<1>2. QED
  BY FileRuns, Invariance, <1>1, PTL

\* The log's invariant holds in every reachable state.
LEMMA LogInvariance == SSpec => [](LogInv /\ Placed)
<1>1. SInit => LogInv /\ Placed
  BY LogInit, PlacedInit DEF SInit
<1>2. [SNext]_storageVars => [Wal!Next]_logVars
  BY DEF SNext, storageVars
<1>3. (LogInv /\ Placed) /\ [SNext]_storageVars => (LogInv /\ Placed)'
  BY <1>2, LogStep, PlacedStep
<1> QED BY <1>1, <1>3, PTL DEF SSpec

\* A revision acknowledged after a checked sync survives: whatever a kill or a loss of
\* power tears or drops behind it, recovery returns it or one selected after it, unless
\* recover_check's file is lost with the name it did not sync.
THEOREM AcknowledgedRevisionsSurvive == SSpec => []AckSurvives
<1>1. LogInv => AckSurvives
  BY AcknowledgedSurvives DEF AckSurvives
<1> QED BY LogInvariance, <1>1, PTL

\* Recovery makes nothing up: every revision it returns is the writer's, its status
\* tells how the file ends, and a history is not replayed over another base.
THEOREM RecoveriesAreTruthful == SSpec => []RecoveryIsTruthful
<1>1. LogInv => RecoveryIsTruthful
  BY RevisionsAreReached, StatusIsTruthful DEF RecoveryIsTruthful
<1> QED BY LogInvariance, <1>1, PTL

\* Sealed groups end on pages, padding fits its buffer, and bench stays in the space it
\* reserved.
THEOREM GroupsArePlaced == SSpec => []GroupsPlaced
<1>1. Placed => GroupsPlaced
  BY DEF Placed, GroupsPlaced
<1> QED BY LogInvariance, <1>1, PTL

\* The durable prefix only grows: no step takes back a sync or an acknowledgement, and
\* while the file has its name no write, crash or reopening changes a frame in front of
\* the last sync, except that the medium may damage it.  bench's file keeps its name once
\* anything is acknowledged (AcknowledgedRevisionsSurvive); recover_check's may lose it until
\* the directory is synced.
THEOREM SyncedFramesStay == SSpec => [][SyncedStay]_logVars
<1>1. [SNext]_storageVars => [Wal!Next]_logVars
  BY DEF SNext, storageVars
<1>2. LogInv /\ [SNext]_storageVars => [SyncedStay]_logVars
  BY <1>1, StayStep
<1> QED BY LogInvariance, <1>2, PTL DEF SSpec
===============================================================================
