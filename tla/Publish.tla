-------------------------------- MODULE Publish --------------------------------
(***************************************************************************)
(* Writing a whole document over the published one: persist_full and       *)
(* child_commit of prototypes/saving/storage_bench.c.  "replace" writes a  *)
(* temporary file, syncs it, renames it over the target and syncs the      *)
(* directory; "direct" overwrites the target in place and "truncate"       *)
(* (child_commit without replace) empties it first.  The page cache may    *)
(* reach the disk block by block at any time.                              *)
(***************************************************************************)
EXTENDS Integers

CONSTANTS
  Kinds,   \* the ways of publishing to try
  Groups,  \* bound: documents published
  Blocks   \* blocks of a document

ASSUME PublishAssumption ==
  /\ Kinds \subseteq {"replace", "direct", "truncate"}
  /\ Groups \in Nat
  /\ Blocks \in Nat \ {0}

VARIABLES
  kind,
  cache, disk,            \* of every inode: the version each block holds
  name, disk_name,        \* the inode the target's name leads to
  pc, group, done,        \* the writer: its document, the blocks it has written
  published               \* the last document whose publication returned 0

vars == <<kind, cache, disk, name, disk_name, pc, group, done, published>>

Absent == -1  \* the file does not have this block
Inodes == 0 .. Groups
Empty == [b \in 1 .. Blocks |-> Absent]

\* Inode 0 is the original target, inode g the temporary file of group g.
Target == IF kind = "replace" THEN group ELSE name

Init ==
  /\ kind \in Kinds
  /\ cache = [i \in Inodes |-> IF i = 0 THEN [b \in 1 .. Blocks |-> 0] ELSE Empty]
  /\ disk = cache
  /\ name = 0 /\ disk_name = 0
  /\ pc = "idle" /\ group = 0 /\ done = 0
  /\ published = 0

\* open: O_CREAT | O_EXCL of a fresh temporary, or the target itself.
Open ==
  /\ pc = "idle" /\ pc' = "write"
  /\ group < Groups
  /\ group' = group + 1
  /\ done' = 0
  /\ cache' = IF kind = "truncate" THEN [cache EXCEPT ![name] = Empty] ELSE cache
  /\ UNCHANGED <<kind, disk, name, disk_name, published>>

WriteBlock ==
  /\ pc = "write" /\ done < Blocks
  /\ cache' = [cache EXCEPT ![Target][done + 1] = group]
  /\ done' = done + 1
  /\ UNCHANGED <<kind, disk, name, disk_name, pc, group, published>>

\* Mutant: the file is published before its data is synced.
SyncSkipped ==
  /\ pc = "write" /\ done = Blocks
  /\ pc' = IF kind = "replace" THEN "rename" ELSE "idle"
  /\ published' = IF kind = "replace" THEN published ELSE group
  /\ UNCHANGED <<kind, cache, disk, name, disk_name, group, done>>

\* fsync of the file, then close; without replace that is the publication.
Sync ==
  /\ pc = "write" /\ done = Blocks
  /\ disk' = [disk EXCEPT ![Target] = cache[Target]]
  /\ pc' = IF kind = "replace" THEN "rename" ELSE "idle"
  /\ published' = IF kind = "replace" THEN published ELSE group
  /\ UNCHANGED <<kind, cache, name, disk_name, group, done>>

\* Mutant: the publication returns without syncing the directory.
RenameOnly ==
  /\ pc = "rename" /\ pc' = "idle"
  /\ name' = group
  /\ published' = group
  /\ UNCHANGED <<kind, cache, disk, disk_name, group, done>>

Rename ==
  /\ pc = "rename" /\ pc' = "sync_dir"
  /\ name' = group
  /\ UNCHANGED <<kind, cache, disk, disk_name, group, done, published>>

SyncDir ==
  /\ pc = "sync_dir" /\ pc' = "idle"
  /\ disk_name' = name
  /\ published' = group
  /\ UNCHANGED <<kind, cache, disk, name, group, done>>

\* Any call fails, or the process exits at one of its checkpoints.
Stop ==
  /\ pc # "down" /\ pc' = "down"
  /\ UNCHANGED <<kind, cache, disk, name, disk_name, group, done, published>>

\* The kernel writes back what it likes.
WriteBack(i, b) ==
  /\ disk[i][b] # cache[i][b]
  /\ disk' = [disk EXCEPT ![i][b] = cache[i][b]]
  /\ UNCHANGED <<kind, cache, name, disk_name, pc, group, done, published>>

WriteBackName ==
  /\ disk_name # name /\ disk_name' = name
  /\ UNCHANGED <<kind, cache, disk, name, pc, group, done, published>>

PowerLoss ==
  /\ pc' = "down"
  /\ cache' = disk /\ name' = disk_name
  /\ UNCHANGED <<kind, disk, disk_name, group, done, published>>

Next ==
  \/ Open \/ WriteBlock \/ Sync \/ Rename \/ SyncDir \/ Stop
  \/ \E i \in Inodes, b \in 1 .. Blocks : WriteBack(i, b)
  \/ WriteBackName \/ PowerLoss

Spec == Init /\ [][Next]_vars

-------------------------------------------------------------------------------
(* Properties. *)

Contents == [1 .. Blocks -> {Absent} \cup 0 .. Groups]

TypeOK ==
  /\ kind \in {"replace", "direct", "truncate"}
  /\ cache \in [Inodes -> Contents] /\ disk \in [Inodes -> Contents]
  /\ name \in 0 .. group /\ disk_name \in 0 .. name
  /\ pc \in {"idle", "write", "rename", "sync_dir", "down"}
  /\ group \in 0 .. Groups /\ done \in 0 .. Blocks
  /\ published \in 0 .. group

Whole(content, version) == \A b \in 1 .. Blocks : content[b] = version

\* A reader, before or after any crash, finds a complete document under the
\* target's name when it is replaced, and it is the last one published or the one
\* being published ("point < 4 ? base : c").
ReplaceIsAtomic ==
  kind = "replace" =>
    /\ \E v \in {published, group} : Whole(cache[name], v)
    /\ \E v \in {published, group} : Whole(disk[disk_name], v)

\* A publication that returned 0 is on the disk under the target's name until the
\* next one begins, in place or replaced: "durable" is checked fsync either way.
PublishedIsDurable ==
  pc = "idle" => Whole(disk[disk_name], published) /\ Whole(cache[name], published)
===============================================================================
