-------------------------------- MODULE Storage --------------------------------
(***************************************************************************)
(* One process of prototypes/saving/storage_bench.c: its method is either  *)
(* the history of WalStore or one of the whole-file writers of Publish.    *)
(* Only the chosen method takes steps.                                     *)
(***************************************************************************)
EXTENDS Publish, Sequences

CONSTANTS
  Modes, Base, OtherBase, MaxSeq, MaxDirect, MaxEdits, Batch, HDR, Page, Chunk  \* of WalStore

ASSUME StoreAssumption ==
  /\ Modes \subseteq {"direct", "packed", "aligned"}
  /\ Base \in Seq(Nat) /\ OtherBase \in Seq(Nat) /\ Base # OtherBase
  /\ MaxSeq \in Nat /\ MaxDirect \in 0 .. MaxSeq /\ MaxEdits \in Nat /\ Batch \in Nat \ {0}
  /\ HDR \in Nat \ {0} /\ Page \in Nat /\ Page >= HDR
  /\ Chunk \in Nat /\ (Chunk > 0 => Chunk >= HDR + 40)  \* a chunk holds the base frame

VARIABLES
  method,                               \* "log" or "whole"
  mode, file, exists, synced, dir_synced, reserved,  \* of WalStore; its pc is log_pc
  log_pc, staging, seq, head, ack, ack_seq, docs

logVars == <<mode, file, exists, synced, dir_synced, reserved, log_pc, staging, seq, head,
             ack, ack_seq, docs>>
storageVars == <<method, vars, logVars>>

Wal == INSTANCE WalStore WITH pc <- log_pc

\* What the method that is not chosen would start as does not matter.
SInit ==
  /\ method \in {"log", "whole"}
  /\ Init /\ Wal!Init
  /\ method = "log" => kind = CHOOSE k \in Kinds : TRUE
  /\ method = "whole" => mode = CHOOSE m \in Modes : TRUE

SNext ==
  \/ method = "log" /\ Wal!Next /\ UNCHANGED <<method, vars>>
  \/ method = "whole" /\ Next /\ UNCHANGED <<method, logVars>>

SSpec == SInit /\ [][SNext]_storageVars

-------------------------------------------------------------------------------
(* Properties, beside those of Publish. *)

\* "Durable revision acknowledged only after checked sync": whatever is torn or
\* lost at a crash, but for recover_check's file that is lost with its name, recovery
\* selects the acknowledged revision or one selected after it, and every frame up to
\* the acknowledged HEAD is recovered.
AckSurvives == Wal!AckSurvives

\* recover never makes anything up: every revision it returns, on whatever branch,
\* materializes to the document the writer had when it made it, its status tells a
\* clean end from a torn tail from corruption, and a history is never replayed over
\* a base that is not its own.
RecoveryIsTruthful == Wal!RevisionsReachable /\ Wal!StatusTruthful

\* Each sealed group ends on a page boundary, its padding fits the buffer it is
\* written from, and bench never writes past the space it reserved.
GroupsPlaced == Wal!GroupsPlaced
===============================================================================
