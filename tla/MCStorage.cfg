SPECIFICATION SSpec
CONSTANT Modes = {"direct", "packed", "aligned"}
CONSTANT Base <- MCBase
CONSTANT OtherBase <- MCOtherBase
CONSTANT MaxSeq = 14
CONSTANT MaxDirect = 6
CONSTANT MaxEdits = 2
CONSTANT Batch = 2
CONSTANT HDR = 40
CONSTANT Page = 128
CONSTANT Chunk = 256
CONSTANT Kinds = {"replace", "direct", "truncate"}
CONSTANT Groups = 3
CONSTANT Blocks = 3
CHECK_DEADLOCK FALSE
INVARIANT AckSurvives
INVARIANT RecoveryIsTruthful
INVARIANT GroupsPlaced
INVARIANT ReplaceIsAtomic
INVARIANT PublishedIsDurable
