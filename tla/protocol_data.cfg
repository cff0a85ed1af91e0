\* The messages of the APIs, a batch and its way back, the assignment of a
\* group, and the calls of an admin client.
CONSTANTS
    t1 = t1  t2 = t2  g1 = g1  g2 = g2  n1 = n1  n2 = n2  c1 = c1  c2 = c2
    Called <- AllApis
    Grammars <- AllGrammars
    Shapes <- AllShapes
    Miswritten = {"AlterPartitionV3", "AlterUserScramCredentialsV0"}
    Misread = {"AlterPartitionV3", "ConsumerGroupDescribeV0", "ConsumerGroupHeartbeatV0",
               "DescribeConfigsV4", "OffsetDeleteV0"}
    Mislocated = {"DescribeProducersV0"}
    Batches <- SmallBatches
    GroupMembers = {m1, m2}
    GroupTopics = {t1, t2}
    Sizes = {1, 3}
    MaxCalls = 3
    MaxRounds = 2
    AdminCalls = {c1, c2}
    Plans <- TwoCalls
    Clusters <- ThreeClusters
    AdminTopics = {t1, t2}
    AdminGroups = {g1, g2}
    AdminNodes = {n1, n2}
    AdminRetries = 1
    MaxLosses = 1
    MaxMoves = 1
SPECIFICATION Spec
INVARIANTS
    MessagesAsDocumented
    ErrorsReported
    RecordsReadBack
    ChecksumOfWhatIsSent
PROPERTIES
    PartitionsShared
    OkMeansDone
    EveryAdminCallSettles
CHECK_DEADLOCK FALSE
