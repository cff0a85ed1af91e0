------------------------------ MODULE GroupApis -----------------------------
(***************************************************************************)
(* What createRequest() writes and parseResponse() reads, in order, for the *)
(* APIs of src/src/apis/consumer.                                          *)
(***************************************************************************)
EXTENDS Apis

\* apis/consumer/consumer-group-heartbeat-v0.ts
ConsumerGroupHeartbeatV0Request == <<
    Str("groupId"), Str("memberId"), Int32("memberEpoch"), NullStr("instanceId"),
    NullStr("rackId"), Int32("rebalanceTimeoutMs"),
    NullItems("subscribedTopicNames", Str), NullStr("serverAssignor"),
    Rows("topicPartitions", <<Uuid("topicId"), Items("partitions", Int32)>>), Tags>>
ConsumerGroupHeartbeatV0Response == <<
    Int32("throttleTimeMs"), ErrorCode("errorCode"), NullStr("errorMessage"),
    NullStr("memberId"), Int32("memberEpoch"), Int32("heartbeatIntervalMs"),
    Rows("assignment", <<
        Rows("topicPartitions", <<Uuid("topicId"), Items("partitions", Int32)>>)>>)>>
ConsumerGroupHeartbeatV0 == Api(68, 0, ConsumerGroupHeartbeatV0Request, ConsumerGroupHeartbeatV0Response)

\* apis/consumer/fetch-v15.ts
FetchV15Request == <<
    Int32("maxWaitMs"), Int32("minBytes"), Int32("maxBytes"), Int8("isolationLevel"),
    Int32("sessionId"), Int32("sessionEpoch"),
    Rows("topics", <<
        Uuid("topicId"),
        Rows("partitions", <<
            Int32("partition"), Int32("currentLeaderEpoch"), Int64("fetchOffset"),
            Int32("lastFetchedEpoch"), Fixed(Int64("logStartOffset")),
            Int32("partitionMaxBytes")>>)>>),
    Rows("forgottenTopicsData", <<Uuid("topicId"), Items("partitions", Int32)>>),
    Str("rackId"), Tags>>
FetchV15Response == <<
    Int32("throttleTimeMs"), ErrorCode("errorCode"), Int32("sessionId"),
    Rows("responses", <<
        Uuid("topicId"),
        Rows("partitions", <<
            Int32("partitionIndex"), ErrorCode("errorCode"), Int64("highWatermark"),
            Int64("lastStableOffset"), Int64("logStartOffset"),
            Rows("abortedTransactions", <<
                Int64("producerId"), Int64("firstOffset")>>),
            Int32("preferredReadReplica"), Records("records")>>)>>)>>
FetchV15 == Api(1, 15, FetchV15Request, FetchV15Response)

\* apis/consumer/fetch-v16.ts
FetchV16Request == FetchV15Request
FetchV16Response == FetchV15Response
FetchV16 == Api(1, 16, FetchV16Request, FetchV16Response)

\* apis/consumer/fetch-v17.ts
FetchV17Request == FetchV15Request
FetchV17Response == FetchV15Response
FetchV17 == Api(1, 17, FetchV17Request, FetchV17Response)

\* apis/consumer/heartbeat-v4.ts
HeartbeatV4Request == <<
    Str("groupId"), Int32("generationId"), Str("memberId"),
    NullStr("groupInstanceId"), Tags>>
HeartbeatV4Response == <<Int32("throttleTimeMs"), ErrorCode("errorCode")>>
HeartbeatV4 == Api(12, 4, HeartbeatV4Request, HeartbeatV4Response)

\* apis/consumer/join-group-v9.ts
JoinGroupV9Request == <<
    Str("groupId"), Int32("sessionTimeoutMs"), Int32("rebalanceTimeoutMs"),
    Str("memberId"), NullStr("groupInstanceId"), Str("protocolType"),
    Rows("protocols", <<Str("name"), Buf("metadata")>>), NullStr("reason"), Tags>>
JoinGroupV9Response == <<
    Int32("throttleTimeMs"), ErrorCode("errorCode"), Int32("generationId"),
    NullStr("protocolType"), NullStr("protocolName"), Str("leader"),
    Bool("skipAssignment"), NullStr("memberId"),
    Rows("members", <<
        Str("memberId"), NullStr("groupInstanceId"), NullBuf("metadata")>>)>>
JoinGroupV9 == Api(11, 9, JoinGroupV9Request, JoinGroupV9Response)

\* apis/consumer/leave-group-v5.ts
LeaveGroupV5Request == <<
    Str("groupId"),
    Rows("members", <<
        Str("memberId"), NullStr("groupInstanceId"), NullStr("reason")>>),
    Tags>>
LeaveGroupV5Response == <<
    Int32("throttleTimeMs"), ErrorCode("errorCode"),
    Rows("members", <<
        NullStr("memberId"), NullStr("groupInstanceId"), ErrorCode("errorCode")>>)>>
LeaveGroupV5 == Api(13, 5, LeaveGroupV5Request, LeaveGroupV5Response)

\* apis/consumer/list-offsets-v8.ts
ListOffsetsV8Request == <<
    Int32("replicaId"), Int8("isolationLevel"),
    Rows("topics", <<
        Str("name"),
        Rows("partitions", <<
            Int32("partitionIndex"), Int32("currentLeaderEpoch"),
            Int64("timestamp")>>)>>),
    Tags>>
ListOffsetsV8Response == <<
    Int32("throttleTimeMs"),
    Rows("topics", <<
        Str("name"),
        Rows("partitions", <<
            Int32("partitionIndex"), ErrorCode("errorCode"), Int64("timestamp"),
            Int64("offset"), Int32("leaderEpoch")>>)>>)>>
ListOffsetsV8 == Api(2, 8, ListOffsetsV8Request, ListOffsetsV8Response)

\* apis/consumer/list-offsets-v9.ts
ListOffsetsV9Request == ListOffsetsV8Request
ListOffsetsV9Response == ListOffsetsV8Response
ListOffsetsV9 == Api(2, 9, ListOffsetsV9Request, ListOffsetsV9Response)

\* apis/consumer/offset-commit-v8.ts
OffsetCommitV8Request == <<
    Str("groupId"), Int32("generationIdOrMemberEpoch"), Str("memberId"),
    NullStr("groupInstanceId"),
    Rows("topics", <<
        Str("name"),
        Rows("partitions", <<
            Int32("partitionIndex"), Int64("committedOffset"),
            Int32("committedLeaderEpoch"), NullStr("committedMetadata")>>)>>),
    Tags>>
OffsetCommitV8Response == <<
    Int32("throttleTimeMs"),
    Rows("topics", <<
        Str("name"),
        Rows("partitions", <<Int32("partitionIndex"), ErrorCode("errorCode")>>)>>)>>
OffsetCommitV8 == Api(8, 8, OffsetCommitV8Request, OffsetCommitV8Response)

\* apis/consumer/offset-commit-v9.ts
OffsetCommitV9Request == OffsetCommitV8Request
OffsetCommitV9Response == OffsetCommitV8Response
OffsetCommitV9 == Api(8, 9, OffsetCommitV9Request, OffsetCommitV9Response)

\* apis/consumer/offset-fetch-v8.ts
OffsetFetchV8Request == <<
    Rows("groups", <<
        Str("groupId"),
        Rows("topics", <<Str("name"), Items("partitionIndexes", Int32)>>)>>),
    Bool("requireStable"), Tags>>
OffsetFetchV8Response == <<
    Int32("throttleTimeMs"),
    Rows("groups", <<
        Str("groupId"),
        Rows("topics", <<
            Str("name"),
            Rows("partitions", <<
                Int32("partitionIndex"), Int64("committedOffset"),
                Int32("committedLeaderEpoch"), NullStr("metadata"),
                ErrorCode("errorCode")>>)>>),
        ErrorCode("errorCode")>>)>>
OffsetFetchV8 == Api(9, 8, OffsetFetchV8Request, OffsetFetchV8Response)

\* apis/consumer/offset-fetch-v9.ts
OffsetFetchV9Request == <<
    Rows("groups", <<
        Str("groupId"), NullStr("memberId"), Int32("memberEpoch"),
        Rows("topics", <<Str("name"), Items("partitionIndexes", Int32)>>)>>),
    Bool("requireStable"), Tags>>
OffsetFetchV9Response == OffsetFetchV8Response
OffsetFetchV9 == Api(9, 9, OffsetFetchV9Request, OffsetFetchV9Response)

\* apis/consumer/sync-group-v5.ts
SyncGroupV5Request == <<
    Str("groupId"), Int32("generationId"), Str("memberId"),
    NullStr("groupInstanceId"), NullStr("protocolType"), NullStr("protocolName"),
    Rows("assignments", <<Str("memberId"), Buf("assignment")>>), Tags>>
SyncGroupV5Response == <<
    Int32("throttleTimeMs"), ErrorCode("errorCode"), NullStr("protocolType"),
    NullStr("protocolName"), Buf("assignment")>>
SyncGroupV5 == Api(14, 5, SyncGroupV5Request, SyncGroupV5Response)

AllGroupApis == [
    ConsumerGroupHeartbeatV0 |-> ConsumerGroupHeartbeatV0, FetchV15 |-> FetchV15,
    FetchV16 |-> FetchV16, FetchV17 |-> FetchV17, HeartbeatV4 |-> HeartbeatV4,
    JoinGroupV9 |-> JoinGroupV9, LeaveGroupV5 |-> LeaveGroupV5,
    ListOffsetsV8 |-> ListOffsetsV8, ListOffsetsV9 |-> ListOffsetsV9,
    OffsetCommitV8 |-> OffsetCommitV8, OffsetCommitV9 |-> OffsetCommitV9,
    OffsetFetchV8 |-> OffsetFetchV8, OffsetFetchV9 |-> OffsetFetchV9,
    SyncGroupV5 |-> SyncGroupV5]
=============================================================================
