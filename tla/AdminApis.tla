------------------------------ MODULE AdminApis -----------------------------
(***************************************************************************)
(* What createRequest() writes and parseResponse() reads, in order, for the *)
(* APIs of src/src/apis/admin.                                             *)
(***************************************************************************)
EXTENDS Apis

\* apis/admin/alter-client-quotas-v1.ts
AlterClientQuotasV1Request == <<
    Rows("entries", <<
        Rows("entity", <<Str("entityType"), NullStr("entityName")>>),
        Rows("ops", <<Str("key"), Float64("value"), Bool("remove")>>)>>),
    Bool("validateOnly"), Tags>>
AlterClientQuotasV1Response == <<
    Int32("throttleTimeMs"),
    Rows("entries", <<
        ErrorCode("errorCode"), NullStr("errorMessage"),
        Rows("entity", <<Str("entityType"), NullStr("entityName")>>)>>)>>
AlterClientQuotasV1 == Api(49, 1, AlterClientQuotasV1Request, AlterClientQuotasV1Response)

\* apis/admin/alter-configs-v2.ts
AlterConfigsV2Request == <<
    Rows("resources", <<
        Int8("resourceType"), Str("resourceName"),
        Rows("configs", <<Str("name"), NullStr("value")>>)>>),
    Bool("validateOnly"), Tags>>
AlterConfigsV2Response == <<
    Int32("throttleTimeMs"),
    Rows("responses", <<
        ErrorCode("errorCode"), NullStr("errorMessage"), Int8("resourceType"),
        Str("resourceName")>>)>>
AlterConfigsV2 == Api(33, 2, AlterConfigsV2Request, AlterConfigsV2Response)

\* apis/admin/alter-partition-reassignments-v0.ts
AlterPartitionReassignmentsV0Request == <<
    Int32("timeoutMs"),
    Rows("topics", <<
        Str("name"),
        Rows("partitions", <<Int32("partitionIndex"), Items("replicas", Int32)>>)>>),
    Tags>>
AlterPartitionReassignmentsV0Response == <<
    Int32("throttleTimeMs"), ErrorCode("errorCode"), NullStr("errorMessage"),
    Rows("responses", <<
        Str("name"),
        Rows("partitions", <<
            Int32("partitionIndex"), ErrorCode("errorCode"),
            NullStr("errorMessage")>>)>>)>>
AlterPartitionReassignmentsV0 == Api(45, 0, AlterPartitionReassignmentsV0Request, AlterPartitionReassignmentsV0Response)

\* apis/admin/alter-partition-v3.ts
AlterPartitionV3Request == <<
    Int32("brokerId"), Int64("brokerEpoch"),
    Rows("topics", <<
        Str("topicId"),
        Rows("partitions", <<
            Int32("partitionIndex"), Int32("leaderEpoch"),
            Rows("newIsrWithEpochs", <<Int32("brokerId"), Int64("brokerEpoch")>>),
            Int8("leaderRecoveryState"), Int32("partitionEpoch")>>)>>),
    Tags>>
AlterPartitionV3Response == <<
    Int32("throttleTimeMs"), ErrorCode("errorCode"),
    Rows("topics", <<
        Str("topicId"),
        Rows("partitions", <<
            Int32("partitionIndex"), ErrorCode("errorCode"), Int32("leaderId"),
            Int32("leaderEpoch"), Int32("isr"), Int8("leaderRecoveryState"),
            Int32("partitionEpoch")>>)>>)>>
AlterPartitionV3 == Api(56, 3, AlterPartitionV3Request, AlterPartitionV3Response)

\* apis/admin/alter-replica-log-dirs-v2.ts
AlterReplicaLogDirsV2Request == <<
    Rows("dirs", <<
        Str("path"),
        Rows("topics", <<Str("name"), Items("partitions", Int32)>>)>>),
    Tags>>
AlterReplicaLogDirsV2Response == <<
    Int32("throttleTimeMs"),
    Rows("results", <<
        Str("topicName"),
        Rows("partitions", <<Int32("partitionIndex"), ErrorCode("errorCode")>>)>>)>>
AlterReplicaLogDirsV2 == Api(34, 2, AlterReplicaLogDirsV2Request, AlterReplicaLogDirsV2Response)

\* apis/admin/alter-user-scram-credentials-v0.ts
AlterUserScramCredentialsV0Request == <<
    Rows("deletions", <<Str("name"), Int8("mechanism")>>),
    Rows("upsertions", <<
        Str("name"), Int8("mechanism"), Int32("iterations"), Buf("salt"),
        Buf("saltedPassword")>>),
    Tags, Tags>>
AlterUserScramCredentialsV0Response == <<
    Int32("throttleTimeMs"),
    Rows("results", <<
        Str("user"), ErrorCode("errorCode"), NullStr("errorMessage")>>)>>
AlterUserScramCredentialsV0 == Api(51, 0, AlterUserScramCredentialsV0Request, AlterUserScramCredentialsV0Response)

\* apis/admin/consumer-group-describe-v0.ts
ConsumerGroupDescribeV0Request == <<
    Items("groupIds", Str), Bool("includeAuthorizedOperations"), Tags>>
ConsumerGroupDescribeV0Response == <<
    Int32("throttleTimeMs"),
    Rows("groups", <<
        ErrorCode("errorCode"), NullStr("errorMessage"), Str("groupId"),
        Str("groupState"), Int32("groupEpoch"), Int32("assignmentEpoch"),
        Str("assignorName"),
        Rows("members", <<
            Str("memberId"), NullStr("instanceId"), NullStr("rackId"),
            Int32("memberEpoch"), Str("clientId"), Str("clientHost"),
            Str("subscribedTopicNames"), NullStr("subscribedTopicRegex"),
            Struct("assignment", <<
                Rows("topicPartitions", <<
                    Uuid("topicId"), Str("topicName"),
                    Items("partitions", Int32)>>)>>),
            Struct("targetAssignment", <<
                Rows("topicPartitions", <<
                    Uuid("topicId"), Str("topicName"),
                    Items("partitions", Int32)>>)>>)>>),
        Int32("authorizedOperations")>>)>>
ConsumerGroupDescribeV0 == Api(69, 0, ConsumerGroupDescribeV0Request, ConsumerGroupDescribeV0Response)

\* apis/admin/create-acls-v3.ts
CreateAclsV3Request == <<
    Rows("creations", <<
        Int8("resourceType"), Str("resourceName"), Int8("resourcePatternType"),
        Str("principal"), Str("host"), Int8("operation"), Int8("permissionType")>>),
    Tags>>
CreateAclsV3Response == <<
    Int32("throttleTimeMs"),
    Rows("results", <<ErrorCode("errorCode"), NullStr("errorMessage")>>)>>
CreateAclsV3 == Api(30, 3, CreateAclsV3Request, CreateAclsV3Response)

\* apis/admin/create-delegation-token-v3.ts
CreateDelegationTokenV3Request == <<
    NullStr("ownerPrincipalType"), NullStr("ownerPrincipalName"),
    Rows("renewers", <<Str("principalType"), Str("principalName")>>),
    Int64("maxLifetimeMs"), Tags>>
CreateDelegationTokenV3Response == <<
    ErrorCode("errorCode"), Str("principalType"), Str("principalName"),
    Str("tokenRequesterPrincipalType"), Str("tokenRequesterPrincipalName"),
    Int64("issueTimestampMs"), Int64("expiryTimestampMs"), Int64("maxTimestampMs"),
    Str("tokenId"), Buf("hmac"), Int32("throttleTimeMs")>>
CreateDelegationTokenV3 == Api(38, 3, CreateDelegationTokenV3Request, CreateDelegationTokenV3Response)

\* apis/admin/create-partitions-v3.ts
CreatePartitionsV3Request == <<
    Rows("topics", <<
        Str("name"), Int32("count"),
        Rows("assignments", <<Items("brokerIds", Int32)>>)>>),
    Int32("timeoutMs"), Bool("validateOnly"), Tags>>
CreatePartitionsV3Response == <<
    Int32("throttleTimeMs"),
    Rows("results", <<
        Str("name"), ErrorCode("errorCode"), NullStr("errorMessage")>>)>>
CreatePartitionsV3 == Api(37, 3, CreatePartitionsV3Request, CreatePartitionsV3Response)

\* apis/admin/create-topics-v7.ts
CreateTopicsV7Request == <<
    Rows("topics", <<
        Str("name"), Int32("numPartitions"), Int16("replicationFactor"),
        Rows("assignments", <<Int32("partitionIndex"), Items("brokerIds", Int32)>>),
        Rows("configs", <<Str("name"), NullStr("value")>>)>>),
    Int32("timeoutMs"), Bool("validateOnly"), Tags>>
CreateTopicsV7Response == <<
    Int32("throttleTimeMs"),
    Rows("topics", <<
        Str("name"), Uuid("topicId"), ErrorCode("errorCode"), NullStr("errorMessage"),
        Int32("numPartitions"), Int16("replicationFactor"),
        Rows("configs", <<
            Str("name"), NullStr("value"), Bool("readOnly"), Int8("configSource"),
            Bool("isSensitive")>>)>>)>>
CreateTopicsV7 == Api(19, 7, CreateTopicsV7Request, CreateTopicsV7Response)

\* apis/admin/delete-acls-v3.ts
DeleteAclsV3Request == <<
    Rows("filters", <<
        Int8("resourceTypeFilter"), NullStr("resourceNameFilter"),
        Int8("patternTypeFilter"), NullStr("principalFilter"), NullStr("hostFilter"),
        Int8("operation"), Int8("permissionType")>>),
    Tags>>
DeleteAclsV3Response == <<
    Int32("throttleTimeMs"),
    Rows("filterResults", <<
        ErrorCode("errorCode"), NullStr("errorMessage"),
        Rows("matchingAcls", <<
            ErrorCode("errorCode"), NullStr("errorMessage"), Int8("resourceType"),
            Str("resourceName"), Int8("patternType"), Str("principal"), Str("host"),
            Int8("operation"), Int8("permissionType")>>)>>)>>
DeleteAclsV3 == Api(31, 3, DeleteAclsV3Request, DeleteAclsV3Response)

\* apis/admin/delete-groups-v2.ts
DeleteGroupsV2Request == <<Items("groupsNames", Str), Tags>>
DeleteGroupsV2Response == <<
    Int32("throttleTimeMs"),
    Rows("results", <<Str("groupId"), ErrorCode("errorCode")>>)>>
DeleteGroupsV2 == Api(42, 2, DeleteGroupsV2Request, DeleteGroupsV2Response)

\* apis/admin/delete-records-v2.ts
DeleteRecordsV2Request == <<
    Rows("topics", <<
        Str("name"),
        Rows("partitions", <<Int32("partitionIndex"), Int64("offset")>>)>>),
    Int32("timeoutMs"), Tags>>
DeleteRecordsV2Response == <<
    Int32("throttleTimeMs"),
    Rows("topics", <<
        Str("name"),
        Rows("partitions", <<
            Int32("partitionIndex"), Int64("lowWatermark"),
            ErrorCode("errorCode")>>)>>)>>
DeleteRecordsV2 == Api(21, 2, DeleteRecordsV2Request, DeleteRecordsV2Response)

\* apis/admin/delete-topics-v6.ts
DeleteTopicsV6Request == <<
    Rows("topics", <<Str("name"), NullUuid("topicId")>>), Int32("timeoutMs"), Tags>>
DeleteTopicsV6Response == <<
    Int32("throttleTimeMs"),
    Rows("responses", <<
        NullStr("name"), Uuid("topicId"), ErrorCode("errorCode"),
        NullStr("errorMessage")>>)>>
DeleteTopicsV6 == Api(20, 6, DeleteTopicsV6Request, DeleteTopicsV6Response)

\* apis/admin/describe-acls-v3.ts
DescribeAclsV3Request == <<
    Int8("resourceTypeFilter"), NullStr("resourceNameFilter"),
    Int8("patternTypeFilter"), NullStr("principalFilter"), NullStr("hostFilter"),
    Int8("operation"), Int8("permissionType"), Tags>>
DescribeAclsV3Response == <<
    Int32("throttleTimeMs"), ErrorCode("errorCode"), NullStr("errorMessage"),
    Rows("resources", <<
        Int8("resourceType"), Str("resourceName"), Int8("patternType"),
        Rows("acls", <<
            Str("principal"), Str("host"), Int8("operation"),
            Int8("permissionType")>>)>>)>>
DescribeAclsV3 == Api(29, 3, DescribeAclsV3Request, DescribeAclsV3Response)

\* apis/admin/describe-client-quotas-v0.ts
DescribeClientQuotasV0Request == <<
    Rows("components", <<Str("entityType"), Int8("matchType"), NullStr("match")>>),
    Bool("strict"), Tags>>
DescribeClientQuotasV0Response == <<
    Int32("throttleTimeMs"), ErrorCode("errorCode"), NullStr("errorMessage"),
    Rows("entries", <<
        Rows("entity", <<Str("entityType"), NullStr("entityName")>>),
        Rows("values", <<Str("key"), Float64("value")>>)>>)>>
DescribeClientQuotasV0 == Api(48, 1, DescribeClientQuotasV0Request, DescribeClientQuotasV0Response)

\* apis/admin/describe-cluster-v1.ts
DescribeClusterV1Request == <<
    Bool("includeClusterAuthorizedOperations"), Int8("endpointType"), Tags>>
DescribeClusterV1Response == <<
    Int32("throttleTimeMs"), ErrorCode("errorCode"), NullStr("errorMessage"),
    Int8("endpointType"), Str("clusterId"), Int32("controllerId"),
    Rows("brokers", <<
        Int32("brokerId"), Str("host"), Int32("port"), NullStr("rack")>>),
    Int32("clusterAuthorizedOperations")>>
DescribeClusterV1 == Api(60, 1, DescribeClusterV1Request, DescribeClusterV1Response)

\* apis/admin/describe-configs-v4.ts
DescribeConfigsV4Request == <<
    Rows("resources", <<
        Int8("resourceType"), Str("resourceName"), Items("configurationKeys", Str)>>),
    Bool("includeSynonyms"), Bool("includeDocumentation"), Tags>>
DescribeConfigsV4Response == <<
    Int32("throttleTimeMs"),
    Rows("results", <<
        ErrorCode("errorCode"), NullStr("errorMessage"), Int8("resourceType"),
        Str("resourceName"),
        Rows("configs", <<
            Str("name"), NullStr("value"), Bool("readOnly"), Int8("configSource"),
            Bool("isSensitive"),
            Field("ITEMS", "synonyms", <<Str("name"), NullStr("value"), Int8("source")>>),
            Int8("configType"), NullStr("documentation")>>)>>)>>
DescribeConfigsV4 == Api(32, 4, DescribeConfigsV4Request, DescribeConfigsV4Response)

\* apis/admin/describe-delegation-token-v3.ts
DescribeDelegationTokenV3Request == <<
    Rows("owners", <<Str("principalType"), Str("principalName")>>), Tags>>
DescribeDelegationTokenV3Response == <<
    ErrorCode("errorCode"),
    Rows("tokens", <<
        Str("principalType"), Str("principalName"),
        Str("tokenRequesterPrincipalType"), Str("tokenRequesterPrincipalName"),
        Int64("issueTimestamp"), Int64("expiryTimestamp"), Int64("maxTimestamp"),
        Str("tokenId"), Buf("hmac"),
        Rows("renewers", <<Str("principalType"), Str("principalName")>>)>>),
    Int32("throttleTimeMs")>>
DescribeDelegationTokenV3 == Api(41, 3, DescribeDelegationTokenV3Request, DescribeDelegationTokenV3Response)

\* apis/admin/describe-groups-v5.ts
DescribeGroupsV5Request == <<
    Items("groups", Str), Bool("includeAuthorizedOperations"), Tags>>
DescribeGroupsV5Response == <<
    Int32("throttleTimeMs"),
    Rows("groups", <<
        ErrorCode("errorCode"), Str("groupId"), Str("groupState"),
        Str("protocolType"), Str("protocolData"),
        Rows("members", <<
            Str("memberId"), NullStr("groupInstanceId"), Str("clientId"),
            Str("clientHost"), Buf("memberMetadata"), Buf("memberAssignment")>>),
        Int32("authorizedOperations")>>)>>
DescribeGroupsV5 == Api(15, 5, DescribeGroupsV5Request, DescribeGroupsV5Response)

\* apis/admin/describe-log-dirs-v4.ts
DescribeLogDirsV4Request == <<
    Rows("topics", <<Str("topic"), Items("partitions", Int32)>>), Tags>>
DescribeLogDirsV4Response == <<
    Int32("throttleTimeMs"), ErrorCode("errorCode"),
    Rows("results", <<
        ErrorCode("errorCode"), Str("logDir"),
        Rows("topics", <<
            Str("name"),
            Rows("partitions", <<
                Int32("partitionIndex"), Int64("partitionSize"), Int64("offsetLag"),
                Bool("isFutureKey")>>)>>),
        Int64("totalBytes"), Int64("usableBytes")>>)>>
DescribeLogDirsV4 == Api(35, 4, DescribeLogDirsV4Request, DescribeLogDirsV4Response)

\* apis/admin/describe-producers-v0.ts
DescribeProducersV0Request == <<
    Rows("topics", <<Str("name"), Items("partitionIndexes", Int32)>>), Tags>>
DescribeProducersV0Response == <<
    Int32("throttleTimeMs"),
    Rows("topics", <<
        Str("name"),
        Rows("partitions", <<
            Int32("partitionIndex"), InnerErrorCode("errorCode"),
            NullStr("errorMessage"),
            Rows("activeProducers", <<
                Int64("producerId"), Int32("producerEpoch"), Int32("lastSequence"),
                Int64("lastTimestamp"), Int32("coordinatorEpoch"),
                Int64("currentTxnStartOffset")>>)>>)>>)>>
DescribeProducersV0 == Api(61, 0, DescribeProducersV0Request, DescribeProducersV0Response)

\* apis/admin/describe-quorum-v2.ts
DescribeQuorumV2Request == <<
    Rows("topics", <<
        Str("topicName"), Rows("partitions", <<Int32("partitionIndex")>>)>>),
    Tags>>
DescribeQuorumV2Response == <<
    ErrorCode("errorCode"), NullStr("errorMessage"),
    Rows("topics", <<
        Str("topicName"),
        Rows("partitions", <<
            Int32("partitionIndex"), ErrorCode("errorCode"), NullStr("errorMessage"),
            Int32("leaderId"), Int32("leaderEpoch"), Int64("highWatermark"),
            Rows("currentVoters", <<
                Int32("replicaId"), Uuid("replicaDirectoryId"), Int64("logEndOffset"),
                Int64("lastFetchTimestamp"), Int64("lastCaughtUpTimestamp")>>),
            Rows("observers", <<
                Int32("replicaId"), Uuid("replicaDirectoryId"), Int64("logEndOffset"),
                Int64("lastFetchTimestamp"), Int64("lastCaughtUpTimestamp")>>)>>)>>),
    Rows("nodes", <<
        Int32("nodeId"),
        Rows("listeners", <<Str("name"), Str("host"), UInt16("port")>>)>>)>>
DescribeQuorumV2 == Api(55, 2, DescribeQuorumV2Request, DescribeQuorumV2Response)

\* apis/admin/describe-topic-partitions-v0.ts
DescribeTopicPartitionsV0Request == <<
    Rows("topics", <<Str("name")>>), Int32("responsePartitionLimit"),
    Cursor("cursor", <<Str("topicName"), Int32("partitionIndex"), Tags>>), Tags>>
DescribeTopicPartitionsV0Response == <<
    Int32("throttleTimeMs"),
    Rows("topics", <<
        ErrorCode("errorCode"), NullStr("name"), Uuid("topicId"), Bool("isInternal"),
        Rows("partitions", <<
            ErrorCode("errorCode"), Int32("partitionIndex"), Int32("leaderId"),
            Int32("leaderEpoch"), Items("replicaNodes", Int32),
            Items("isrNodes", Int32), Items("eligibleLeaderReplicas", Int32),
            Items("lastKnownElr", Int32), Items("offlineReplicas", Int32)>>),
        Int32("topicAuthorizedOperations")>>),
    Cursor("nextCursor", <<Str("topicName"), Int32("partitionIndex")>>)>>
DescribeTopicPartitionsV0 == Api(75, 0, DescribeTopicPartitionsV0Request, DescribeTopicPartitionsV0Response)

\* apis/admin/describe-transactions-v0.ts
DescribeTransactionsV0Request == <<Items("transactionalIds", Str), Tags>>
DescribeTransactionsV0Response == <<
    Int32("throttleTimeMs"),
    Rows("transactionStates", <<
        ErrorCode("errorCode"), Str("transactionalId"), Str("transactionState"),
        Int32("transactionTimeoutMs"), Int64("transactionStartTimeMs"),
        Int64("producerId"), Int16("producerEpoch"),
        Rows("topics", <<Str("topic"), Items("partitions", Int32)>>)>>)>>
DescribeTransactionsV0 == Api(65, 0, DescribeTransactionsV0Request, DescribeTransactionsV0Response)

\* apis/admin/describe-user-scram-credentials-v0.ts
DescribeUserScramCredentialsV0Request == <<Rows("users", <<Str("name")>>), Tags>>
DescribeUserScramCredentialsV0Response == <<
    Int32("throttleTimeMs"), ErrorCode("errorCode"), NullStr("errorMessage"),
    Rows("results", <<
        Str("user"), ErrorCode("errorCode"), NullStr("errorMessage"),
        Rows("credentialInfos", <<Int8("mechanism"), Int32("iterations")>>)>>)>>
DescribeUserScramCredentialsV0 == Api(50, 0, DescribeUserScramCredentialsV0Request, DescribeUserScramCredentialsV0Response)

\* apis/admin/envelope-v0.ts
EnvelopeV0Request == <<
    Buf("requestData"), NullBuf("requestPrincipal"), Buf("clientHostAddress"), Tags>>
EnvelopeV0Response == <<NullBuf("responseData"), ErrorCode("errorCode")>>
EnvelopeV0 == Api(58, 0, EnvelopeV0Request, EnvelopeV0Response)

\* apis/admin/expire-delegation-token-v2.ts
ExpireDelegationTokenV2Request == <<Buf("hmac"), Int64("expiryTimePeriodMs"), Tags>>
ExpireDelegationTokenV2Response == <<
    ErrorCode("errorCode"), Int64("expiryTimestampMs"), Int32("throttleTimeMs")>>
ExpireDelegationTokenV2 == Api(40, 2, ExpireDelegationTokenV2Request, ExpireDelegationTokenV2Response)

\* apis/admin/incremental-alter-configs-v1.ts
IncrementalAlterConfigsV1Request == <<
    Rows("resources", <<
        Int8("resourceType"), Str("resourceName"),
        Rows("configs", <<
            Str("name"), Int8("configOperation"), NullStr("value")>>)>>),
    Bool("validateOnly"), Tags>>
IncrementalAlterConfigsV1Response == AlterConfigsV2Response
IncrementalAlterConfigsV1 == Api(44, 1, IncrementalAlterConfigsV1Request, IncrementalAlterConfigsV1Response)

\* apis/admin/list-groups-v4.ts
ListGroupsV4Request == <<Items("statesFilter", Str), Tags>>
ListGroupsV4Response == <<
    Int32("throttleTimeMs"), ErrorCode("errorCode"),
    Rows("groups", <<NullStr("groupId"), Str("protocolType"), Str("groupState")>>)>>
ListGroupsV4 == Api(16, 4, ListGroupsV4Request, ListGroupsV4Response)

\* apis/admin/list-groups-v5.ts
ListGroupsV5Request == <<Items("statesFilter", Str), Items("typesFilter", Str), Tags>>
ListGroupsV5Response == <<
    Int32("throttleTimeMs"), ErrorCode("errorCode"),
    Rows("groups", <<
        NullStr("groupId"), Str("protocolType"), Str("groupState"),
        Str("groupType")>>)>>
ListGroupsV5 == Api(16, 5, ListGroupsV5Request, ListGroupsV5Response)

\* apis/admin/list-partition-reassignments-v0.ts
ListPartitionReassignmentsV0Request == <<
    Int32("timeoutMs"),
    Rows("topics", <<Str("name"), Items("partitionIndexes", Int32)>>), Tags>>
ListPartitionReassignmentsV0Response == <<
    Int32("throttleTimeMs"), ErrorCode("errorCode"), NullStr("errorMessage"),
    Rows("topics", <<
        Str("name"),
        Rows("partitions", <<
            Int32("partitionIndex"), Items("replicas", Int32),
            Items("addingReplicas", Int32), Items("removingReplicas", Int32)>>)>>)>>
ListPartitionReassignmentsV0 == Api(46, 0, ListPartitionReassignmentsV0Request, ListPartitionReassignmentsV0Response)

\* apis/admin/list-transactions-v1.ts
ListTransactionsV1Request == <<
    Items("stateFilters", Str), Items("producerIdFilters", Int64),
    Int64("durationFilter"), Tags>>
ListTransactionsV1Response == <<
    Int32("throttleTimeMs"), ErrorCode("errorCode"),
    Items("unknownStateFilters", Str),
    Rows("transactionStates", <<
        Str("transactionalId"), Int64("producerId"), Str("transactionState")>>)>>
ListTransactionsV1 == Api(66, 1, ListTransactionsV1Request, ListTransactionsV1Response)

\* apis/admin/offset-delete-v0.ts
OffsetDeleteV0Request == <<
    ShortStr("groupId"),
    PlainRows("topics", <<
        ShortStr("name"), PlainRows("partitions", <<Int32("partitionIndex")>>)>>)>>
OffsetDeleteV0Response == <<
    ErrorCode("errorCode"), Int32("throttleTimeMs"),
    Rows("topics", <<
        Str("name"),
        Rows("partitions", <<Int32("partitionIndex"), ErrorCode("errorCode")>>)>>)>>
OffsetDeleteV0 == PlainApi(47, 0, OffsetDeleteV0Request, OffsetDeleteV0Response)

\* apis/admin/renew-delegation-token-v2.ts
RenewDelegationTokenV2Request == <<Buf("hmac"), Int64("renewPeriodMs"), Tags>>
RenewDelegationTokenV2Response == ExpireDelegationTokenV2Response
RenewDelegationTokenV2 == Api(39, 2, RenewDelegationTokenV2Request, RenewDelegationTokenV2Response)

\* apis/admin/unregister-broker-v0.ts
UnregisterBrokerV0Request == <<Int32("brokerId"), Tags>>
UnregisterBrokerV0Response == <<
    Int32("throttleTimeMs"), ErrorCode("errorCode"), NullStr("errorMessage")>>
UnregisterBrokerV0 == Api(64, 0, UnregisterBrokerV0Request, UnregisterBrokerV0Response)

\* apis/admin/update-features-v1.ts
UpdateFeaturesV1Request == <<
    Int32("timeoutMs"),
    Rows("featureUpdates", <<
        Str("feature"), Int16("maxVersionLevel"), Int8("upgradeType")>>),
    Bool("validateOnly"), Tags>>
UpdateFeaturesV1Response == <<
    Int32("throttleTimeMs"), ErrorCode("errorCode"), NullStr("errorMessage"),
    Rows("results", <<
        Str("feature"), ErrorCode("errorCode"), NullStr("errorMessage")>>)>>
UpdateFeaturesV1 == Api(57, 1, UpdateFeaturesV1Request, UpdateFeaturesV1Response)

AllAdminApis == [
    AlterClientQuotasV1 |-> AlterClientQuotasV1, AlterConfigsV2 |-> AlterConfigsV2,
    AlterPartitionReassignmentsV0 |-> AlterPartitionReassignmentsV0,
    AlterPartitionV3 |-> AlterPartitionV3,
    AlterReplicaLogDirsV2 |-> AlterReplicaLogDirsV2,
    AlterUserScramCredentialsV0 |-> AlterUserScramCredentialsV0,
    ConsumerGroupDescribeV0 |-> ConsumerGroupDescribeV0,
    CreateAclsV3 |-> CreateAclsV3,
    CreateDelegationTokenV3 |-> CreateDelegationTokenV3,
    CreatePartitionsV3 |-> CreatePartitionsV3, CreateTopicsV7 |-> CreateTopicsV7,
    DeleteAclsV3 |-> DeleteAclsV3, DeleteGroupsV2 |-> DeleteGroupsV2,
    DeleteRecordsV2 |-> DeleteRecordsV2, DeleteTopicsV6 |-> DeleteTopicsV6,
    DescribeAclsV3 |-> DescribeAclsV3,
    DescribeClientQuotasV0 |-> DescribeClientQuotasV0,
    DescribeClusterV1 |-> DescribeClusterV1, DescribeConfigsV4 |-> DescribeConfigsV4,
    DescribeDelegationTokenV3 |-> DescribeDelegationTokenV3,
    DescribeGroupsV5 |-> DescribeGroupsV5, DescribeLogDirsV4 |-> DescribeLogDirsV4,
    DescribeProducersV0 |-> DescribeProducersV0,
    DescribeQuorumV2 |-> DescribeQuorumV2,
    DescribeTopicPartitionsV0 |-> DescribeTopicPartitionsV0,
    DescribeTransactionsV0 |-> DescribeTransactionsV0,
    DescribeUserScramCredentialsV0 |-> DescribeUserScramCredentialsV0,
    EnvelopeV0 |-> EnvelopeV0, ExpireDelegationTokenV2 |-> ExpireDelegationTokenV2,
    IncrementalAlterConfigsV1 |-> IncrementalAlterConfigsV1,
    ListGroupsV4 |-> ListGroupsV4, ListGroupsV5 |-> ListGroupsV5,
    ListPartitionReassignmentsV0 |-> ListPartitionReassignmentsV0,
    ListTransactionsV1 |-> ListTransactionsV1, OffsetDeleteV0 |-> OffsetDeleteV0,
    RenewDelegationTokenV2 |-> RenewDelegationTokenV2,
    UnregisterBrokerV0 |-> UnregisterBrokerV0, UpdateFeaturesV1 |-> UpdateFeaturesV1]
=============================================================================
