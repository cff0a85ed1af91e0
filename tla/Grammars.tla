------------------------------ MODULE Grammars ------------------------------
(***************************************************************************)
(* The grammars of the messages, as the comments over createRequest() and  *)
(* parseResponse() state them, and the keys of src/src/protocol/apis.ts.   *)
(* They are what the code is compared with: no definition of this module is *)
(* translated from code.                                                   *)
(***************************************************************************)
EXTENDS Wire

Flexible(key, version, request, response) ==
    [key |-> key, version |-> version, request |-> request, response |-> response,
     flexible |-> TRUE]
Inflexible(key, version, request, response) ==
    [key |-> key, version |-> version, request |-> request, response |-> response,
     flexible |-> FALSE]

AdminGrammars == [
  AlterClientQuotasV1 |-> Flexible(49, 1,
    <<
      Rows("entries", <<
          Rows("entity", <<Str("entityType"), NullStr("entityName")>>),
          Rows("ops", <<Str("key"), Float64("value"), Bool("remove")>>)>>),
      Bool("validateOnly"), Tags>>,
    <<
      Int32("throttleTimeMs"),
      Rows("entries", <<
          ErrorCode("errorCode"), NullStr("errorMessage"),
          Rows("entity", <<Str("entityType"), NullStr("entityName")>>)>>),
      Tags>>),
  AlterConfigsV2 |-> Flexible(33, 2,
    <<
      Rows("resources", <<
          Int8("resourceType"), Str("resourceName"),
          Rows("configs", <<Str("name"), NullStr("value")>>)>>),
      Bool("validateOnly"), Tags>>,
    <<
      Int32("throttleTimeMs"),
      Rows("responses", <<
          ErrorCode("errorCode"), NullStr("errorMessage"), Int8("resourceType"),
          Str("resourceName")>>),
      Tags>>),
  AlterPartitionReassignmentsV0 |-> Flexible(45, 0,
    <<
      Int32("timeoutMs"),
      Rows("topics", <<
          Str("name"),
          Rows("partitions", <<
              Int32("partitionIndex"), Items("replicas", Int32)>>)>>),
      Tags>>,
    <<
      Int32("throttleTimeMs"), ErrorCode("errorCode"), NullStr("errorMessage"),
      Rows("responses", <<
          Str("name"),
          Rows("partitions", <<
              Int32("partitionIndex"), ErrorCode("errorCode"),
              NullStr("errorMessage")>>)>>),
      Tags>>),
  AlterPartitionV3 |-> Flexible(56, 3,
    <<
      Int32("brokerId"), Int64("brokerEpoch"),
      Rows("topics", <<
          Uuid("topicId"),
          Rows("partitions", <<
              Int32("partitionIndex"), Int32("leaderEpoch"),
              Rows("newIsrWithEpochs", <<Int32("brokerId"), Int64("brokerEpoch")>>),
              Int8("leaderRecoveryState"), Int32("partitionEpoch")>>)>>),
      Tags>>,
    <<
      Int32("throttleTimeMs"), ErrorCode("errorCode"),
      Rows("topics", <<
          Uuid("topicId"),
          Rows("partitions", <<
              Int32("partitionIndex"), ErrorCode("errorCode"), Int32("leaderId"),
              Int32("leaderEpoch"), Items("isr", Int32),
              Int8("leaderRecoveryState"), Int32("partitionEpoch")>>)>>),
      Tags>>),
  AlterReplicaLogDirsV2 |-> Flexible(34, 2,
    <<
      Rows("dirs", <<
          Str("path"),
          Rows("topics", <<Str("name"), Items("partitions", Int32)>>)>>),
      Tags>>,
    <<
      Int32("throttleTimeMs"),
      Rows("results", <<
          Str("topicName"),
          Rows("partitions", <<
              Int32("partitionIndex"), ErrorCode("errorCode")>>)>>),
      Tags>>),
  AlterUserScramCredentialsV0 |-> Flexible(51, 0,
    <<
      Rows("deletions", <<Str("name"), Int8("mechanism")>>),
      Rows("upsertions", <<
          Str("name"), Int8("mechanism"), Int32("iterations"), Buf("salt"),
          Buf("saltedPassword")>>),
      Tags>>,
    <<
      Int32("throttleTimeMs"),
      Rows("results", <<
          Str("user"), ErrorCode("errorCode"), NullStr("errorMessage")>>),
      Tags>>),
  ConsumerGroupDescribeV0 |-> Flexible(69, 0,
    <<Items("groupIds", Str), Bool("includeAuthorizedOperations"), Tags>>,
    <<
      Int32("throttleTimeMs"),
      Rows("groups", <<
          ErrorCode("errorCode"), NullStr("errorMessage"), Str("groupId"),
          Str("groupState"), Int32("groupEpoch"), Int32("assignmentEpoch"),
          Str("assignorName"),
          Rows("members", <<
              Str("memberId"), NullStr("instanceId"), NullStr("rackId"),
              Int32("memberEpoch"), Str("clientId"), Str("clientHost"),
              Items("subscribedTopicNames", Str), NullStr("subscribedTopicRegex"),
              Struct("assignment", <<
                  Rows("topicPartitions", <<
                      Uuid("topicId"), Str("topicName"),
                      Items("partitions", Int32)>>),
                  Tags>>),
              Struct("targetAssignment", <<
                  Rows("topicPartitions", <<
                      Uuid("topicId"), Str("topicName"),
                      Items("partitions", Int32)>>),
                  Tags>>)>>),
          Int32("authorizedOperations")>>),
      Tags>>),
  CreateAclsV3 |-> Flexible(30, 3,
    <<
      Rows("creations", <<
          Int8("resourceType"), Str("resourceName"), Int8("resourcePatternType"),
          Str("principal"), Str("host"), Int8("operation"),
          Int8("permissionType")>>),
      Tags>>,
    <<
      Int32("throttleTimeMs"),
      Rows("results", <<ErrorCode("errorCode"), NullStr("errorMessage")>>), Tags>>),
  CreateDelegationTokenV3 |-> Flexible(38, 3,
    <<
      NullStr("ownerPrincipalType"), NullStr("ownerPrincipalName"),
      Rows("renewers", <<Str("principalType"), Str("principalName")>>),
      Int64("maxLifetimeMs"), Tags>>,
    <<
      ErrorCode("errorCode"), Str("principalType"), Str("principalName"),
      Str("tokenRequesterPrincipalType"), Str("tokenRequesterPrincipalName"),
      Int64("issueTimestampMs"), Int64("expiryTimestampMs"),
      Int64("maxTimestampMs"), Str("tokenId"), Buf("hmac"), Int32("throttleTimeMs"),
      Tags>>),
  CreatePartitionsV3 |-> Flexible(37, 3,
    <<
      Rows("topics", <<
          Str("name"), Int32("count"),
          Rows("assignments", <<Items("brokerIds", Int32)>>)>>),
      Int32("timeoutMs"), Bool("validateOnly"), Tags>>,
    <<
      Int32("throttleTimeMs"),
      Rows("results", <<
          Str("name"), ErrorCode("errorCode"), NullStr("errorMessage")>>),
      Tags>>),
  CreateTopicsV7 |-> Flexible(19, 7,
    <<
      Rows("topics", <<
          Str("name"), Int32("numPartitions"), Int16("replicationFactor"),
          Rows("assignments", <<
              Int32("partitionIndex"), Items("brokerIds", Int32)>>),
          Rows("configs", <<Str("name"), NullStr("value")>>)>>),
      Int32("timeoutMs"), Bool("validateOnly"), Tags>>,
    <<
      Int32("throttleTimeMs"),
      Rows("topics", <<
          Str("name"), Uuid("topicId"), ErrorCode("errorCode"),
          NullStr("errorMessage"), Int32("numPartitions"),
          Int16("replicationFactor"),
          Rows("configs", <<
              Str("name"), NullStr("value"), Bool("readOnly"), Int8("configSource"),
              Bool("isSensitive")>>)>>),
      Tags>>),
  DeleteAclsV3 |-> Flexible(31, 3,
    <<
      Rows("filters", <<
          Int8("resourceTypeFilter"), NullStr("resourceNameFilter"),
          Int8("patternTypeFilter"), NullStr("principalFilter"),
          NullStr("hostFilter"), Int8("operation"), Int8("permissionType")>>),
      Tags>>,
    <<
      Int32("throttleTimeMs"),
      Rows("filterResults", <<
          ErrorCode("errorCode"), NullStr("errorMessage"),
          Rows("matchingAcls", <<
              ErrorCode("errorCode"), NullStr("errorMessage"), Int8("resourceType"),
              Str("resourceName"), Int8("patternType"), Str("principal"),
              Str("host"), Int8("operation"), Int8("permissionType")>>)>>),
      Tags>>),
  DeleteGroupsV2 |-> Flexible(42, 2,
    <<Items("groupsNames", Str), Tags>>,
    <<
      Int32("throttleTimeMs"),
      Rows("results", <<Str("groupId"), ErrorCode("errorCode")>>), Tags>>),
  DeleteRecordsV2 |-> Flexible(21, 2,
    <<
      Rows("topics", <<
          Str("name"),
          Rows("partitions", <<Int32("partitionIndex"), Int64("offset")>>)>>),
      Int32("timeoutMs"), Tags>>,
    <<
      Int32("throttleTimeMs"),
      Rows("topics", <<
          Str("name"),
          Rows("partitions", <<
              Int32("partitionIndex"), Int64("lowWatermark"),
              ErrorCode("errorCode")>>)>>),
      Tags>>),
  DeleteTopicsV6 |-> Flexible(20, 6,
    <<
      Rows("topics", <<Str("name"), NullUuid("topicId")>>), Int32("timeoutMs"),
      Tags>>,
    <<
      Int32("throttleTimeMs"),
      Rows("responses", <<
          NullStr("name"), Uuid("topicId"), ErrorCode("errorCode"),
          NullStr("errorMessage")>>),
      Tags>>),
  DescribeAclsV3 |-> Flexible(29, 3,
    <<
      Int8("resourceTypeFilter"), NullStr("resourceNameFilter"),
      Int8("patternTypeFilter"), NullStr("principalFilter"), NullStr("hostFilter"),
      Int8("operation"), Int8("permissionType"), Tags>>,
    <<
      Int32("throttleTimeMs"), ErrorCode("errorCode"), NullStr("errorMessage"),
      Rows("resources", <<
          Int8("resourceType"), Str("resourceName"), Int8("patternType"),
          Rows("acls", <<
              Str("principal"), Str("host"), Int8("operation"),
              Int8("permissionType")>>)>>),
      Tags>>),
  DescribeClientQuotasV0 |-> Flexible(48, 1,
    <<
      Rows("components", <<
          Str("entityType"), Int8("matchType"), NullStr("match")>>),
      Bool("strict"), Tags>>,
    <<
      Int32("throttleTimeMs"), ErrorCode("errorCode"), NullStr("errorMessage"),
      Rows("entries", <<
          Rows("entity", <<Str("entityType"), NullStr("entityName")>>),
          Rows("values", <<Str("key"), Float64("value")>>)>>),
      Tags>>),
  DescribeClusterV1 |-> Flexible(60, 1,
    <<Bool("includeClusterAuthorizedOperations"), Int8("endpointType"), Tags>>,
    <<
      Int32("throttleTimeMs"), ErrorCode("errorCode"), NullStr("errorMessage"),
      Int8("endpointType"), Str("clusterId"), Int32("controllerId"),
      Rows("brokers", <<
          Int32("brokerId"), Str("host"), Int32("port"), NullStr("rack")>>),
      Int32("clusterAuthorizedOperations"), Tags>>),
  DescribeConfigsV4 |-> Flexible(32, 4,
    <<
      Rows("resources", <<
          Int8("resourceType"), Str("resourceName"),
          Items("configurationKeys", Str)>>),
      Bool("includeSynonyms"), Bool("includeDocumentation"), Tags>>,
    <<
      Int32("throttleTimeMs"),
      Rows("results", <<
          ErrorCode("errorCode"), NullStr("errorMessage"), Int8("resourceType"),
          Str("resourceName"),
          Rows("configs", <<
              Str("name"), NullStr("value"), Bool("readOnly"), Int8("configSource"),
              Bool("isSensitive"),
              Rows("synonyms", <<Str("name"), NullStr("value"), Int8("source")>>),
              Int8("configType"), NullStr("documentation")>>)>>),
      Tags>>),
  DescribeDelegationTokenV3 |-> Flexible(41, 3,
    <<Rows("owners", <<Str("principalType"), Str("principalName")>>), Tags>>,
    <<
      ErrorCode("errorCode"),
      Rows("tokens", <<
          Str("principalType"), Str("principalName"),
          Str("tokenRequesterPrincipalType"), Str("tokenRequesterPrincipalName"),
          Int64("issueTimestamp"), Int64("expiryTimestamp"), Int64("maxTimestamp"),
          Str("tokenId"), Buf("hmac"),
          Rows("renewers", <<Str("principalType"), Str("principalName")>>)>>),
      Int32("throttleTimeMs"), Tags>>),
  DescribeGroupsV5 |-> Flexible(15, 5,
    <<Items("groups", Str), Bool("includeAuthorizedOperations"), Tags>>,
    <<
      Int32("throttleTimeMs"),
      Rows("groups", <<
          ErrorCode("errorCode"), Str("groupId"), Str("groupState"),
          Str("protocolType"), Str("protocolData"),
          Rows("members", <<
              Str("memberId"), NullStr("groupInstanceId"), Str("clientId"),
              Str("clientHost"), Buf("memberMetadata"), Buf("memberAssignment")>>),
          Int32("authorizedOperations")>>),
      Tags>>),
  DescribeLogDirsV4 |-> Flexible(35, 4,
    <<Rows("topics", <<Str("topic"), Items("partitions", Int32)>>), Tags>>,
    <<
      Int32("throttleTimeMs"), ErrorCode("errorCode"),
      Rows("results", <<
          ErrorCode("errorCode"), Str("logDir"),
          Rows("topics", <<
              Str("name"),
              Rows("partitions", <<
                  Int32("partitionIndex"), Int64("partitionSize"),
                  Int64("offsetLag"), Bool("isFutureKey")>>)>>),
          Int64("totalBytes"), Int64("usableBytes")>>),
      Tags>>),
  DescribeProducersV0 |-> Flexible(61, 0,
    <<Rows("topics", <<Str("name"), Items("partitionIndexes", Int32)>>), Tags>>,
    <<
      Int32("throttleTimeMs"),
      Rows("topics", <<
          Str("name"),
          Rows("partitions", <<
              Int32("partitionIndex"), ErrorCode("errorCode"),
              NullStr("errorMessage"),
              Rows("activeProducers", <<
                  Int64("producerId"), Int32("producerEpoch"),
                  Int32("lastSequence"), Int64("lastTimestamp"),
                  Int32("coordinatorEpoch"),
                  Int64("currentTxnStartOffset")>>)>>)>>),
      Tags>>),
  DescribeQuorumV2 |-> Flexible(55, 2,
    <<
      Rows("topics", <<
          Str("topicName"), Rows("partitions", <<Int32("partitionIndex")>>)>>),
      Tags>>,
    <<
      ErrorCode("errorCode"), NullStr("errorMessage"),
      Rows("topics", <<
          Str("topicName"),
          Rows("partitions", <<
              Int32("partitionIndex"), ErrorCode("errorCode"),
              NullStr("errorMessage"), Int32("leaderId"), Int32("leaderEpoch"),
              Int64("highWatermark"),
              Rows("currentVoters", <<
                  Int32("replicaId"), Uuid("replicaDirectoryId"),
                  Int64("logEndOffset"), Int64("lastFetchTimestamp"),
                  Int64("lastCaughtUpTimestamp")>>),
              Rows("observers", <<
                  Int32("replicaId"), Uuid("replicaDirectoryId"),
                  Int64("logEndOffset"), Int64("lastFetchTimestamp"),
                  Int64("lastCaughtUpTimestamp")>>)>>)>>),
      Rows("nodes", <<
          Int32("nodeId"),
          Rows("listeners", <<Str("name"), Str("host"), UInt16("port")>>)>>),
      Tags>>),
  DescribeTopicPartitionsV0 |-> Flexible(75, 0,
    <<
      Rows("topics", <<Str("name")>>), Int32("responsePartitionLimit"),
      Cursor("cursor", <<Str("topicName"), Int32("partitionIndex"), Tags>>), Tags>>,
    <<
      Int32("throttleTimeMs"),
      Rows("topics", <<
          ErrorCode("errorCode"), NullStr("name"), Uuid("topicId"),
          Bool("isInternal"),
          Rows("partitions", <<
              ErrorCode("errorCode"), Int32("partitionIndex"), Int32("leaderId"),
              Int32("leaderEpoch"), Items("replicaNodes", Int32),
              Items("isrNodes", Int32), Items("eligibleLeaderReplicas", Int32),
              Items("lastKnownElr", Int32), Items("offlineReplicas", Int32)>>),
          Int32("topicAuthorizedOperations")>>),
      Cursor("nextCursor", <<Str("topicName"), Int32("partitionIndex"), Tags>>),
      Tags>>),
  DescribeTransactionsV0 |-> Flexible(65, 0,
    <<Items("transactionalIds", Str), Tags>>,
    <<
      Int32("throttleTimeMs"),
      Rows("transactionStates", <<
          ErrorCode("errorCode"), Str("transactionalId"), Str("transactionState"),
          Int32("transactionTimeoutMs"), Int64("transactionStartTimeMs"),
          Int64("producerId"), Int16("producerEpoch"),
          Rows("topics", <<Str("topic"), Items("partitions", Int32)>>)>>),
      Tags>>),
  DescribeUserScramCredentialsV0 |-> Flexible(50, 0,
    <<Rows("users", <<Str("name")>>), Tags>>,
    <<
      Int32("throttleTimeMs"), ErrorCode("errorCode"), NullStr("errorMessage"),
      Rows("results", <<
          Str("user"), ErrorCode("errorCode"), NullStr("errorMessage"),
          Rows("credentialInfos", <<Int8("mechanism"), Int32("iterations")>>)>>),
      Tags>>),
  EnvelopeV0 |-> Flexible(58, 0,
    <<
      Buf("requestData"), NullBuf("requestPrincipal"), Buf("clientHostAddress"),
      Tags>>,
    <<NullBuf("responseData"), ErrorCode("errorCode"), Tags>>),
  ExpireDelegationTokenV2 |-> Flexible(40, 2,
    <<Buf("hmac"), Int64("expiryTimePeriodMs"), Tags>>,
    <<
      ErrorCode("errorCode"), Int64("expiryTimestampMs"), Int32("throttleTimeMs"),
      Tags>>),
  IncrementalAlterConfigsV1 |-> Flexible(44, 1,
    <<
      Rows("resources", <<
          Int8("resourceType"), Str("resourceName"),
          Rows("configs", <<
              Str("name"), Int8("configOperation"), NullStr("value")>>)>>),
      Bool("validateOnly"), Tags>>,
    <<
      Int32("throttleTimeMs"),
      Rows("responses", <<
          ErrorCode("errorCode"), NullStr("errorMessage"), Int8("resourceType"),
          Str("resourceName")>>),
      Tags>>),
  ListGroupsV4 |-> Flexible(16, 4,
    <<Items("statesFilter", Str), Tags>>,
    <<
      Int32("throttleTimeMs"), ErrorCode("errorCode"),
      Rows("groups", <<Str("groupId"), Str("protocolType"), Str("groupState")>>),
      Tags>>),
  ListGroupsV5 |-> Flexible(16, 5,
    <<Items("statesFilter", Str), Items("typesFilter", Str), Tags>>,
    <<
      Int32("throttleTimeMs"), ErrorCode("errorCode"),
      Rows("groups", <<
          Str("groupId"), Str("protocolType"), Str("groupState"),
          Str("groupType")>>),
      Tags>>),
  ListPartitionReassignmentsV0 |-> Flexible(46, 0,
    <<
      Int32("timeoutMs"),
      Rows("topics", <<Str("name"), Items("partitionIndexes", Int32)>>), Tags>>,
    <<
      Int32("throttleTimeMs"), ErrorCode("errorCode"), NullStr("errorMessage"),
      Rows("topics", <<
          Str("name"),
          Rows("partitions", <<
              Int32("partitionIndex"), Items("replicas", Int32),
              Items("addingReplicas", Int32),
              Items("removingReplicas", Int32)>>)>>),
      Tags>>),
  ListTransactionsV1 |-> Flexible(66, 1,
    <<
      Items("stateFilters", Str), Items("producerIdFilters", Int64),
      Int64("durationFilter"), Tags>>,
    <<
      Int32("throttleTimeMs"), ErrorCode("errorCode"),
      Items("unknownStateFilters", Str),
      Rows("transactionStates", <<
          Str("transactionalId"), Int64("producerId"), Str("transactionState")>>),
      Tags>>),
  OffsetDeleteV0 |-> Inflexible(47, 0,
    <<
      ShortStr("groupId"),
      PlainRows("topics", <<
          ShortStr("name"),
          PlainRows("partitions", <<Int32("partitionIndex")>>)>>)>>,
    <<
      ErrorCode("errorCode"), Int32("throttleTimeMs"),
      PlainRows("topics", <<
          ShortStr("name"),
          PlainRows("partitions", <<
              Int32("partitionIndex"), ErrorCode("errorCode")>>)>>)>>),
  RenewDelegationTokenV2 |-> Flexible(39, 2,
    <<Buf("hmac"), Int64("renewPeriodMs"), Tags>>,
    <<
      ErrorCode("errorCode"), Int64("expiryTimestampMs"), Int32("throttleTimeMs"),
      Tags>>),
  UnregisterBrokerV0 |-> Flexible(64, 0,
    <<Int32("brokerId"), Tags>>,
    <<
      Int32("throttleTimeMs"), ErrorCode("errorCode"), NullStr("errorMessage"),
      Tags>>),
  UpdateFeaturesV1 |-> Flexible(57, 1,
    <<
      Int32("timeoutMs"),
      Rows("featureUpdates", <<
          Str("feature"), Int16("maxVersionLevel"), Int8("upgradeType")>>),
      Bool("validateOnly"), Tags>>,
    <<
      Int32("throttleTimeMs"), ErrorCode("errorCode"), NullStr("errorMessage"),
      Rows("results", <<
          Str("feature"), ErrorCode("errorCode"), NullStr("errorMessage")>>),
      Tags>>)]

FetchGrammar(version) ==
  Flexible(1, version,
    <<
      Int32("maxWaitMs"), Int32("minBytes"), Int32("maxBytes"),
      Int8("isolationLevel"), Int32("sessionId"), Int32("sessionEpoch"),
      Rows("topics", <<
          Uuid("topicId"),
          Rows("partitions", <<
              Int32("partition"), Int32("currentLeaderEpoch"), Int64("fetchOffset"),
              Int32("lastFetchedEpoch"), Fixed(Int64("logStartOffset")),
              Int32("partitionMaxBytes")>>)>>),
      Rows("forgottenTopicsData", <<Uuid("topicId"), Items("partitions", Int32)>>),
      Str("rackId"), Tags>>,
    <<
      Int32("throttleTimeMs"), ErrorCode("errorCode"), Int32("sessionId"),
      Rows("responses", <<
          Uuid("topicId"),
          Rows("partitions", <<
              Int32("partitionIndex"), ErrorCode("errorCode"),
              Int64("highWatermark"), Int64("lastStableOffset"),
              Int64("logStartOffset"),
              Rows("abortedTransactions", <<
                  Int64("producerId"), Int64("firstOffset")>>),
              Int32("preferredReadReplica"), Records("records")>>)>>),
      Tags>>)

ListOffsetsGrammar(version) ==
  Flexible(2, version,
    <<
      Int32("replicaId"), Int8("isolationLevel"),
      Rows("topics", <<
          Str("name"),
          Rows("partitions", <<
              Int32("partitionIndex"), Int32("currentLeaderEpoch"),
              Int64("timestamp")>>)>>),
      Tags>>,
    <<
      Int32("throttleTimeMs"),
      Rows("topics", <<
          Str("name"),
          Rows("partitions", <<
              Int32("partitionIndex"), ErrorCode("errorCode"), Int64("timestamp"),
              Int64("offset"), Int32("leaderEpoch")>>)>>),
      Tags>>)

OffsetCommitGrammar(version) ==
  Flexible(8, version,
    <<
      Str("groupId"), Int32("generationIdOrMemberEpoch"), Str("memberId"),
      NullStr("groupInstanceId"),
      Rows("topics", <<
          Str("name"),
          Rows("partitions", <<
              Int32("partitionIndex"), Int64("committedOffset"),
              Int32("committedLeaderEpoch"), NullStr("committedMetadata")>>)>>),
      Tags>>,
    <<
      Int32("throttleTimeMs"),
      Rows("topics", <<
          Str("name"),
          Rows("partitions", <<
              Int32("partitionIndex"), ErrorCode("errorCode")>>)>>),
      Tags>>)

GroupGrammars == [
  ConsumerGroupHeartbeatV0 |-> Flexible(68, 0,
    <<
      Str("groupId"), Str("memberId"), Int32("memberEpoch"), NullStr("instanceId"),
      NullStr("rackId"), Int32("rebalanceTimeoutMs"),
      NullItems("subscribedTopicNames", Str), NullStr("serverAssignor"),
      Rows("topicPartitions", <<Uuid("topicId"), Items("partitions", Int32)>>),
      Tags>>,
    <<
      Int32("throttleTimeMs"), ErrorCode("errorCode"), NullStr("errorMessage"),
      NullStr("memberId"), Int32("memberEpoch"), Int32("heartbeatIntervalMs"),
      Struct("assignment", <<
          Rows("topicPartitions", <<Uuid("topicId"), Items("partitions", Int32)>>),
          Tags>>),
      Tags>>),
  FetchV15 |-> FetchGrammar(15),
  FetchV16 |-> FetchGrammar(16),
  FetchV17 |-> FetchGrammar(17),
  HeartbeatV4 |-> Flexible(12, 4,
    <<
      Str("groupId"), Int32("generationId"), Str("memberId"),
      NullStr("groupInstanceId"), Tags>>,
    <<Int32("throttleTimeMs"), ErrorCode("errorCode"), Tags>>),
  JoinGroupV9 |-> Flexible(11, 9,
    <<
      Str("groupId"), Int32("sessionTimeoutMs"), Int32("rebalanceTimeoutMs"),
      Str("memberId"), NullStr("groupInstanceId"), Str("protocolType"),
      Rows("protocols", <<Str("name"), Buf("metadata")>>), NullStr("reason"), Tags>>,
    <<
      Int32("throttleTimeMs"), ErrorCode("errorCode"), Int32("generationId"),
      NullStr("protocolType"), NullStr("protocolName"), Str("leader"),
      Bool("skipAssignment"), Str("memberId"),
      Rows("members", <<
          Str("memberId"), NullStr("groupInstanceId"), Buf("metadata")>>),
      Tags>>),
  LeaveGroupV5 |-> Flexible(13, 5,
    <<
      Str("groupId"),
      Rows("members", <<
          Str("memberId"), NullStr("groupInstanceId"), NullStr("reason")>>),
      Tags>>,
    <<
      Int32("throttleTimeMs"), ErrorCode("errorCode"),
      Rows("members", <<
          Str("memberId"), NullStr("groupInstanceId"), ErrorCode("errorCode")>>),
      Tags>>),
  ListOffsetsV8 |-> ListOffsetsGrammar(8),
  ListOffsetsV9 |-> ListOffsetsGrammar(9),
  OffsetCommitV8 |-> OffsetCommitGrammar(8),
  OffsetCommitV9 |-> OffsetCommitGrammar(9),
  OffsetFetchV8 |-> Flexible(9, 8,
    <<
      Rows("groups", <<
          Str("groupId"),
          Rows("topics", <<Str("name"), Items("partitionIndexes", Int32)>>)>>),
      Bool("requireStable"), Tags>>,
    <<
      Int32("throttleTimeMs"),
      Rows("groups", <<
          Str("groupId"),
          Rows("topics", <<
              Str("name"),
              Rows("partitions", <<
                  Int32("partitionIndex"), Int64("committedOffset"),
                  Int32("committedLeaderEpoch"), NullStr("metadata"),
                  ErrorCode("errorCode")>>)>>),
          ErrorCode("errorCode")>>),
      Tags>>),
  OffsetFetchV9 |-> Flexible(9, 9,
    <<
      Rows("groups", <<
          Str("groupId"), NullStr("memberId"), Int32("memberEpoch"),
          Rows("topics", <<Str("name"), Items("partitionIndexes", Int32)>>)>>),
      Bool("requireStable"), Tags>>,
    <<
      Int32("throttleTimeMs"),
      Rows("groups", <<
          Str("groupId"),
          Rows("topics", <<
              Str("name"),
              Rows("partitions", <<
                  Int32("partitionIndex"), Int64("committedOffset"),
                  Int32("committedLeaderEpoch"), NullStr("metadata"),
                  ErrorCode("errorCode")>>)>>),
          ErrorCode("errorCode")>>),
      Tags>>),
  SyncGroupV5 |-> Flexible(14, 5,
    <<
      Str("groupId"), Int32("generationId"), Str("memberId"),
      NullStr("groupInstanceId"), NullStr("protocolType"), NullStr("protocolName"),
      Rows("assignments", <<Str("memberId"), Buf("assignment")>>), Tags>>,
    <<
      Int32("throttleTimeMs"), ErrorCode("errorCode"), NullStr("protocolType"),
      NullStr("protocolName"), Buf("assignment"), Tags>>)]

ApiVersionsGrammar(version) ==
  Flexible(18, version,
    <<Str("clientSoftwareName"), Str("clientSoftwareVersion"), Tags>>,
    <<
      ErrorCode("errorCode"),
      Rows("apiKeys", <<
          Int16("apiKey"), Int16("minVersion"), Int16("maxVersion")>>),
      Int32("throttleTimeMs"), Tags>>)

FindCoordinatorGrammar(version) ==
  Flexible(10, version,
    <<Int8("keyType"), Items("coordinatorKeys", Str), Tags>>,
    <<
      Int32("throttleTimeMs"),
      Rows("coordinators", <<
          Str("key"), Int32("nodeId"), Str("host"), Int32("port"),
          ErrorCode("errorCode"), NullStr("errorMessage")>>),
      Tags>>)

InitProducerIdGrammar(version) ==
  Flexible(22, version,
    <<
      NullStr("transactionalId"), Int32("transactionTimeoutMs"),
      Int64("producerId"), Int16("producerEpoch"), Tags>>,
    <<
      Int32("throttleTimeMs"), ErrorCode("errorCode"), Int64("producerId"),
      Int16("producerEpoch"), Tags>>)

ProduceGrammar(version) ==
  Flexible(0, version,
    <<
      NullStr("transactionalId"), Int16("acks"), Int32("timeoutMs"),
      Rows("topicData", <<
          Str("name"),
          Rows("partitionData", <<Int32("index"), Records("records")>>)>>),
      Tags>>,
    <<
      Rows("responses", <<
          Str("name"),
          Rows("partitionResponses", <<
              Int32("index"), ErrorCode("errorCode"), Int64("baseOffset"),
              Int64("logAppendTimeMs"), Int64("logStartOffset"),
              Rows("recordErrors", <<
                  Int32("batchIndex"), ErrorText("batchIndexErrorMessage")>>),
              NullStr("errorMessage")>>)>>),
      Int32("throttleTimeMs"), Tags>>)

CoreGrammars == [
  ApiVersionsV3 |-> ApiVersionsGrammar(3),
  ApiVersionsV4 |-> ApiVersionsGrammar(4),
  FindCoordinatorV4 |-> FindCoordinatorGrammar(4),
  FindCoordinatorV5 |-> FindCoordinatorGrammar(5),
  FindCoordinatorV6 |-> FindCoordinatorGrammar(6),
  MetadataV12 |-> Flexible(3, 12,
    <<
      NullRows("topics", <<Fixed(NullUuid("topicId")), NullStr("name")>>),
      Bool("allowAutoTopicCreation"), Bool("includeTopicAuthorizedOperations"),
      Tags>>,
    <<
      Int32("throttleTimeMs"),
      Rows("brokers", <<
          Int32("nodeId"), Str("host"), Int32("port"), NullStr("rack")>>),
      NullStr("clusterId"), Int32("controllerId"),
      Rows("topics", <<
          ErrorCode("errorCode"), NullStr("name"), Uuid("topicId"),
          Bool("isInternal"),
          Rows("partitions", <<
              ErrorCode("errorCode"), Int32("partitionIndex"), Int32("leaderId"),
              Int32("leaderEpoch"), Items("replicaNodes", Int32),
              Items("isrNodes", Int32), Items("offlineReplicas", Int32)>>),
          Int32("topicAuthorizedOperations")>>),
      Tags>>),
  AddOffsetsToTxnV4 |-> Flexible(25, 4,
    <<
      Str("transactionalId"), Int64("producerId"), Int16("producerEpoch"),
      Str("groupId"), Tags>>,
    <<Int32("throttleTimeMs"), ErrorCode("errorCode"), Tags>>),
  AddPartitionsToTxnV5 |-> Flexible(24, 5,
    <<
      Rows("transactions", <<
          Str("transactionalId"), Int64("producerId"), Int16("producerEpoch"),
          Bool("verifyOnly"),
          Rows("topics", <<Str("name"), Items("partitions", Int32)>>)>>),
      Tags>>,
    <<
      Int32("throttleTimeMs"), ErrorCode("errorCode"),
      Rows("resultsByTransaction", <<
          Str("transactionalId"),
          Rows("topicResults", <<
              Str("name"),
              Rows("resultsByPartition", <<
                  Int32("partitionIndex"), ErrorCode("partitionErrorCode")>>)>>)>>),
      Tags>>),
  EndTxnV4 |-> Flexible(26, 4,
    <<
      Str("transactionalId"), Int64("producerId"), Int16("producerEpoch"),
      Bool("committed"), Tags>>,
    <<Int32("throttleTimeMs"), ErrorCode("errorCode"), Tags>>),
  InitProducerIdV4 |-> InitProducerIdGrammar(4),
  InitProducerIdV5 |-> InitProducerIdGrammar(5),
  ProduceV10 |-> ProduceGrammar(10),
  ProduceV11 |-> ProduceGrammar(11),
  ProduceV9 |-> ProduceGrammar(9),
  TxnOffsetCommitV4 |-> Flexible(28, 4,
    <<
      Str("transactionalId"), Str("groupId"), Int64("producerId"),
      Int16("producerEpoch"), Int32("generationId"), Str("memberId"),
      NullStr("groupInstanceId"),
      Rows("topics", <<
          Str("name"),
          Rows("partitions", <<
              Int32("partitionIndex"), Int64("committedOffset"),
              Int32("committedLeaderEpoch"), NullStr("committedMetadata")>>)>>),
      Tags>>,
    <<
      Int32("throttleTimeMs"),
      Rows("topics", <<
          Str("name"),
          Rows("partitions", <<
              Int32("partitionIndex"), ErrorCode("errorCode")>>)>>),
      Tags>>),
  SaslAuthenticateV2 |-> Flexible(36, 2,
    <<Buf("authBytes"), Tags>>,
    <<
      ErrorCode("errorCode"), NullStr("errorMessage"), Buf("authBytes"),
      Int64("sessionLifetimeMs"), Tags>>),
  SaslHandshakeV1 |-> Inflexible(17, 1,
    <<ShortStr("mechanism")>>,
    <<ErrorCode("errorCode"), PlainItems("mechanisms", ShortStr)>>),
  GetTelemetrySubscriptionsV0 |-> Flexible(71, 0,
    <<NullUuid("clientInstanceId"), Tags>>,
    <<
      Int32("throttleTimeMs"), ErrorCode("errorCode"), Uuid("clientInstanceId"),
      Int32("subscriptionId"), Items("acceptedCompressionTypes", Int8),
      Int32("pushIntervalMs"), Int32("telemetryMaxBytes"), Bool("deltaTemporality"),
      Items("requestedMetrics", Str), Tags>>),
  ListClientMetricsResourcesV0 |-> Flexible(74, 0,
    <<Tags>>,
    <<
      Int32("throttleTimeMs"), ErrorCode("errorCode"),
      Rows("clientMetricsResources", <<Str("name")>>), Tags>>),
  PushTelemetryV0 |-> Flexible(72, 0,
    <<
      Uuid("clientInstanceId"), Int32("subscriptionId"), Bool("terminating"),
      Int8("compressionType"), Buf("metrics"), Tags>>,
    <<Int32("throttleTimeMs"), ErrorCode("errorCode"), Tags>>)]

AllGrammars == AdminGrammars @@ GroupGrammars @@ CoreGrammars
=============================================================================
