------------------------------ MODULE CoreApis ------------------------------
(***************************************************************************)
(* What createRequest() writes and parseResponse() reads, in order, for the *)
(* APIs of src/src/apis/producer, metadata, security and telemetry.        *)
(***************************************************************************)
EXTENDS Apis

\* apis/metadata/api-versions-v3.ts
ApiVersionsV3Request == <<
    Str("clientSoftwareName"), Str("clientSoftwareVersion"), Tags>>
ApiVersionsV3Response == <<
    ErrorCode("errorCode"),
    Rows("apiKeys", <<Int16("apiKey"), Int16("minVersion"), Int16("maxVersion")>>),
    Int32("throttleTimeMs")>>
ApiVersionsV3 == HeaderlessApi(18, 3, ApiVersionsV3Request, ApiVersionsV3Response)

\* apis/metadata/api-versions-v4.ts
ApiVersionsV4Request == ApiVersionsV3Request
ApiVersionsV4Response == ApiVersionsV3Response
ApiVersionsV4 == HeaderlessApi(18, 4, ApiVersionsV4Request, ApiVersionsV4Response)

\* apis/metadata/find-coordinator-v4.ts
FindCoordinatorV4Request == <<Int8("keyType"), Items("coordinatorKeys", Str), Tags>>
FindCoordinatorV4Response == <<
    Int32("throttleTimeMs"),
    Rows("coordinators", <<
        Str("key"), Int32("nodeId"), Str("host"), Int32("port"),
        ErrorCode("errorCode"), NullStr("errorMessage")>>)>>
FindCoordinatorV4 == Api(10, 4, FindCoordinatorV4Request, FindCoordinatorV4Response)

\* apis/metadata/find-coordinator-v5.ts
FindCoordinatorV5Request == FindCoordinatorV4Request
FindCoordinatorV5Response == FindCoordinatorV4Response
FindCoordinatorV5 == Api(10, 5, FindCoordinatorV5Request, FindCoordinatorV5Response)

\* apis/metadata/find-coordinator-v6.ts
FindCoordinatorV6Request == FindCoordinatorV4Request
FindCoordinatorV6Response == FindCoordinatorV4Response
FindCoordinatorV6 == Api(10, 6, FindCoordinatorV6Request, FindCoordinatorV6Response)

\* apis/metadata/metadata-v12.ts.  The client gives no null name, appendString()
\* would write it.
MetadataV12Request == <<
    NullRows("topics", <<Fixed(NullUuid("topicId")), NullStr("name")>>),
    Bool("allowAutoTopicCreation"), Bool("includeTopicAuthorizedOperations"), Tags>>
MetadataV12Response == <<
    Int32("throttleTimeMs"),
    Rows("brokers", <<Int32("nodeId"), Str("host"), Int32("port"), NullStr("rack")>>),
    NullStr("clusterId"), Int32("controllerId"),
    Rows("topics", <<
        ErrorCode("errorCode"), NullStr("name"), Uuid("topicId"), Bool("isInternal"),
        Rows("partitions", <<
            ErrorCode("errorCode"), Int32("partitionIndex"), Int32("leaderId"),
            Int32("leaderEpoch"), Items("replicaNodes", Int32),
            Items("isrNodes", Int32), Items("offlineReplicas", Int32)>>),
        Int32("topicAuthorizedOperations")>>)>>
MetadataV12 == Api(3, 12, MetadataV12Request, MetadataV12Response)

\* apis/producer/add-offsets-to-txn-v4.ts
AddOffsetsToTxnV4Request == <<
    Str("transactionalId"), Int64("producerId"), Int16("producerEpoch"),
    Str("groupId"), Tags>>
AddOffsetsToTxnV4Response == <<Int32("throttleTimeMs"), ErrorCode("errorCode")>>
AddOffsetsToTxnV4 == Api(25, 4, AddOffsetsToTxnV4Request, AddOffsetsToTxnV4Response)

\* apis/producer/add-partitions-to-txn-v5.ts
AddPartitionsToTxnV5Request == <<
    Rows("transactions", <<
        Str("transactionalId"), Int64("producerId"), Int16("producerEpoch"),
        Bool("verifyOnly"),
        Rows("topics", <<Str("name"), Items("partitions", Int32)>>)>>),
    Tags>>
AddPartitionsToTxnV5Response == <<
    Int32("throttleTimeMs"), ErrorCode("errorCode"),
    Rows("resultsByTransaction", <<
        Str("transactionalId"),
        Rows("topicResults", <<
            Str("name"),
            Rows("resultsByPartition", <<
                Int32("partitionIndex"), ErrorCode("partitionErrorCode")>>)>>)>>)>>
AddPartitionsToTxnV5 == Api(24, 5, AddPartitionsToTxnV5Request, AddPartitionsToTxnV5Response)

\* apis/producer/end-txn-v4.ts
EndTxnV4Request == <<
    Str("transactionalId"), Int64("producerId"), Int16("producerEpoch"),
    Bool("committed"), Tags>>
EndTxnV4Response == AddOffsetsToTxnV4Response
EndTxnV4 == Api(26, 4, EndTxnV4Request, EndTxnV4Response)

\* apis/producer/init-producer-id-v4.ts
InitProducerIdV4Request == <<
    NullStr("transactionalId"), Int32("transactionTimeoutMs"), Int64("producerId"),
    Int16("producerEpoch"), Tags>>
InitProducerIdV4Response == <<
    Int32("throttleTimeMs"), ErrorCode("errorCode"), Int64("producerId"),
    Int16("producerEpoch")>>
InitProducerIdV4 == Api(22, 4, InitProducerIdV4Request, InitProducerIdV4Response)

\* apis/producer/init-producer-id-v5.ts
InitProducerIdV5Request == InitProducerIdV4Request
InitProducerIdV5Response == InitProducerIdV4Response
InitProducerIdV5 == Api(22, 5, InitProducerIdV5Request, InitProducerIdV5Response)

\* apis/producer/produce-v10.ts
ProduceV10Request == <<
    NullStr("transactionalId"), Int16("acks"), Int32("timeoutMs"),
    Rows("topicData", <<
        Str("name"),
        Rows("partitionData", <<Int32("index"), Records("records")>>)>>),
    Tags>>
ProduceV10Response == <<
    Rows("responses", <<
        Str("name"),
        Rows("partitionResponses", <<
            Int32("index"), ErrorCode("errorCode"), Int64("baseOffset"),
            Int64("logAppendTimeMs"), Int64("logStartOffset"),
            Rows("recordErrors", <<
                Int32("batchIndex"), ErrorText("batchIndexErrorMessage")>>),
            NullStr("errorMessage")>>)>>),
    Int32("throttleTimeMs")>>
ProduceV10 == Api(0, 10, ProduceV10Request, ProduceV10Response)

\* apis/producer/produce-v11.ts
ProduceV11Request == ProduceV10Request
ProduceV11Response == ProduceV10Response
ProduceV11 == Api(0, 11, ProduceV11Request, ProduceV11Response)

\* apis/producer/produce-v9.ts
ProduceV9Request == ProduceV10Request
ProduceV9Response == ProduceV10Response
ProduceV9 == Api(0, 9, ProduceV9Request, ProduceV9Response)

\* apis/producer/txn-offset-commit-v4.ts
TxnOffsetCommitV4Request == <<
    Str("transactionalId"), Str("groupId"), Int64("producerId"),
    Int16("producerEpoch"), Int32("generationId"), Str("memberId"),
    NullStr("groupInstanceId"),
    Rows("topics", <<
        Str("name"),
        Rows("partitions", <<
            Int32("partitionIndex"), Int64("committedOffset"),
            Int32("committedLeaderEpoch"), NullStr("committedMetadata")>>)>>),
    Tags>>
TxnOffsetCommitV4Response == <<
    Int32("throttleTimeMs"),
    Rows("topics", <<
        Str("name"),
        Rows("partitions", <<Int32("partitionIndex"), ErrorCode("errorCode")>>)>>)>>
TxnOffsetCommitV4 == Api(28, 4, TxnOffsetCommitV4Request, TxnOffsetCommitV4Response)

\* apis/security/sasl-authenticate-v2.ts
SaslAuthenticateV2Request == <<Buf("authBytes"), Tags>>
SaslAuthenticateV2Response == <<
    ErrorCode("errorCode"), NullStr("errorMessage"), Buf("authBytes"),
    Int64("sessionLifetimeMs")>>
SaslAuthenticateV2 == Api(36, 2, SaslAuthenticateV2Request, SaslAuthenticateV2Response)

\* apis/security/sasl-handshake-v1.ts
SaslHandshakeV1Request == <<ShortStr("mechanism")>>
SaslHandshakeV1Response == <<
    ErrorCode("errorCode"), PlainItems("mechanisms", ShortStr)>>
SaslHandshakeV1 == PlainApi(17, 1, SaslHandshakeV1Request, SaslHandshakeV1Response)

\* apis/telemetry/get-telemetry-subscriptions-v0.ts
GetTelemetrySubscriptionsV0Request == <<NullUuid("clientInstanceId"), Tags>>
GetTelemetrySubscriptionsV0Response == <<
    Int32("throttleTimeMs"), ErrorCode("errorCode"), Uuid("clientInstanceId"),
    Int32("subscriptionId"), Items("acceptedCompressionTypes", Int8),
    Int32("pushIntervalMs"), Int32("telemetryMaxBytes"), Bool("deltaTemporality"),
    Items("requestedMetrics", Str)>>
GetTelemetrySubscriptionsV0 == Api(71, 0, GetTelemetrySubscriptionsV0Request, GetTelemetrySubscriptionsV0Response)

\* apis/telemetry/list-client-metrics-resources-v0.ts
ListClientMetricsResourcesV0Request == <<Tags>>
ListClientMetricsResourcesV0Response == <<
    Int32("throttleTimeMs"), ErrorCode("errorCode"),
    Rows("clientMetricsResources", <<Str("name")>>)>>
ListClientMetricsResourcesV0 == Api(74, 0, ListClientMetricsResourcesV0Request, ListClientMetricsResourcesV0Response)

\* apis/telemetry/push-telemetry-v0.ts
PushTelemetryV0Request == <<
    Uuid("clientInstanceId"), Int32("subscriptionId"), Bool("terminating"),
    Int8("compressionType"), Buf("metrics"), Tags>>
PushTelemetryV0Response == AddOffsetsToTxnV4Response
PushTelemetryV0 == Api(72, 0, PushTelemetryV0Request, PushTelemetryV0Response)

AllCoreApis == [
    ApiVersionsV3 |-> ApiVersionsV3, ApiVersionsV4 |-> ApiVersionsV4,
    FindCoordinatorV4 |-> FindCoordinatorV4, FindCoordinatorV5 |-> FindCoordinatorV5,
    FindCoordinatorV6 |-> FindCoordinatorV6, MetadataV12 |-> MetadataV12,
    AddOffsetsToTxnV4 |-> AddOffsetsToTxnV4,
    AddPartitionsToTxnV5 |-> AddPartitionsToTxnV5, EndTxnV4 |-> EndTxnV4,
    InitProducerIdV4 |-> InitProducerIdV4, InitProducerIdV5 |-> InitProducerIdV5,
    ProduceV10 |-> ProduceV10, ProduceV11 |-> ProduceV11, ProduceV9 |-> ProduceV9,
    TxnOffsetCommitV4 |-> TxnOffsetCommitV4,
    SaslAuthenticateV2 |-> SaslAuthenticateV2, SaslHandshakeV1 |-> SaslHandshakeV1,
    GetTelemetrySubscriptionsV0 |-> GetTelemetrySubscriptionsV0,
    ListClientMetricsResourcesV0 |-> ListClientMetricsResourcesV0,
    PushTelemetryV0 |-> PushTelemetryV0]
=============================================================================
