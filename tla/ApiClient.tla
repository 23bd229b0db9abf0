-------------------------------- MODULE ApiClient ---------------------------
(***************************************************************************)
(* The classes and enumerations of the generated Python client, each as    *)
(* what its attributes, to_dict and from_dict say: the keys on the wire,   *)
(* which of them may be UNSET (Opt) or None (OrNull), and the conversion   *)
(* of each value; how a table is read and written is in Wire.  The         *)
(* client's endpoints are in ApiContract.                                  *)
(***************************************************************************)
EXTENDS Wire

ActionClaimIn == [attempt |-> Num, claimToken |-> Opt(OrNull(Str))]

ActionCompleteIn == [attempt |-> Num, result |-> Opt(Json)]

ActionOutStatus == {"claimed", "completed", "in_doubt"}

ActionOut == [key |-> Str, status |-> Enum(ActionOutStatus), result |-> Opt(Json)]

AgentEventInPayload == Map(Json)

AgentEventInType == {"run.artifact", "run.log", "run.metric", "run.progress"}

AgentEventIn ==
  [attempt |-> Num, type |-> Enum(AgentEventInType), payload |-> AgentEventInPayload]

AgentStartInInputType0 == Map(Json)

AgentStartIn ==
  [attempt |-> Num, agentId |-> Str, startKey |-> Str,
   input |-> Opt(OrNull(AgentStartInInputType0))]

AgentStartOutState ==
  {"CANCELLED", "CANCELLING", "FAILED", "INTERRUPTED", "LOADING_MODEL", "PREPARING", "QUEUED",
   "RUNNING", "SUCCEEDED", "WAITING_INPUT"}

AgentStartOut ==
  [runId |-> Uuid, agentId |-> Str, installationId |-> Uuid,
   state |-> Enum(AgentStartOutState), created |-> Bool]

AgentVersionOutConfigurationschema == Map(Json)

AgentVersionOutPermissions == Map(Json)

AgentVersionOutResources == Map(Json)

AgentVersionOutResultSchemaType0 == Map(Json)

AgentVersionOut ==
  [id |-> Uuid, version |-> Str, image |-> Str, imageDigest |-> Str, sdkProtocol |-> Str,
   architectures |-> Strs, triggers |-> Strs, permissions |-> AgentVersionOutPermissions,
   resources |-> AgentVersionOutResources,
   configurationSchema |-> AgentVersionOutConfigurationschema,
   resultSchema |-> OrNull(AgentVersionOutResultSchemaType0), compatible |-> Bool,
   compatibilityIssues |-> Strs, createdAt |-> Date]

AskInPreviewType0 == Map(Json)

AskInSchema == Map(Json)

AskIn ==
  [attempt |-> Num, key |-> Str, title |-> Str, prompt |-> Str, schema |-> AskInSchema,
   timeoutSeconds |-> Num, preview |-> Opt(OrNull(AskInPreviewType0))]

AttemptIn == [attempt |-> Num]

AttentionItemKind == {"failed_run", "input_request", "model_action", "schedule_blocked"}

AttentionItem ==
  [kind |-> Enum(AttentionItemKind), title |-> Str, detail |-> Str,
   runId |-> Opt(OrNull(Uuid)), inputRequestId |-> Opt(OrNull(Uuid)),
   scheduleId |-> Opt(OrNull(Uuid)), modelId |-> Opt(OrNull(Str)),
   createdAt |-> Opt(OrNull(Date))]

AttentionOut == [count |-> Num, items |-> List(Cls(AttentionItem))]

AuditEventOutMetadata == Map(Json)

AuditEventOut ==
  [id |-> Uuid, actorType |-> Str, actorId |-> OrNull(Str), action |-> Str,
   targetType |-> OrNull(Str), targetId |-> OrNull(Str), outcome |-> Str,
   requestId |-> OrNull(Str), metadata |-> AuditEventOutMetadata, createdAt |-> Date]

BackupErrorOut == [code |-> Str, message |-> Str]

BackupOutSource == {"api", "device"}

BackupOutStatus == {"failed", "queued", "running", "succeeded"}

BackupOut ==
  [id |-> Str, status |-> Enum(BackupOutStatus), source |-> Enum(BackupOutSource),
   createdAt |-> OrNull(Date), finishedAt |-> OrNull(Date), sizeBytes |-> OrNull(Num),
   includesMasterKey |-> Bool, platformVersion |-> OrNull(Str), migrationHead |-> OrNull(Str),
   documentCount |-> OrNull(Num), downloadable |-> Bool, error |-> OrNull(Cls(BackupErrorOut)),
   sha256 |-> Opt(OrNull(Str))]

BackupPage ==
  [items |-> List(Cls(BackupOut)), enabled |-> Bool, location |-> OrNull(Str),
   retention |-> Num, includes |-> Strs, excludes |-> Strs, nextCursor |-> Opt(OrNull(Str))]

BatchEventPayload == Map(Json)

BatchEvent ==
  [clientEventId |-> Str, type |-> Str, payload |-> BatchEventPayload,
   occurredAt |-> Opt(OrNull(Date))]

BodyTranscribeAudioApiV1ModelsModelIdTranscriptionsPost ==
  [file |-> Str, language |-> Opt(OrNull(Str))]

BodyUploadDocumentApiV1KnowledgeBasesKbIdDocumentsPost == [file |-> Str]

BootstrapIn == [token |-> Str, username |-> Str, password |-> Str, email |-> Opt(OrNull(Str))]

BootstrapStatusOut == [ownerExists |-> Bool]

CatalogAgentOutSource == {"bundled", "imported"}

CatalogAgentOutTruststatus == {"curated", "imported_unreviewed"}

CatalogAgentOut ==
  [agentId |-> Str, name |-> Str, summary |-> Str, publisher |-> Str,
   source |-> Enum(CatalogAgentOutSource), trustStatus |-> Enum(CatalogAgentOutTruststatus),
   currentVersion |-> Str, versions |-> Strs, latest |-> Cls(AgentVersionOut),
   installed |-> Bool]

CatalogImportInManifest == Map(Json)

CatalogImportIn == [manifest |-> CatalogImportInManifest]

ChatMessageIn == [content |-> Str]

ChatMessageOutCitationsItem == Map(Json)

ChatMessageOutRole == {"assistant", "user"}

ChatMessageOutStatus == {"complete", "failed", "stopped", "streaming"}

ChatMessageOutUsageType0 == Map(Json)

ChatMessageOut ==
  [id |-> Uuid, role |-> Enum(ChatMessageOutRole), content |-> Str,
   status |-> Enum(ChatMessageOutStatus), citations |-> List(ChatMessageOutCitationsItem),
   model |-> OrNull(Str), provider |-> OrNull(Str), usage |-> OrNull(ChatMessageOutUsageType0),
   createdAt |-> Date]

ChatSessionCreateInRetrievalmode == {"only_knowledge", "when_relevant"}

ChatSessionCreateIn ==
  [title |-> Opt(OrNull(Str)), modelProfile |-> Opt(Str),
   knowledgeBaseId |-> Opt(OrNull(Uuid)),
   retrievalMode |-> Opt(Enum(ChatSessionCreateInRetrievalmode))]

ChatSessionDetailOut ==
  [id |-> Uuid, title |-> Str, modelProfile |-> Str, knowledgeBaseId |-> OrNull(Uuid),
   retrievalMode |-> Str, enabled |-> Bool, holdsModelLease |-> Bool, version |-> Num,
   createdAt |-> Date, updatedAt |-> Date, lastMessageAt |-> OrNull(Date),
   messages |-> List(Cls(ChatMessageOut)), local |-> Opt(Bool)]

ChatSessionOut ==
  [id |-> Uuid, title |-> Str, modelProfile |-> Str, knowledgeBaseId |-> OrNull(Uuid),
   retrievalMode |-> Str, enabled |-> Bool, holdsModelLease |-> Bool, version |-> Num,
   createdAt |-> Date, updatedAt |-> Date, lastMessageAt |-> OrNull(Date), local |-> Opt(Bool)]

CitationOutLocator == Map(Json)

PassageDocument == [id |-> Uuid, name |-> Str]

CitationOut ==
  [index |-> Num, citationId |-> Str, text |-> Str, document |-> Cls(PassageDocument),
   locator |-> CitationOutLocator, location |-> Str, knowledgeBaseId |-> Uuid,
   documentAvailable |-> Bool, score |-> Opt(OrNull(Num)), documentState |-> Opt(OrNull(Str))]

ConnectionOutProvider == {"anthropic", "github", "google", "openai", "twilio"}

ConnectionOutStatus == {"CONNECTED", "DISABLED", "NEEDS_ATTENTION", "NOT_CONNECTED", "UNKNOWN"}

ConnectionOut ==
  [provider |-> Enum(ConnectionOutProvider), displayName |-> Str,
   status |-> Enum(ConnectionOutStatus), grantedCapabilities |-> Strs,
   lastCheckedAt |-> OrNull(Date), account |-> Opt(OrNull(Str)), detail |-> Opt(OrNull(Str))]

DocumentOutErrorType0 == Map(Json)

DocumentOutExtractedType0 == Map(Json)

DocumentOutState == {"FAILED", "PENDING", "PROCESSING", "READY"}

DocumentOut ==
  [id |-> Uuid, knowledgeBaseId |-> Uuid, name |-> Str, mime |-> Str, bytes |-> Num,
   sha256 |-> Str, state |-> Enum(DocumentOutState), createdAt |-> Date, updatedAt |-> Date,
   extracted |-> Opt(OrNull(DocumentOutExtractedType0)),
   error |-> Opt(OrNull(DocumentOutErrorType0))]

ErrorDetailDetails == Map(Json)

ErrorDetail ==
  [code |-> Str, message |-> Str, requestId |-> Opt(OrNull(Str)),
   details |-> Opt(ErrorDetailDetails)]

ErrorResponse == [error |-> Cls(ErrorDetail)]

EventBatchIn == [attempt |-> Num, events |-> List(Cls(BatchEvent))]

EventBatchOut == [accepted |-> Num, duplicates |-> Num, lastSequence |-> Num]

GoogleStartInCapabilitiesItem == {"gmail.readonly", "spreadsheets"}

GoogleStartIn == [capabilities |-> List(Enum(GoogleStartInCapabilitiesItem))]

GoogleStartOut == [authorizationUrl |-> Str]

HealthOutChecks == Map(Str)

HealthOutStatus == {"ok", "unavailable"}

HealthOut == [status |-> Enum(HealthOutStatus), checks |-> Opt(HealthOutChecks)]

HeartbeatOutState ==
  {"CANCELLED", "CANCELLING", "FAILED", "INTERRUPTED", "LOADING_MODEL", "PREPARING", "QUEUED",
   "RUNNING", "SUCCEEDED", "WAITING_INPUT"}

HeartbeatOut == [state |-> Enum(HeartbeatOutState), cancelRequested |-> Bool]

ValidationErrorContext == Map(Json)

ValidationError ==
  [loc |-> List(Json), msg |-> Str, type |-> Str, input |-> Opt(Json),
   ctx |-> Opt(ValidationErrorContext)]

HTTPValidationError == [detail |-> Opt(List(Cls(ValidationError)))]

InputAnswerIn == [version |-> Num, value |-> Json]

InputRequestOutPreviewType0 == Map(Json)

InputRequestOutSchema == Map(Json)

InputRequestOutState == {"answered", "cancelled", "expired", "pending"}

InputRequestOut ==
  [id |-> Uuid, runId |-> Uuid, key |-> Str, title |-> Str, prompt |-> Str,
   schema |-> InputRequestOutSchema, preview |-> OrNull(InputRequestOutPreviewType0),
   state |-> Enum(InputRequestOutState), deadline |-> Date, version |-> Num,
   createdAt |-> Date, answeredAt |-> OrNull(Date), agentName |-> Opt(OrNull(Str)),
   answer |-> Opt(OrNull(Json))]

InstallationCreateInApprovedpermissions == Map(Json)

InstallationCreateInConfig == Map(Json)

InstallationCreateInModelbindings == Map(Str)

InstallationCreateIn ==
  [agentId |-> Str, approvedPermissions |-> InstallationCreateInApprovedpermissions,
   version |-> Opt(OrNull(Str)), config |-> Opt(InstallationCreateInConfig),
   modelBindings |-> Opt(InstallationCreateInModelbindings), enabled |-> Opt(Bool)]

InstallationOutApprovedpermissions == Map(Json)

InstallationOutConfig == Map(Json)

InstallationOutModelbindings == Map(Str)

InstallationOutRequestedpermissions == Map(Json)

ReadinessCheckName ==
  {"architecture", "configuration", "connection", "enabled", "model", "permissions"}

ReadinessCheckStatus == {"missing", "needs_attention", "ok"}

ReadinessCheck ==
  [name |-> Enum(ReadinessCheckName), status |-> Enum(ReadinessCheckStatus), detail |-> Str,
   resource |-> Opt(OrNull(Str))]

Readiness == [ready |-> Bool, checks |-> List(Cls(ReadinessCheck))]

InstallationOut ==
  [id |-> Uuid, agentId |-> Str, agentName |-> Str, agentVersion |-> Str,
   agentVersionId |-> Uuid, config |-> InstallationOutConfig,
   requestedPermissions |-> InstallationOutRequestedpermissions,
   approvedPermissions |-> InstallationOutApprovedpermissions, capabilities |-> Strs,
   modelBindings |-> InstallationOutModelbindings, needsReapproval |-> Bool, enabled |-> Bool,
   version |-> Num, readiness |-> Cls(Readiness), createdAt |-> Date, updatedAt |-> Date]

InstallationPatchInApprovedPermissionsType0 == Map(Json)

InstallationPatchInConfigType0 == Map(Json)

InstallationPatchInModelBindingsType0 == Map(Str)

InstallationPatchIn ==
  [version |-> Num, agentVersion |-> Opt(OrNull(Str)),
   config |-> Opt(OrNull(InstallationPatchInConfigType0)),
   approvedPermissions |-> Opt(OrNull(InstallationPatchInApprovedPermissionsType0)),
   modelBindings |-> Opt(OrNull(InstallationPatchInModelBindingsType0)),
   enabled |-> Opt(OrNull(Bool))]

InternalRunOutConfig == Map(Json)

InternalRunOutModelbindings == Map(Str)

InternalRunOutPermissions == Map(Json)

InternalRunOutState ==
  {"CANCELLED", "CANCELLING", "FAILED", "INTERRUPTED", "LOADING_MODEL", "PREPARING", "QUEUED",
   "RUNNING", "SUCCEEDED", "WAITING_INPUT"}

InternalRunOutTrigger == {"agent", "manual", "schedule"}

InternalRunOutTriggerInputType0 == Map(Json)

InternalRunOut ==
  [id |-> Uuid, state |-> Enum(InternalRunOutState), currentAttempt |-> Num,
   installationId |-> Uuid, trigger |-> Enum(InternalRunOutTrigger),
   scheduledFor |-> OrNull(Date), agentId |-> Str, agentVersion |-> Str,
   agentVersionId |-> Uuid, createdAt |-> Date, activeTimeoutSeconds |-> Num,
   activeSecondsRemaining |-> Num, maxInputWaitSeconds |-> Num,
   inputWaitRemainingSeconds |-> Num, cancelRequested |-> Bool,
   capabilityTokenId |-> OrNull(Str), permissions |-> InternalRunOutPermissions,
   modelBindings |-> InternalRunOutModelbindings, config |-> InternalRunOutConfig,
   parentRunId |-> Opt(OrNull(Uuid)),
   triggerInput |-> Opt(OrNull(InternalRunOutTriggerInputType0))]

KnowledgeBaseCreateIn == [name |-> Str]

KnowledgeBaseOut ==
  [id |-> Uuid, name |-> Str, embeddingProfile |-> Str, embeddingDimension |-> Num,
   createdAt |-> Date]

KnowledgeFilters == [documentIds |-> Opt(List(Uuid))]

KnowledgeQueryIn ==
  [query |-> Str, topK |-> Opt(Num), maxContextTokens |-> Opt(Num),
   filters |-> Opt(Cls(KnowledgeFilters))]

PassageOutLocator == Map(Json)

PassageOut ==
  [citationId |-> Str, text |-> Str, score |-> Num, document |-> Cls(PassageDocument),
   locator |-> PassageOutLocator, location |-> Str]

KnowledgeQueryOut == [knowledgeBaseId |-> Uuid, passages |-> List(Cls(PassageOut))]

ListRunsApiV1RunsGetStateType0Item ==
  {"CANCELLED", "CANCELLING", "FAILED", "INTERRUPTED", "LOADING_MODEL", "PREPARING", "QUEUED",
   "RUNNING", "SUCCEEDED", "WAITING_INPUT"}

LoginIn == [username |-> Str, password |-> Str]

MemoryOutModelsItem == Map(Json)

MemoryOut ==
  [totalBytes |-> OrNull(Num), availableBytes |-> OrNull(Num), systemReserveBytes |-> Num,
   maxServingBytes |-> Num, safetyMarginBytes |-> Num, reservedBytes |-> Num,
   models |-> List(MemoryOutModelsItem)]

ModelCancelInstallIn == [clear |-> Opt(Bool)]

ModelDownloadOut ==
  [bytesDone |-> Opt(Num), bytesTotal |-> Opt(OrNull(Num)), currentFile |-> Opt(OrNull(Str)),
   revision |-> Opt(OrNull(Str))]

ModelLeaseOutHoldertype == {"chat", "manual", "run"}

ModelLeaseOut ==
  [id |-> Str, holderType |-> Enum(ModelLeaseOutHoldertype), holderId |-> Str, label |-> Str,
   expiresAt |-> Date]

ModelOutDownloadstate ==
  {"DELETING", "DOWNLOADING", "DOWNLOAD_ERROR", "INSTALLED", "NOT_INSTALLED"}

ModelOutErrorType0 == Map(Json)

ModelOutLicenseType0 == Map(Json)

ModelOutMemorystate == {"DRAINING", "ERROR", "LOADING", "LOAD_ERROR", "NOT_LOADED", "READY"}

ModelVoiceOut == [id |-> Str, label |-> Str]

ModelOut ==
  [id |-> Str, displayName |-> Str, family |-> Str,
   downloadState |-> Enum(ModelOutDownloadstate), memoryState |-> Enum(ModelOutMemorystate),
   backend |-> Opt(Str), stage |-> Opt(OrNull(Str)), diskBytes |-> Opt(OrNull(Num)),
   download |-> Opt(Cls(ModelDownloadOut)), expectedMemoryBytes |-> Opt(OrNull(Num)),
   reservedBytes |-> Opt(Num), contextLimit |-> Opt(OrNull(Num)), capabilities |-> Opt(Strs),
   validation |-> Opt(OrNull(Str)), license |-> Opt(OrNull(ModelOutLicenseType0)),
   voices |-> Opt(List(Cls(ModelVoiceOut))), error |-> Opt(OrNull(ModelOutErrorType0)),
   loadStartedAt |-> Opt(OrNull(Date)), readyAt |-> Opt(OrNull(Date)),
   idleUnloadAt |-> Opt(OrNull(Date)), activeLeases |-> Opt(List(Cls(ModelLeaseOut)))]

ModelStateIn == [attempt |-> Num, loading |-> Bool, model |-> Opt(OrNull(Str))]

ModelUnloadIn == [force |-> Opt(Bool)]

OccurrenceOut == [at |-> Date, local |-> Str, zoneAbbreviation |-> Str]

PageAuditEventOut == [items |-> List(Cls(AuditEventOut)), nextCursor |-> Opt(OrNull(Str))]

PageCatalogAgentOut == [items |-> List(Cls(CatalogAgentOut)), nextCursor |-> Opt(OrNull(Str))]

PageChatSessionOut == [items |-> List(Cls(ChatSessionOut)), nextCursor |-> Opt(OrNull(Str))]

PageConnectionOut == [items |-> List(Cls(ConnectionOut)), nextCursor |-> Opt(OrNull(Str))]

PageDocumentOut == [items |-> List(Cls(DocumentOut)), nextCursor |-> Opt(OrNull(Str))]

PageInputRequestOut == [items |-> List(Cls(InputRequestOut)), nextCursor |-> Opt(OrNull(Str))]

PageInstallationOut == [items |-> List(Cls(InstallationOut)), nextCursor |-> Opt(OrNull(Str))]

PageKnowledgeBaseOut == [items |-> List(Cls(KnowledgeBaseOut)), nextCursor |-> Opt(OrNull(Str))]

PageModelOut == [items |-> List(Cls(ModelOut)), nextCursor |-> Opt(OrNull(Str))]

ProviderProfileOutBudgets == Map(Json)

ProviderProfileOutProvider == {"anthropic", "openai"}

ProviderProfileOut ==
  [id |-> Uuid, provider |-> Enum(ProviderProfileOutProvider), displayName |-> Str,
   allowedModels |-> Strs, budgets |-> ProviderProfileOutBudgets, enabled |-> Bool,
   status |-> Str, lastCheckedAt |-> OrNull(Date)]

PageProviderProfileOut ==
  [items |-> List(Cls(ProviderProfileOut)), nextCursor |-> Opt(OrNull(Str))]

RunOutErrorType0 == Map(Json)

RunOutResultType0 == Map(Json)

RunOutState_Older ==
  {"CANCELLED", "CANCELLING", "FAILED", "INTERRUPTED", "PREPARING", "QUEUED", "RUNNING",
   "SUCCEEDED", "WAITING_INPUT"}

RunOutState ==
  {"CANCELLED", "CANCELLING", "FAILED", "INTERRUPTED", "LOADING_MODEL", "PREPARING", "QUEUED",
   "RUNNING", "SUCCEEDED", "WAITING_INPUT"}

RunOutTrigger == {"agent", "manual", "schedule"}

RunOut ==
  [id |-> Uuid, installationId |-> Uuid, agentId |-> Str, agentName |-> Str,
   agentVersion |-> Str, trigger |-> Enum(RunOutTrigger), scheduleId |-> OrNull(Uuid),
   scheduledFor |-> OrNull(Date), state |-> Enum(RunOutState), currentAttempt |-> Num,
   result |-> OrNull(RunOutResultType0), error |-> OrNull(RunOutErrorType0),
   retryable |-> Bool, cancelRequested |-> Bool, acknowledgedAt |-> OrNull(Date),
   activeSecondsUsed |-> Num, inputWaitSecondsUsed |-> Num, activeTimeoutSeconds |-> Num,
   maxInputWaitSeconds |-> Num, usesCloud |-> Bool, pendingInputCount |-> Num,
   createdAt |-> Date, startedAt |-> OrNull(Date), finishedAt |-> OrNull(Date),
   updatedAt |-> Date, parentRunId |-> Opt(OrNull(Uuid))]

PageRunOut == [items |-> List(Cls(RunOut)), nextCursor |-> Opt(OrNull(Str))]

ScheduleOutMisfirepolicy == {"fire_once", "skip"}

ScheduleOut ==
  [id |-> Uuid, installationId |-> Uuid, agentName |-> Str, ready |-> Bool,
   blockers |-> List(Cls(ReadinessCheck)), cron |-> Str, timezone |-> Str,
   misfirePolicy |-> Enum(ScheduleOutMisfirepolicy), enabled |-> Bool,
   nextRunAt |-> OrNull(Date), nextOccurrences |-> List(Cls(OccurrenceOut)),
   lastFiredAt |-> OrNull(Date), lastRunId |-> OrNull(Uuid), version |-> Num,
   createdAt |-> Date, updatedAt |-> Date]

PageScheduleOut == [items |-> List(Cls(ScheduleOut)), nextCursor |-> Opt(OrNull(Str))]

ProviderProfileCreateInBudgets == Map(Json)

ProviderProfileCreateInProvider == {"anthropic", "openai"}

ProviderProfileCreateIn ==
  [provider |-> Enum(ProviderProfileCreateInProvider), displayName |-> Str, apiKey |-> Str,
   allowedModels |-> Opt(Strs), budgets |-> Opt(ProviderProfileCreateInBudgets),
   enabled |-> Opt(Bool)]

ProviderProfileTestOutStatus == {"CONNECTED", "ERROR"}

ProviderProfileTestOut ==
  [status |-> Enum(ProviderProfileTestOutStatus), checkedAt |-> Date,
   detail |-> Opt(OrNull(Str))]

RunCreateIn == [installationId |-> Uuid]

RunEventOutPayload == Map(Json)

RunEventOut ==
  [runId |-> Uuid, sequence |-> Num, attempt |-> Num, type |-> Str,
   payload |-> RunEventOutPayload, createdAt |-> Date, occurredAt |-> Opt(OrNull(Date))]

RunResultInErrorType0 == Map(Json)

RunResultInResultType0 == Map(Json)

RunResultInStatus == {"failed", "succeeded"}

RunResultIn ==
  [attempt |-> Num, status |-> Enum(RunResultInStatus),
   result |-> Opt(OrNull(RunResultInResultType0)),
   error |-> Opt(OrNull(RunResultInErrorType0))]

ScheduleCreateInMisfirepolicy == {"fire_once", "skip"}

ScheduleCreateIn ==
  [installationId |-> Uuid, cron |-> Str, timezone |-> Str,
   misfirePolicy |-> Opt(Enum(ScheduleCreateInMisfirepolicy)), enabled |-> Opt(Bool)]

SchedulePatchInMisfirePolicyType0 == {"fire_once", "skip"}

SchedulePatchIn ==
  [version |-> Num, cron |-> Opt(OrNull(Str)), timezone |-> Opt(OrNull(Str)),
   misfirePolicy |-> Opt(OrNull(Enum(SchedulePatchInMisfirePolicyType0))),
   enabled |-> Opt(OrNull(Bool))]

SchedulePreviewIn == [cron |-> Str, timezone |-> Str, count |-> Opt(Num)]

SchedulePreviewOut == [cron |-> Str, timezone |-> Str, occurrences |-> List(Cls(OccurrenceOut))]

UserOutRole == {"member", "owner"}

UserOut ==
  [id |-> Uuid, username |-> Str, email |-> OrNull(Str), role |-> Enum(UserOutRole),
   createdAt |-> Date]

SessionOut ==
  [user |-> Cls(UserOut), csrfToken |-> Str, expiresAt |-> Date, idleExpiresAt |-> Date]

SettingsOutCallbackurls == Map(Str)

SettingsOutSetupstate == Map(Json)

SettingsOutVersions == Map(Num)

SettingsOut ==
  [timezone |-> Str, idleUnloadSeconds |-> Num, callbackBaseUrl |-> Str,
   callbackUrls |-> SettingsOutCallbackurls, setupCompleted |-> Bool,
   setupState |-> SettingsOutSetupstate, versions |-> SettingsOutVersions]

SettingsPatchInSetupStateType0 == Map(Json)

SettingsPatchInVersions == Map(Num)

SettingsPatchIn ==
  [timezone |-> Opt(OrNull(Str)), idleUnloadSeconds |-> Opt(OrNull(Num)),
   callbackBaseUrl |-> Opt(OrNull(Str)), setupCompleted |-> Opt(OrNull(Bool)),
   setupState |-> Opt(OrNull(SettingsPatchInSetupStateType0)),
   versions |-> Opt(SettingsPatchInVersions)]

SpeechIn == [text |-> Str, voice |-> Opt(Str)]

StatusCheckGroup == {"database", "device", "models", "network", "runtime", "storage"}

StatusCheckStatus == {"failed", "passed", "warning"}

StatusCheck ==
  [group |-> Enum(StatusCheckGroup), name |-> Str, status |-> Enum(StatusCheckStatus),
   detail |-> Str, checkedAt |-> Date]

SystemStatusOutRuntime == Map(Json)

SystemStatusOutStatus == {"degraded", "healthy", "offline"}

SystemStatusOut ==
  [status |-> Enum(SystemStatusOutStatus), profile |-> Str, version |-> Str,
   architecture |-> Str, checks |-> List(Cls(StatusCheck)), runtime |-> SystemStatusOutRuntime]

TranscriptionOut ==
  [modelId |-> Str, text |-> Str, language |-> Opt(OrNull(Str)),
   audioSeconds |-> Opt(OrNull(Num)), latencyMs |-> Opt(Num), requestId |-> Opt(OrNull(Str))]

TwilioCredentialsIn == [accountSid |-> Str, authToken |-> Str, fromNumber |-> Str]

TwilioTestCallIn == [to |-> Str, confirm |-> Bool]

TwilioTestCallOut == [placed |-> Bool, to |-> Str, status |-> Opt(OrNull(Str))]

VoiceCallIn == [to |-> Str, confirm |-> Bool, voice |-> Opt(Str), instructions |-> Opt(Str)]

VoiceCallOutState == {"connected", "created", "dialing", "ended", "failed", "ringing"}

VoiceTurnOutRole == {"assistant", "caller"}

VoiceTurnOutTimings == Map(Num)

VoiceTurnOut ==
  [role |-> Enum(VoiceTurnOutRole), text |-> Str, at |-> Date, interrupted |-> Opt(Bool),
   timings |-> Opt(VoiceTurnOutTimings)]

VoiceCallOut ==
  [id |-> Str, state |-> Enum(VoiceCallOutState), to |-> Str, voice |-> Str,
   createdAt |-> Date, simulated |-> Opt(Bool), connectedAt |-> Opt(OrNull(Date)),
   endedAt |-> Opt(OrNull(Date)), durationSeconds |-> Opt(OrNull(Num)),
   endReason |-> Opt(OrNull(Str)), error |-> Opt(OrNull(Str)),
   turns |-> Opt(List(Cls(VoiceTurnOut)))]

=============================================================================
