-------------------------------- MODULE ApiServer ---------------------------
(***************************************************************************)
(* The control API.  First its request and response models: each class     *)
(* with its camel case keys, which of them have a default, and their       *)
(* types.  Bounds on lengths, patterns and ranges are left out: the texts  *)
(* and numbers of the instances are within them.  Then its routes in the   *)
(* order in which create_app includes the routers: method, path template,  *)
(* query parameters and headers, body, status and answer of a success, and *)
(* the failures the route declares.                                        *)
(***************************************************************************)
EXTENDS Wire

ErrorDetail ==
  [code |-> Str, message |-> Str, requestId |-> Default(OrNull(Str)),
   details |-> Default(Map(Json))]

ErrorResponse == [error |-> Cls(ErrorDetail)]

Page(T) == [items |-> List(Cls(T)), nextCursor |-> Default(OrNull(Str))]

UserOut ==
  [id |-> Uuid, username |-> Str, email |-> OrNull(Str), role |-> Enum({"owner", "member"}),
   createdAt |-> Date]

BootstrapIn ==
  [token |-> Str, username |-> Str, password |-> Str, email |-> Default(OrNull(Str))]

LoginIn == [username |-> Str, password |-> Str]

BootstrapStatusOut == [ownerExists |-> Bool]

SessionOut ==
  [user |-> Cls(UserOut), csrfToken |-> Str, expiresAt |-> Date, idleExpiresAt |-> Date]

AgentVersionOut ==
  [id |-> Uuid, version |-> Str, image |-> Str, imageDigest |-> Str, sdkProtocol |-> Str,
   architectures |-> List(Str), triggers |-> List(Str), permissions |-> Map(Json),
   resources |-> Map(Json), configurationSchema |-> Map(Json),
   resultSchema |-> OrNull(Map(Json)), compatible |-> Bool, compatibilityIssues |-> List(Str),
   createdAt |-> Date]

CatalogAgentOut ==
  [agentId |-> Str, name |-> Str, summary |-> Str, publisher |-> Str,
   source |-> Enum({"bundled", "imported"}),
   trustStatus |-> Enum({"curated", "imported_unreviewed"}), currentVersion |-> Str,
   versions |-> List(Str), latest |-> Cls(AgentVersionOut), installed |-> Bool]

CatalogImportIn == [manifest |-> Map(Json)]

ReadinessCheck ==
  [name |-> Enum({"enabled", "permissions", "configuration", "architecture", "connection", "model"}),
   status |-> Enum({"ok", "missing", "needs_attention"}), detail |-> Str,
   resource |-> Default(OrNull(Str))]

Readiness == [ready |-> Bool, checks |-> List(Cls(ReadinessCheck))]

InstallationCreateIn ==
  [agentId |-> Str, version |-> Default(OrNull(Str)), config |-> Default(Map(Json)),
   approvedPermissions |-> Map(Json), modelBindings |-> Default(Map(Str)),
   enabled |-> Default(Bool)]

InstallationPatchIn ==
  [version |-> Num, agentVersion |-> Default(OrNull(Str)),
   config |-> Default(OrNull(Map(Json))), approvedPermissions |-> Default(OrNull(Map(Json))),
   modelBindings |-> Default(OrNull(Map(Str))), enabled |-> Default(OrNull(Bool))]

InstallationOut ==
  [id |-> Uuid, agentId |-> Str, agentName |-> Str, agentVersion |-> Str,
   agentVersionId |-> Uuid, config |-> Map(Json), requestedPermissions |-> Map(Json),
   approvedPermissions |-> Map(Json), capabilities |-> List(Str), modelBindings |-> Map(Str),
   needsReapproval |-> Bool, enabled |-> Bool, version |-> Num, readiness |-> Cls(Readiness),
   createdAt |-> Date, updatedAt |-> Date]

RunStateLiteral == Enum(
  {"QUEUED", "PREPARING", "LOADING_MODEL", "RUNNING", "WAITING_INPUT", "CANCELLING",
   "SUCCEEDED", "FAILED", "CANCELLED", "INTERRUPTED"})

RunCreateIn == [installationId |-> Uuid]

RunOut ==
  [id |-> Uuid, installationId |-> Uuid, agentId |-> Str, agentName |-> Str,
   agentVersion |-> Str, trigger |-> Enum({"manual", "schedule", "agent"}),
   parentRunId |-> Default(OrNull(Uuid)), scheduleId |-> OrNull(Uuid),
   scheduledFor |-> OrNull(Date), state |-> RunStateLiteral, currentAttempt |-> Num,
   result |-> OrNull(Map(Json)), error |-> OrNull(Map(Json)), retryable |-> Bool,
   cancelRequested |-> Bool, acknowledgedAt |-> OrNull(Date), activeSecondsUsed |-> Num,
   inputWaitSecondsUsed |-> Num, activeTimeoutSeconds |-> Num, maxInputWaitSeconds |-> Num,
   usesCloud |-> Bool, pendingInputCount |-> Num, createdAt |-> Date,
   startedAt |-> OrNull(Date), finishedAt |-> OrNull(Date), updatedAt |-> Date]

RunEventOut ==
  [runId |-> Uuid, sequence |-> Num, attempt |-> Num, type |-> Str, payload |-> Map(Json),
   createdAt |-> Date, occurredAt |-> Default(OrNull(Date))]

InputRequestOut ==
  [id |-> Uuid, runId |-> Uuid, agentName |-> Default(OrNull(Str)), key |-> Str, title |-> Str,
   prompt |-> Str, schema |-> Map(Json), preview |-> OrNull(Map(Json)),
   state |-> Enum({"pending", "answered", "cancelled", "expired"}), answer |-> Default(Json),
   deadline |-> Date, version |-> Num, createdAt |-> Date, answeredAt |-> OrNull(Date)]

InputAnswerIn == [version |-> Num, value |-> Json]

ScheduleCreateIn ==
  [installationId |-> Uuid, cron |-> Str, timezone |-> Str,
   misfirePolicy |-> Default(Enum({"fire_once", "skip"})), enabled |-> Default(Bool)]

SchedulePatchIn ==
  [version |-> Num, cron |-> Default(OrNull(Str)), timezone |-> Default(OrNull(Str)),
   misfirePolicy |-> Default(OrNull(Enum({"fire_once", "skip"}))),
   enabled |-> Default(OrNull(Bool))]

SchedulePreviewIn == [cron |-> Str, timezone |-> Str, count |-> Default(Num)]

OccurrenceOut == [at |-> Date, local |-> Str, zoneAbbreviation |-> Str]

SchedulePreviewOut == [cron |-> Str, timezone |-> Str, occurrences |-> List(Cls(OccurrenceOut))]

ScheduleOut ==
  [id |-> Uuid, installationId |-> Uuid, agentName |-> Str, ready |-> Bool,
   blockers |-> List(Cls(ReadinessCheck)), cron |-> Str, timezone |-> Str,
   misfirePolicy |-> Enum({"fire_once", "skip"}), enabled |-> Bool, nextRunAt |-> OrNull(Date),
   nextOccurrences |-> List(Cls(OccurrenceOut)), lastFiredAt |-> OrNull(Date),
   lastRunId |-> OrNull(Uuid), version |-> Num, createdAt |-> Date, updatedAt |-> Date]

ModelLeaseOut ==
  [id |-> Str, holderType |-> Enum({"run", "chat", "manual"}), holderId |-> Str, label |-> Str,
   expiresAt |-> Date]

ModelDownloadOut ==
  [bytesDone |-> Default(Num), bytesTotal |-> Default(OrNull(Num)),
   currentFile |-> Default(OrNull(Str)), revision |-> Default(OrNull(Str))]

ModelVoiceOut == [id |-> Str, label |-> Str]

ModelOut ==
  [id |-> Str, displayName |-> Str, family |-> Str, backend |-> Default(Str),
   downloadState |-> Enum({"NOT_INSTALLED", "DOWNLOADING", "INSTALLED", "DOWNLOAD_ERROR", "DELETING"}),
   memoryState |-> Enum({"NOT_LOADED", "LOADING", "READY", "DRAINING", "LOAD_ERROR", "ERROR"}),
   stage |-> Default(OrNull(Str)), diskBytes |-> Default(OrNull(Num)),
   download |-> Default(Cls(ModelDownloadOut)), expectedMemoryBytes |-> Default(OrNull(Num)),
   reservedBytes |-> Default(Num), contextLimit |-> Default(OrNull(Num)),
   capabilities |-> Default(List(Str)), validation |-> Default(OrNull(Str)),
   license |-> Default(OrNull(Map(Json))), voices |-> Default(List(Cls(ModelVoiceOut))),
   error |-> Default(OrNull(Map(Json))), loadStartedAt |-> Default(OrNull(Date)),
   readyAt |-> Default(OrNull(Date)), idleUnloadAt |-> Default(OrNull(Date)),
   activeLeases |-> Default(List(Cls(ModelLeaseOut)))]

ModelUnloadIn == [force |-> Default(Bool)]

TranscriptionOut ==
  [modelId |-> Str, text |-> Str, language |-> Default(OrNull(Str)),
   audioSeconds |-> Default(OrNull(Num)), latencyMs |-> Default(Num),
   requestId |-> Default(OrNull(Str))]

SpeechIn == [text |-> Str, voice |-> Default(Str)]

ModelCancelInstallIn == [clear |-> Default(Bool)]

MemoryOut ==
  [totalBytes |-> OrNull(Num), availableBytes |-> OrNull(Num), systemReserveBytes |-> Num,
   maxServingBytes |-> Num, safetyMarginBytes |-> Num, reservedBytes |-> Num,
   models |-> List(Map(Json))]

ConnectionOut ==
  [provider |-> Enum({"google", "twilio", "github", "openai", "anthropic"}),
   displayName |-> Str,
   status |-> Enum({"NOT_CONNECTED", "CONNECTED", "NEEDS_ATTENTION", "DISABLED", "UNKNOWN"}),
   grantedCapabilities |-> List(Str), lastCheckedAt |-> OrNull(Date),
   account |-> Default(OrNull(Str)), detail |-> Default(OrNull(Str))]

GoogleStartIn == [capabilities |-> List(Enum({"gmail.readonly", "spreadsheets"}))]

GoogleStartOut == [authorizationUrl |-> Str]

TwilioCredentialsIn == [accountSid |-> Str, authToken |-> Str, fromNumber |-> Str]

TwilioTestCallIn == [to |-> Str, confirm |-> Bool]

VoiceCallIn ==
  [to |-> Str, confirm |-> Bool, voice |-> Default(Str), instructions |-> Default(Str)]

VoiceTurnOut ==
  [role |-> Enum({"caller", "assistant"}), text |-> Str, at |-> Date,
   interrupted |-> Default(Bool), timings |-> Default(Map(Num))]

VoiceCallOut ==
  [id |-> Str,
   state |-> Enum({"created", "dialing", "ringing", "connected", "ended", "failed"}),
   to |-> Str, voice |-> Str, simulated |-> Default(Bool), createdAt |-> Date,
   connectedAt |-> Default(OrNull(Date)), endedAt |-> Default(OrNull(Date)),
   durationSeconds |-> Default(OrNull(Num)), endReason |-> Default(OrNull(Str)),
   error |-> Default(OrNull(Str)), turns |-> Default(List(Cls(VoiceTurnOut)))]

TwilioTestCallOut == [placed |-> Bool, to |-> Str, status |-> Default(OrNull(Str))]

ProviderProfileCreateIn ==
  [provider |-> Enum({"openai", "anthropic"}), displayName |-> Str, apiKey |-> Str,
   allowedModels |-> Default(List(Str)), budgets |-> Default(Map(Json)),
   enabled |-> Default(Bool)]

ProviderProfileOut ==
  [id |-> Uuid, provider |-> Enum({"openai", "anthropic"}), displayName |-> Str,
   allowedModels |-> List(Str), budgets |-> Map(Json), enabled |-> Bool, status |-> Str,
   lastCheckedAt |-> OrNull(Date)]

ProviderProfileTestOut ==
  [status |-> Enum({"CONNECTED", "ERROR"}), detail |-> Default(OrNull(Str)),
   checkedAt |-> Date]

KnowledgeBaseCreateIn == [name |-> Str]

KnowledgeBaseOut ==
  [id |-> Uuid, name |-> Str, embeddingProfile |-> Str, embeddingDimension |-> Num,
   createdAt |-> Date]

DocumentOut ==
  [id |-> Uuid, knowledgeBaseId |-> Uuid, name |-> Str, mime |-> Str, bytes |-> Num,
   sha256 |-> Str, state |-> Enum({"PENDING", "PROCESSING", "READY", "FAILED"}),
   extracted |-> Default(OrNull(Map(Json))), error |-> Default(OrNull(Map(Json))),
   createdAt |-> Date, updatedAt |-> Date]

KnowledgeFilters == [documentIds |-> Default(List(Uuid))]

KnowledgeQueryIn ==
  [query |-> Str, topK |-> Default(Num), maxContextTokens |-> Default(Num),
   filters |-> Default(Cls(KnowledgeFilters))]

PassageDocument == [id |-> Uuid, name |-> Str]

PassageOut ==
  [citationId |-> Str, text |-> Str, score |-> Num, document |-> Cls(PassageDocument),
   locator |-> Map(Json), location |-> Str]

KnowledgeQueryOut == [knowledgeBaseId |-> Uuid, passages |-> List(Cls(PassageOut))]

CitationOut ==
  [index |-> Num, citationId |-> Str, text |-> Str, score |-> Default(OrNull(Num)),
   document |-> Cls(PassageDocument), locator |-> Map(Json), location |-> Str,
   knowledgeBaseId |-> Uuid, documentAvailable |-> Bool,
   documentState |-> Default(OrNull(Str))]

SettingsOut ==
  [timezone |-> Str, idleUnloadSeconds |-> Num, callbackBaseUrl |-> Str,
   callbackUrls |-> Map(Str), setupCompleted |-> Bool, setupState |-> Map(Json),
   versions |-> Map(Num)]

SettingsPatchIn ==
  [timezone |-> Default(OrNull(Str)), idleUnloadSeconds |-> Default(OrNull(Num)),
   callbackBaseUrl |-> Default(OrNull(Str)), setupCompleted |-> Default(OrNull(Bool)),
   setupState |-> Default(OrNull(Map(Json))), versions |-> Default(Map(Num))]

StatusCheck ==
  [group |-> Enum({"device", "runtime", "storage", "database", "network", "models"}),
   name |-> Str, status |-> Enum({"passed", "warning", "failed"}), detail |-> Str,
   checkedAt |-> Date]

SystemStatusOut ==
  [status |-> Enum({"healthy", "degraded", "offline"}), profile |-> Str, version |-> Str,
   architecture |-> Str, checks |-> List(Cls(StatusCheck)), runtime |-> Map(Json)]

HealthOut == [status |-> Enum({"ok", "unavailable"}), checks |-> Default(Map(Str))]

AuditEventOut ==
  [id |-> Uuid, actorType |-> Str, actorId |-> OrNull(Str), action |-> Str,
   targetType |-> OrNull(Str), targetId |-> OrNull(Str), outcome |-> Str,
   requestId |-> OrNull(Str), metadata |-> Map(Json), createdAt |-> Date]

AttemptIn == [attempt |-> Num]

AgentEventIn ==
  AttemptIn @@ [type |-> Enum({"run.log", "run.progress", "run.metric", "run.artifact"}),
                payload |-> Map(Json)]

BatchEvent ==
  [clientEventId |-> Str, type |-> Str, occurredAt |-> Default(OrNull(Date)),
   payload |-> Map(Json)]

EventBatchIn == AttemptIn @@ [events |-> List(Cls(BatchEvent))]

EventBatchOut == [accepted |-> Num, duplicates |-> Num, lastSequence |-> Num]

ModelStateIn == AttemptIn @@ [loading |-> Bool, model |-> Default(OrNull(Str))]

RunResultIn ==
  AttemptIn @@ [status |-> Enum({"succeeded", "failed"}),
                result |-> Default(OrNull(Map(Json))), error |-> Default(OrNull(Map(Json)))]

AskIn ==
  AttemptIn @@ [key |-> Str, title |-> Str, prompt |-> Str, schema |-> Map(Json),
                timeoutSeconds |-> Num, preview |-> Default(OrNull(Map(Json)))]

ActionCompleteIn == AttemptIn @@ [result |-> Default(Json)]

HeartbeatOut == [state |-> RunStateLiteral, cancelRequested |-> Bool]

InternalRunOut ==
  [id |-> Uuid, state |-> RunStateLiteral, currentAttempt |-> Num, installationId |-> Uuid,
   trigger |-> Enum({"manual", "schedule", "agent"}), parentRunId |-> Default(OrNull(Uuid)),
   triggerInput |-> Default(OrNull(Map(Json))), scheduledFor |-> OrNull(Date), agentId |-> Str,
   agentVersion |-> Str, agentVersionId |-> Uuid, createdAt |-> Date,
   activeTimeoutSeconds |-> Num, activeSecondsRemaining |-> Num, maxInputWaitSeconds |-> Num,
   inputWaitRemainingSeconds |-> Num, cancelRequested |-> Bool,
   capabilityTokenId |-> OrNull(Str), permissions |-> Map(Json), modelBindings |-> Map(Str),
   config |-> Map(Json)]

AgentStartIn ==
  AttemptIn @@ [agentId |-> Str, startKey |-> Str, input |-> Default(OrNull(Map(Json)))]

AgentStartOut ==
  [runId |-> Uuid, agentId |-> Str, installationId |-> Uuid, state |-> RunStateLiteral,
   created |-> Bool]

ActionClaimIn == AttemptIn @@ [claimToken |-> Default(OrNull(Str))]

ActionOut ==
  [key |-> Str, status |-> Enum({"claimed", "completed", "in_doubt"}),
   result |-> Default(Json)]

AttentionItem ==
  [kind |-> Enum({"input_request", "failed_run", "schedule_blocked", "model_action"}),
   title |-> Str, detail |-> Str, runId |-> Default(OrNull(Uuid)),
   inputRequestId |-> Default(OrNull(Uuid)), scheduleId |-> Default(OrNull(Uuid)),
   modelId |-> Default(OrNull(Str)), createdAt |-> Default(OrNull(Date))]

AttentionOut == [count |-> Num, items |-> List(Cls(AttentionItem))]

ChatSessionCreateIn ==
  [title |-> Default(OrNull(Str)), modelProfile |-> Default(Str),
   knowledgeBaseId |-> Default(OrNull(Uuid)),
   retrievalMode |-> Default(Enum({"when_relevant", "only_knowledge"}))]

ChatMessageIn == [content |-> Str]

ChatMessageOut ==
  [id |-> Uuid, role |-> Enum({"user", "assistant"}), content |-> Str,
   status |-> Enum({"streaming", "complete", "stopped", "failed"}),
   citations |-> List(Map(Json)), model |-> OrNull(Str), provider |-> OrNull(Str),
   usage |-> OrNull(Map(Json)), createdAt |-> Date]

ChatSessionOut ==
  [id |-> Uuid, title |-> Str, modelProfile |-> Str, knowledgeBaseId |-> OrNull(Uuid),
   retrievalMode |-> Str, enabled |-> Bool, holdsModelLease |-> Bool, local |-> Default(Bool),
   version |-> Num, createdAt |-> Date, updatedAt |-> Date, lastMessageAt |-> OrNull(Date)]

ChatSessionDetailOut == ChatSessionOut @@ [messages |-> List(Cls(ChatMessageOut))]

BackupErrorOut == [code |-> Str, message |-> Str]

BackupOut ==
  [id |-> Str, status |-> Enum({"queued", "running", "succeeded", "failed"}),
   source |-> Enum({"api", "device"}), createdAt |-> OrNull(Date), finishedAt |-> OrNull(Date),
   sizeBytes |-> OrNull(Num), includesMasterKey |-> Bool, platformVersion |-> OrNull(Str),
   migrationHead |-> OrNull(Str), documentCount |-> OrNull(Num),
   sha256 |-> Default(OrNull(Str)), downloadable |-> Bool,
   error |-> OrNull(Cls(BackupErrorOut))]

BackupPage ==
  Page(BackupOut) @@ [enabled |-> Bool, location |-> OrNull(Str), retention |-> Num,
                      includes |-> List(Str), excludes |-> List(Str)]

-----------------------------------------------------------------------------
Api == <<"api", "v1">>
Internal == <<"internal", "v1">>

NoBody == <<"none">>
JsonBody(C) == <<"json", C>>
MaybeJson(C) == <<"maybe", C>>
Form(C) == <<"form", C>>
NoContent == <<"nothing">>
Text == <<"text">>
Stream == <<"stream">>
Binary == <<"binary">>
Failure == Cls(ErrorResponse)

Route(method, path, query, body, status, answer, errors) ==
  [method |-> method, path |-> path, query |-> query, headers |-> None, body |-> body,
   status |-> status, answer |-> answer, errors |-> errors]
Named(name, route) == [name |-> name, route |-> route]

(* ERRORS of the routers.                                                  *)
Errors == 404 :> Failure @@ 409 :> Failure @@ 422 :> Failure
InternalErrors == 401 :> Failure @@ Errors
ProxyErrors == Errors @@ 502 :> Failure @@ 503 :> Failure
SystemErrors == 403 :> Failure @@ 404 :> Failure @@ 409 :> Failure

----------------------------------------------------------------------------

bootstrap_status ==
  Route("get", Api \o <<"bootstrap", "status">>, None, NoBody, 200, Cls(BootstrapStatusOut),
        None)

bootstrap ==
  Route("post", Api \o <<"bootstrap">>, None, JsonBody(BootstrapIn), 201, Cls(SessionOut),
        409 :> Failure @@ 429 :> Failure)

login ==
  Route("post", Api \o <<"sessions">>, None, JsonBody(LoginIn), 201, Cls(SessionOut),
        401 :> Failure @@ 429 :> Failure)

logout ==
  Route("delete", Api \o <<"sessions", "current">>, None, NoBody, 204, NoContent, None)

me ==
  Route("get", Api \o <<"me">>, None, NoBody, 200, Cls(SessionOut), None)

list_catalog ==
  Route("get", Api \o <<"catalog", "agents">>,
        [limit |-> Default(Num), cursor |-> Default(OrNull(Str))], NoBody, 200,
        Cls(Page(CatalogAgentOut)), None)

get_catalog_agent ==
  Route("get", Api \o <<"catalog", "agents", ":str">>, None, NoBody, 200, Cls(CatalogAgentOut),
        Errors)

get_catalog_version ==
  Route("get", Api \o <<"catalog", "agents", ":str", "versions", ":str">>, None, NoBody, 200,
        Cls(AgentVersionOut), Errors)

import_agent ==
  Route("post", Api \o <<"catalog", "agents", "import">>, None, JsonBody(CatalogImportIn), 201,
        Cls(CatalogAgentOut), Errors)

list_installations ==
  Route("get", Api \o <<"agent-installations">>,
        [limit |-> Default(Num), cursor |-> Default(OrNull(Str))], NoBody, 200,
        Cls(Page(InstallationOut)), None)

create_installation ==
  Route("post", Api \o <<"agent-installations">>, None, JsonBody(InstallationCreateIn), 201,
        Cls(InstallationOut), Errors)

get_installation ==
  Route("get", Api \o <<"agent-installations", ":uuid">>, None, NoBody, 200,
        Cls(InstallationOut), Errors)

update_installation ==
  Route("patch", Api \o <<"agent-installations", ":uuid">>, None, JsonBody(InstallationPatchIn),
        200, Cls(InstallationOut), Errors)

delete_installation ==
  Route("delete", Api \o <<"agent-installations", ":uuid">>, None, NoBody, 204, NoContent,
        Errors)

create_run ==
  Route("post", Api \o <<"runs">>, None, JsonBody(RunCreateIn), 201, Cls(RunOut), Errors)

list_runs ==
  Route("get", Api \o <<"runs">>,
        [installationId |-> Default(OrNull(Uuid)),
         state |-> Default(OrNull(List(RunStateLiteral))), trigger |-> Default(OrNull(Str)),
         limit |-> Default(Num), cursor |-> Default(OrNull(Str))], NoBody, 200,
        Cls(Page(RunOut)), None)

get_run ==
  Route("get", Api \o <<"runs", ":uuid">>, None, NoBody, 200, Cls(RunOut), Errors)

cancel_run ==
  Route("post", Api \o <<"runs", ":uuid", "cancel">>, None, NoBody, 200, Cls(RunOut), Errors)

retry_run ==
  Route("post", Api \o <<"runs", ":uuid", "retry">>, None, NoBody, 200, Cls(RunOut), Errors)

run_events_history ==
  Route("get", Api \o <<"runs", ":uuid", "events", "history">>,
        [after |-> Default(Num), limit |-> Default(Num)], NoBody, 200, List(Cls(RunEventOut)),
        Errors)

stream_run_events ==
  [Route("get", Api \o <<"runs", ":uuid", "events">>,
         [after |-> Default(OrNull(Num))], NoBody, 200, Stream, Errors)
     EXCEPT !.headers = "Last-Event-ID" :> Default(OrNull(Str))]

list_input_requests ==
  Route("get", Api \o <<"input-requests">>,
        [state |-> Default(Str), runId |-> Default(OrNull(Uuid)), limit |-> Default(Num),
         cursor |-> Default(OrNull(Str))], NoBody, 200, Cls(Page(InputRequestOut)), None)

acknowledge_run ==
  Route("post", Api \o <<"runs", ":uuid", "acknowledge">>, None, NoBody, 200, Cls(RunOut),
        Errors)

attention ==
  Route("get", Api \o <<"attention">>, None, NoBody, 200, Cls(AttentionOut), None)

answer_input_request ==
  Route("post", Api \o <<"input-requests", ":uuid", "answer">>, None, JsonBody(InputAnswerIn),
        200, Cls(InputRequestOut), Errors)

preview_schedule ==
  Route("post", Api \o <<"schedules", "preview">>, None, JsonBody(SchedulePreviewIn), 200,
        Cls(SchedulePreviewOut), Errors)

create_schedule ==
  Route("post", Api \o <<"schedules">>, None, JsonBody(ScheduleCreateIn), 201, Cls(ScheduleOut),
        Errors)

list_schedules ==
  Route("get", Api \o <<"schedules">>,
        [installationId |-> Default(OrNull(Uuid)), limit |-> Default(Num),
         cursor |-> Default(OrNull(Str))], NoBody, 200, Cls(Page(ScheduleOut)), None)

get_schedule ==
  Route("get", Api \o <<"schedules", ":uuid">>, None, NoBody, 200, Cls(ScheduleOut), Errors)

update_schedule ==
  Route("patch", Api \o <<"schedules", ":uuid">>, None, JsonBody(SchedulePatchIn), 200,
        Cls(ScheduleOut), Errors)

delete_schedule ==
  Route("delete", Api \o <<"schedules", ":uuid">>, None, NoBody, 204, NoContent, Errors)

list_models ==
  Route("get", Api \o <<"models">>, [limit |-> Default(Num), cursor |-> Default(OrNull(Str))],
        NoBody, 200, Cls(Page(ModelOut)), None)

get_model ==
  Route("get", Api \o <<"models", ":str">>, None, NoBody, 200, Cls(ModelOut), Errors)

model_install ==
  Route("post", Api \o <<"models", ":str", "install">>, None, NoBody, 202, Cls(ModelOut), Errors)

model_load ==
  Route("post", Api \o <<"models", ":str", "load">>, None, NoBody, 202, Cls(ModelOut), Errors)

transcribe_audio ==
  Route("post", Api \o <<"models", ":str", "transcriptions">>, None,
        Form([file |-> File, language |-> Default(OrNull(Str))]), 200, Cls(TranscriptionOut),
        Errors @@ 413 :> Failure @@ 502 :> Failure @@ 503 :> Failure)

speak_text ==
  Route("post", Api \o <<"models", ":str", "speech">>, None, JsonBody(SpeechIn), 200, Binary,
        Errors @@ 502 :> Failure @@ 503 :> Failure)

cancel_model_install ==
  Route("post", Api \o <<"models", ":str", "install", "cancel">>, None,
        JsonBody(ModelCancelInstallIn), 200, Cls(ModelOut), Errors)

unload_model ==
  Route("post", Api \o <<"models", ":str", "unload">>, None, MaybeJson(ModelUnloadIn), 202,
        Cls(ModelOut), Errors)

delete_model ==
  Route("delete", Api \o <<"models", ":str">>, None, NoBody, 200, Cls(ModelOut), Errors)

model_events ==
  Route("get", Api \o <<"models", ":str", "events">>, None, NoBody, 200, Stream, Errors)

system_memory ==
  Route("get", Api \o <<"system", "memory">>, None, NoBody, 200, Cls(MemoryOut), None)

list_connections ==
  Route("get", Api \o <<"connections">>,
        [limit |-> Default(Num), cursor |-> Default(OrNull(Str))], NoBody, 200,
        Cls(Page(ConnectionOut)), None)

get_settings_route ==
  Route("get", Api \o <<"settings">>, None, NoBody, 200, Cls(SettingsOut), None)

patch_settings ==
  Route("patch", Api \o <<"settings">>, None, JsonBody(SettingsPatchIn), 200, Cls(SettingsOut),
        Errors)

live ==
  Route("get", Api \o <<"health", "live">>, None, NoBody, 200, Cls(HealthOut), None)

ready ==
  Route("get", Api \o <<"health", "ready">>, None, NoBody, 200, Cls(HealthOut),
        503 :> Cls(HealthOut))

system_status ==
  Route("get", Api \o <<"system", "status">>, None, NoBody, 200, Cls(SystemStatusOut), None)

list_audit_events ==
  Route("get", Api \o <<"audit-events">>,
        [action |-> Default(OrNull(Str)), actorId |-> Default(OrNull(Str)),
         targetId |-> Default(OrNull(Str)), outcome |-> Default(OrNull(Str)),
         since |-> Default(OrNull(Date)), until |-> Default(OrNull(Date)),
         limit |-> Default(Num), cursor |-> Default(OrNull(Str))], NoBody, 200,
        Cls(Page(AuditEventOut)), None)

create_session ==
  Route("post", Api \o <<"chat", "sessions">>, None, JsonBody(ChatSessionCreateIn), 201,
        Cls(ChatSessionOut), Errors)

list_sessions ==
  Route("get", Api \o <<"chat", "sessions">>,
        [limit |-> Default(Num), cursor |-> Default(OrNull(Str))], NoBody, 200,
        Cls(Page(ChatSessionOut)), None)

get_session ==
  Route("get", Api \o <<"chat", "sessions", ":uuid">>, None, NoBody, 200,
        Cls(ChatSessionDetailOut), Errors)

enable_session ==
  Route("post", Api \o <<"chat", "sessions", ":uuid", "enable">>, None, NoBody, 200,
        Cls(ChatSessionOut), Errors)

disable_session ==
  Route("post", Api \o <<"chat", "sessions", ":uuid", "disable">>, None, NoBody, 200,
        Cls(ChatSessionOut), Errors)

delete_session ==
  Route("delete", Api \o <<"chat", "sessions", ":uuid">>, None, NoBody, 204, NoContent, Errors)

send_message ==
  Route("post", Api \o <<"chat", "sessions", ":uuid", "messages">>, None,
        JsonBody(ChatMessageIn), 200, Stream, Errors)

resolve_citation ==
  Route("get", Api \o <<"chat", "sessions", ":uuid", "messages", ":uuid", "citations", ":str">>,
        None, NoBody, 200, Cls(CitationOut), Errors)

google_start ==
  Route("post", Api \o <<"connections", "google", "start">>, None, JsonBody(GoogleStartIn), 200,
        Cls(GoogleStartOut), ProxyErrors)

google_test ==
  Route("post", Api \o <<"connections", "google", "test">>, None, NoBody, 200,
        Cls(ConnectionOut), ProxyErrors)

google_disconnect ==
  Route("delete", Api \o <<"connections", "google">>, None, NoBody, 204, NoContent, ProxyErrors)

twilio_save ==
  Route("put", Api \o <<"connections", "twilio">>, None, JsonBody(TwilioCredentialsIn), 200,
        Cls(ConnectionOut), ProxyErrors)

twilio_test ==
  Route("post", Api \o <<"connections", "twilio", "test">>, None, NoBody, 200,
        Cls(ConnectionOut), ProxyErrors)

twilio_test_call ==
  Route("post", Api \o <<"connections", "twilio", "test-call">>, None,
        JsonBody(TwilioTestCallIn), 200, Cls(TwilioTestCallOut), ProxyErrors @@ 429 :> Failure)

start_voice_call ==
  Route("post", Api \o <<"connections", "twilio", "voice-calls">>, None, JsonBody(VoiceCallIn),
        200, Cls(VoiceCallOut), ProxyErrors @@ 429 :> Failure)

get_voice_call ==
  Route("get", Api \o <<"connections", "twilio", "voice-calls", ":str">>, None, NoBody, 200,
        Cls(VoiceCallOut), ProxyErrors)

hang_up_voice_call ==
  Route("post", Api \o <<"connections", "twilio", "voice-calls", ":str", "hangup">>, None,
        NoBody, 200, Cls(VoiceCallOut), ProxyErrors)

twilio_delete ==
  Route("delete", Api \o <<"connections", "twilio">>, None, NoBody, 204, NoContent, ProxyErrors)

list_provider_profiles ==
  Route("get", Api \o <<"provider-profiles">>,
        [limit |-> Default(Num), cursor |-> Default(OrNull(Str))], NoBody, 200,
        Cls(Page(ProviderProfileOut)), ProxyErrors)

create_provider_profile ==
  Route("post", Api \o <<"provider-profiles">>, None, JsonBody(ProviderProfileCreateIn), 201,
        Cls(ProviderProfileOut), ProxyErrors)

delete_provider_profile ==
  Route("delete", Api \o <<"provider-profiles", ":uuid">>, None, NoBody, 204, NoContent,
        ProxyErrors)

test_provider_profile ==
  Route("post", Api \o <<"provider-profiles", ":uuid", "test">>, None, NoBody, 200,
        Cls(ProviderProfileTestOut), ProxyErrors)

create_knowledge_base ==
  Route("post", Api \o <<"knowledge-bases">>, None, JsonBody(KnowledgeBaseCreateIn), 201,
        Cls(KnowledgeBaseOut), ProxyErrors)

list_knowledge_bases ==
  Route("get", Api \o <<"knowledge-bases">>,
        [limit |-> Default(Num), cursor |-> Default(OrNull(Str))], NoBody, 200,
        Cls(Page(KnowledgeBaseOut)), ProxyErrors)

get_knowledge_base ==
  Route("get", Api \o <<"knowledge-bases", ":uuid">>, None, NoBody, 200, Cls(KnowledgeBaseOut),
        ProxyErrors)

delete_knowledge_base ==
  Route("delete", Api \o <<"knowledge-bases", ":uuid">>, None, NoBody, 204, NoContent,
        ProxyErrors)

upload_document ==
  Route("post", Api \o <<"knowledge-bases", ":uuid", "documents">>, None, Form([file |-> File]),
        202, Cls(DocumentOut), ProxyErrors @@ 413 :> Failure)

list_documents ==
  Route("get", Api \o <<"knowledge-bases", ":uuid", "documents">>,
        [limit |-> Default(Num), cursor |-> Default(OrNull(Str))], NoBody, 200,
        Cls(Page(DocumentOut)), ProxyErrors)

get_document ==
  Route("get", Api \o <<"knowledge-bases", ":uuid", "documents", ":uuid">>, None, NoBody, 200,
        Cls(DocumentOut), ProxyErrors)

delete_document ==
  Route("delete", Api \o <<"knowledge-bases", ":uuid", "documents", ":uuid">>, None, NoBody,
        204, NoContent, ProxyErrors)

reindex_document ==
  Route("post", Api \o <<"knowledge-bases", ":uuid", "documents", ":uuid", "reindex">>, None,
        NoBody, 202, Cls(DocumentOut), ProxyErrors)

query_knowledge_base ==
  Route("post", Api \o <<"knowledge-bases", ":uuid", "query">>, None,
        JsonBody(KnowledgeQueryIn), 200, Cls(KnowledgeQueryOut), ProxyErrors)

list_backups ==
  Route("get", Api \o <<"system", "backups">>,
        [limit |-> Default(Num), cursor |-> Default(OrNull(Str))], NoBody, 200, Cls(BackupPage),
        None)

create_backup ==
  Route("post", Api \o <<"system", "backups">>, None, NoBody, 202, Cls(BackupOut), SystemErrors)

download_backup ==
  Route("get", Api \o <<"system", "backups", ":str", "download">>, None, NoBody, 200, Binary,
        SystemErrors)

download_diagnostics ==
  Route("get", Api \o <<"system", "diagnostics">>, None, NoBody, 200, Binary, 403 :> Failure)

internal_run ==
  Route("get", Internal \o <<"runs", ":uuid">>, None, NoBody, 200, Cls(InternalRunOut),
        InternalErrors)

handshake ==
  Route("post", Internal \o <<"runs", ":uuid", "handshake">>, None, JsonBody(AttemptIn), 200,
        Cls(HeartbeatOut), InternalErrors)

heartbeat ==
  Route("post", Internal \o <<"runs", ":uuid", "heartbeat">>, None, JsonBody(AttemptIn), 200,
        Cls(HeartbeatOut), InternalErrors)

agent_event ==
  Route("post", Internal \o <<"runs", ":uuid", "events">>, None, JsonBody(AgentEventIn), 201,
        Cls(RunEventOut), InternalErrors)

agent_event_batch ==
  Route("post", Internal \o <<"runs", ":uuid", "event-batches">>, None, JsonBody(EventBatchIn),
        200, Cls(EventBatchOut), InternalErrors)

model_state ==
  Route("post", Internal \o <<"runs", ":uuid", "model-state">>, None, JsonBody(ModelStateIn),
        200, Cls(HeartbeatOut), InternalErrors)

run_result ==
  Route("post", Internal \o <<"runs", ":uuid", "result">>, None, JsonBody(RunResultIn), 200,
        Cls(HeartbeatOut), InternalErrors)

ask ==
  Route("post", Internal \o <<"runs", ":uuid", "input-requests">>, None, JsonBody(AskIn), 200,
        Cls(InputRequestOut), InternalErrors)

poll_input ==
  Route("get", Internal \o <<"input-requests", ":uuid">>, [wait |-> Default(Num)], NoBody, 200,
        Cls(InputRequestOut), InternalErrors)

start_agent ==
  Route("post", Internal \o <<"runs", ":uuid", "agent-runs">>, None, JsonBody(AgentStartIn),
        200, Cls(AgentStartOut), InternalErrors)

claim_action ==
  Route("post", Internal \o <<"runs", ":uuid", "actions", ":str", "claim">>, None,
        JsonBody(ActionClaimIn), 200, Cls(ActionOut), InternalErrors)

complete_action ==
  Route("post", Internal \o <<"runs", ":uuid", "actions", ":str", "complete">>, None,
        JsonBody(ActionCompleteIn), 200, Cls(ActionOut), InternalErrors)

metrics ==
  Route("get", Internal \o <<"metrics">>, None, NoBody, 200, Text, None)

----------------------------------------------------------------------------

Routes ==
  <<Named("bootstrap_status", bootstrap_status), Named("bootstrap", bootstrap),
    Named("login", login), Named("logout", logout), Named("me", me),
    Named("list_catalog", list_catalog), Named("get_catalog_agent", get_catalog_agent),
    Named("get_catalog_version", get_catalog_version), Named("import_agent", import_agent),
    Named("list_installations", list_installations),
    Named("create_installation", create_installation),
    Named("get_installation", get_installation),
    Named("update_installation", update_installation),
    Named("delete_installation", delete_installation), Named("create_run", create_run),
    Named("list_runs", list_runs), Named("get_run", get_run), Named("cancel_run", cancel_run),
    Named("retry_run", retry_run), Named("run_events_history", run_events_history),
    Named("stream_run_events", stream_run_events),
    Named("list_input_requests", list_input_requests),
    Named("acknowledge_run", acknowledge_run), Named("attention", attention),
    Named("answer_input_request", answer_input_request),
    Named("preview_schedule", preview_schedule), Named("create_schedule", create_schedule),
    Named("list_schedules", list_schedules), Named("get_schedule", get_schedule),
    Named("update_schedule", update_schedule), Named("delete_schedule", delete_schedule),
    Named("list_models", list_models), Named("get_model", get_model),
    Named("model_install", model_install), Named("model_load", model_load),
    Named("transcribe_audio", transcribe_audio), Named("speak_text", speak_text),
    Named("cancel_model_install", cancel_model_install), Named("unload_model", unload_model),
    Named("delete_model", delete_model), Named("model_events", model_events),
    Named("system_memory", system_memory), Named("list_connections", list_connections),
    Named("get_settings_route", get_settings_route), Named("patch_settings", patch_settings),
    Named("live", live), Named("ready", ready), Named("system_status", system_status),
    Named("list_audit_events", list_audit_events), Named("create_session", create_session),
    Named("list_sessions", list_sessions), Named("get_session", get_session),
    Named("enable_session", enable_session), Named("disable_session", disable_session),
    Named("delete_session", delete_session), Named("send_message", send_message),
    Named("resolve_citation", resolve_citation), Named("google_start", google_start),
    Named("google_test", google_test), Named("google_disconnect", google_disconnect),
    Named("twilio_save", twilio_save), Named("twilio_test", twilio_test),
    Named("twilio_test_call", twilio_test_call), Named("start_voice_call", start_voice_call),
    Named("get_voice_call", get_voice_call), Named("hang_up_voice_call", hang_up_voice_call),
    Named("twilio_delete", twilio_delete),
    Named("list_provider_profiles", list_provider_profiles),
    Named("create_provider_profile", create_provider_profile),
    Named("delete_provider_profile", delete_provider_profile),
    Named("test_provider_profile", test_provider_profile),
    Named("create_knowledge_base", create_knowledge_base),
    Named("list_knowledge_bases", list_knowledge_bases),
    Named("get_knowledge_base", get_knowledge_base),
    Named("delete_knowledge_base", delete_knowledge_base),
    Named("upload_document", upload_document), Named("list_documents", list_documents),
    Named("get_document", get_document), Named("delete_document", delete_document),
    Named("reindex_document", reindex_document),
    Named("query_knowledge_base", query_knowledge_base), Named("list_backups", list_backups),
    Named("create_backup", create_backup), Named("download_backup", download_backup),
    Named("download_diagnostics", download_diagnostics), Named("internal_run", internal_run),
    Named("handshake", handshake), Named("heartbeat", heartbeat),
    Named("agent_event", agent_event), Named("agent_event_batch", agent_event_batch),
    Named("model_state", model_state), Named("run_result", run_result), Named("ask", ask),
    Named("poll_input", poll_input), Named("start_agent", start_agent),
    Named("claim_action", claim_action), Named("complete_action", complete_action),
    Named("metrics", metrics)>>

=============================================================================
