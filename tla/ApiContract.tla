---------------------------- MODULE ApiContract ----------------------------
(***************************************************************************)
(* A call of the generated Python client against the control API.  The     *)
(* caller picks an endpoint and its arguments; _get_kwargs builds the      *)
(* request; the server takes the first route that matches, validates path, *)
(* query, headers and body; the handler answers with any document of its   *)
(* response model or with a failure; _parse_response reads the answer.     *)
(***************************************************************************)
EXTENDS Wire

C == INSTANCE ApiClient
S == INSTANCE ApiServer

CONSTANTS
  Ops,         \* the endpoints that are called
  StrArgs,     \* values of text arguments in paths
  Statuses     \* failures a handler or a middleware may answer with

VARIABLES
  stage,       \* "idle", "sent", "served", "answered", "done"
  op,          \* the endpoint
  asked,       \* the caller's arguments
  request,     \* the request on the wire
  served,      \* what the server understood
  answer,      \* the response
  outcome      \* what the client's function returns or raises

vars == <<stage, op, asked, request, served, answer, outcome>>

NotYet == <<"nothing">>
NoAnswer == [status |-> 0, media |-> "none", doc |-> Null]

----------------------------------------------------------------------------
(* The client's endpoints: the request _get_kwargs builds (method, path,   *)
(* query parameters, headers, body) and the statuses _parse_response       *)
(* knows, each with how it reads the answer.                               *)
Api == <<"api", "v1">>
Internal == <<"internal", "v1">>

NoBody == <<"none">>
JsonBody(class) == <<"json", class>>
MaybeJson(class) == <<"maybe", class>>
Form(class) == <<"form", class>>
NoContent == <<"nothing">>
Text == <<"text">>
Failure == Cls(C!ErrorResponse)

Endpoint(method, path, query, body, responses) ==
  [method |-> method, path |-> path, query |-> query, headers |-> None, body |-> body,
   responses |-> responses]

(* The failures several routers declare.                                   *)
Errors == 404 :> Failure @@ 409 :> Failure @@ 422 :> Failure
InternalErrors == 401 :> Failure @@ Errors
ProxyErrors == Errors @@ 502 :> Failure @@ 503 :> Failure

----------------------------------------------------------------------------

create_installation ==
  Endpoint("post", Api \o <<"agent-installations">>, None, JsonBody(C!InstallationCreateIn),
           201 :> Cls(C!InstallationOut) @@ Errors)

delete_installation ==
  Endpoint("delete", Api \o <<"agent-installations", ":uuid">>, None, NoBody,
           204 :> NoContent @@ Errors)

get_catalog_agent ==
  Endpoint("get", Api \o <<"catalog", "agents", ":str">>, None, NoBody,
           200 :> Cls(C!CatalogAgentOut) @@ Errors)

get_catalog_version ==
  Endpoint("get", Api \o <<"catalog", "agents", ":str", "versions", ":str">>, None, NoBody,
           200 :> Cls(C!AgentVersionOut) @@ Errors)

get_installation ==
  Endpoint("get", Api \o <<"agent-installations", ":uuid">>, None, NoBody,
           200 :> Cls(C!InstallationOut) @@ Errors)

import_agent ==
  Endpoint("post", Api \o <<"catalog", "agents", "import">>, None, JsonBody(C!CatalogImportIn),
           201 :> Cls(C!CatalogAgentOut) @@ Errors)

list_catalog ==
  Endpoint("get", Api \o <<"catalog", "agents">>,
           [limit |-> Opt(Num), cursor |-> Opt(OrNull(Str))], NoBody,
           200 :> Cls(C!PageCatalogAgentOut) @@ 422 :> Cls(C!HTTPValidationError))

list_installations ==
  Endpoint("get", Api \o <<"agent-installations">>,
           [limit |-> Opt(Num), cursor |-> Opt(OrNull(Str))], NoBody,
           200 :> Cls(C!PageInstallationOut) @@ 422 :> Cls(C!HTTPValidationError))

update_installation ==
  Endpoint("patch", Api \o <<"agent-installations", ":uuid">>, None,
           JsonBody(C!InstallationPatchIn), 200 :> Cls(C!InstallationOut) @@ Errors)

list_audit_events ==
  Endpoint("get", Api \o <<"audit-events">>,
           [action |-> Opt(OrNull(Str)), actorId |-> Opt(OrNull(Str)),
            targetId |-> Opt(OrNull(Str)), outcome |-> Opt(OrNull(Str)),
            since |-> Opt(OrNull(Date)), until |-> Opt(OrNull(Date)), limit |-> Opt(Num),
            cursor |-> Opt(OrNull(Str))], NoBody,
           200 :> Cls(C!PageAuditEventOut) @@ 422 :> Cls(C!HTTPValidationError))

bootstrap ==
  Endpoint("post", Api \o <<"bootstrap">>, None, JsonBody(C!BootstrapIn),
           201 :> Cls(C!SessionOut) @@ 409 :> Failure @@ 422 :> Cls(C!HTTPValidationError) @@
            429 :> Failure)

bootstrap_status ==
  Endpoint("get", Api \o <<"bootstrap", "status">>, None, NoBody, 200 :> Cls(C!BootstrapStatusOut))

login ==
  Endpoint("post", Api \o <<"sessions">>, None, JsonBody(C!LoginIn),
           201 :> Cls(C!SessionOut) @@ 401 :> Failure @@ 422 :> Cls(C!HTTPValidationError) @@
            429 :> Failure)

logout ==
  Endpoint("delete", Api \o <<"sessions", "current">>, None, NoBody, 204 :> NoContent)

me ==
  Endpoint("get", Api \o <<"me">>, None, NoBody, 200 :> Cls(C!SessionOut))

create_session ==
  Endpoint("post", Api \o <<"chat", "sessions">>, None, JsonBody(C!ChatSessionCreateIn),
           201 :> Cls(C!ChatSessionOut) @@ Errors)

delete_session ==
  Endpoint("delete", Api \o <<"chat", "sessions", ":uuid">>, None, NoBody,
           204 :> NoContent @@ Errors)

disable_session ==
  Endpoint("post", Api \o <<"chat", "sessions", ":uuid", "disable">>, None, NoBody,
           200 :> Cls(C!ChatSessionOut) @@ Errors)

enable_session ==
  Endpoint("post", Api \o <<"chat", "sessions", ":uuid", "enable">>, None, NoBody,
           200 :> Cls(C!ChatSessionOut) @@ Errors)

get_session ==
  Endpoint("get", Api \o <<"chat", "sessions", ":uuid">>, None, NoBody,
           200 :> Cls(C!ChatSessionDetailOut) @@ Errors)

list_sessions ==
  Endpoint("get", Api \o <<"chat", "sessions">>,
           [limit |-> Opt(Num), cursor |-> Opt(OrNull(Str))], NoBody,
           200 :> Cls(C!PageChatSessionOut) @@ 422 :> Cls(C!HTTPValidationError))

resolve_citation ==
  Endpoint("get",
           Api \o <<"chat", "sessions", ":uuid", "messages", ":uuid", "citations", ":str">>,
           None, NoBody, 200 :> Cls(C!CitationOut) @@ Errors)

send_message ==
  Endpoint("post", Api \o <<"chat", "sessions", ":uuid", "messages">>, None,
           JsonBody(C!ChatMessageIn), 200 :> Json @@ Errors)

create_provider_profile ==
  Endpoint("post", Api \o <<"provider-profiles">>, None, JsonBody(C!ProviderProfileCreateIn),
           201 :> Cls(C!ProviderProfileOut) @@ ProxyErrors)

delete_provider_profile ==
  Endpoint("delete", Api \o <<"provider-profiles", ":uuid">>, None, NoBody,
           204 :> NoContent @@ ProxyErrors)

get_voice_call ==
  Endpoint("get", Api \o <<"connections", "twilio", "voice-calls", ":str">>, None, NoBody,
           200 :> Cls(C!VoiceCallOut) @@ ProxyErrors)

google_disconnect ==
  Endpoint("delete", Api \o <<"connections", "google">>, None, NoBody,
           204 :> NoContent @@ ProxyErrors)

google_start ==
  Endpoint("post", Api \o <<"connections", "google", "start">>, None, JsonBody(C!GoogleStartIn),
           200 :> Cls(C!GoogleStartOut) @@ ProxyErrors)

google_test ==
  Endpoint("post", Api \o <<"connections", "google", "test">>, None, NoBody,
           200 :> Cls(C!ConnectionOut) @@ ProxyErrors)

hang_up_voice_call ==
  Endpoint("post", Api \o <<"connections", "twilio", "voice-calls", ":str", "hangup">>, None,
           NoBody, 200 :> Cls(C!VoiceCallOut) @@ ProxyErrors)

list_connections ==
  Endpoint("get", Api \o <<"connections">>, [limit |-> Opt(Num), cursor |-> Opt(OrNull(Str))],
           NoBody, 200 :> Cls(C!PageConnectionOut) @@ 422 :> Cls(C!HTTPValidationError))

list_provider_profiles ==
  Endpoint("get", Api \o <<"provider-profiles">>,
           [limit |-> Opt(Num), cursor |-> Opt(OrNull(Str))], NoBody,
           200 :> Cls(C!PageProviderProfileOut) @@ ProxyErrors)

start_voice_call ==
  Endpoint("post", Api \o <<"connections", "twilio", "voice-calls">>, None,
           JsonBody(C!VoiceCallIn), 200 :> Cls(C!VoiceCallOut) @@ ProxyErrors @@ 429 :> Failure)

test_provider_profile ==
  Endpoint("post", Api \o <<"provider-profiles", ":uuid", "test">>, None, NoBody,
           200 :> Cls(C!ProviderProfileTestOut) @@ ProxyErrors)

twilio_delete ==
  Endpoint("delete", Api \o <<"connections", "twilio">>, None, NoBody,
           204 :> NoContent @@ ProxyErrors)

twilio_save ==
  Endpoint("put", Api \o <<"connections", "twilio">>, None, JsonBody(C!TwilioCredentialsIn),
           200 :> Cls(C!ConnectionOut) @@ ProxyErrors)

twilio_test ==
  Endpoint("post", Api \o <<"connections", "twilio", "test">>, None, NoBody,
           200 :> Cls(C!ConnectionOut) @@ ProxyErrors)

twilio_test_call ==
  Endpoint("post", Api \o <<"connections", "twilio", "test-call">>, None,
           JsonBody(C!TwilioTestCallIn),
           200 :> Cls(C!TwilioTestCallOut) @@ ProxyErrors @@ 429 :> Failure)

agent_event_batch ==
  Endpoint("post", Internal \o <<"runs", ":uuid", "event-batches">>, None,
           JsonBody(C!EventBatchIn), 200 :> Cls(C!EventBatchOut) @@ InternalErrors)

agent_event ==
  Endpoint("post", Internal \o <<"runs", ":uuid", "events">>, None, JsonBody(C!AgentEventIn),
           201 :> Cls(C!RunEventOut) @@ InternalErrors)

ask ==
  Endpoint("post", Internal \o <<"runs", ":uuid", "input-requests">>, None, JsonBody(C!AskIn),
           200 :> Cls(C!InputRequestOut) @@ InternalErrors)

claim_action ==
  Endpoint("post", Internal \o <<"runs", ":uuid", "actions", ":str", "claim">>, None,
           JsonBody(C!ActionClaimIn), 200 :> Cls(C!ActionOut) @@ InternalErrors)

complete_action ==
  Endpoint("post", Internal \o <<"runs", ":uuid", "actions", ":str", "complete">>, None,
           JsonBody(C!ActionCompleteIn), 200 :> Cls(C!ActionOut) @@ InternalErrors)

handshake ==
  Endpoint("post", Internal \o <<"runs", ":uuid", "handshake">>, None, JsonBody(C!AttemptIn),
           200 :> Cls(C!HeartbeatOut) @@ InternalErrors)

heartbeat ==
  Endpoint("post", Internal \o <<"runs", ":uuid", "heartbeat">>, None, JsonBody(C!AttemptIn),
           200 :> Cls(C!HeartbeatOut) @@ InternalErrors)

internal_run ==
  Endpoint("get", Internal \o <<"runs", ":uuid">>, None, NoBody,
           200 :> Cls(C!InternalRunOut) @@ InternalErrors)

metrics ==
  Endpoint("get", Internal \o <<"metrics">>, None, NoBody, 200 :> Text)

model_state ==
  Endpoint("post", Internal \o <<"runs", ":uuid", "model-state">>, None, JsonBody(C!ModelStateIn),
           200 :> Cls(C!HeartbeatOut) @@ InternalErrors)

poll_input ==
  Endpoint("get", Internal \o <<"input-requests", ":uuid">>, [wait |-> Opt(Num)], NoBody,
           200 :> Cls(C!InputRequestOut) @@ InternalErrors)

run_result ==
  Endpoint("post", Internal \o <<"runs", ":uuid", "result">>, None, JsonBody(C!RunResultIn),
           200 :> Cls(C!HeartbeatOut) @@ InternalErrors)

start_agent ==
  Endpoint("post", Internal \o <<"runs", ":uuid", "agent-runs">>, None, JsonBody(C!AgentStartIn),
           200 :> Cls(C!AgentStartOut) @@ InternalErrors)

create_knowledge_base ==
  Endpoint("post", Api \o <<"knowledge-bases">>, None, JsonBody(C!KnowledgeBaseCreateIn),
           201 :> Cls(C!KnowledgeBaseOut) @@ ProxyErrors)

delete_document ==
  Endpoint("delete", Api \o <<"knowledge-bases", ":uuid", "documents", ":uuid">>, None, NoBody,
           204 :> NoContent @@ ProxyErrors)

delete_knowledge_base ==
  Endpoint("delete", Api \o <<"knowledge-bases", ":uuid">>, None, NoBody,
           204 :> NoContent @@ ProxyErrors)

get_document ==
  Endpoint("get", Api \o <<"knowledge-bases", ":uuid", "documents", ":uuid">>, None, NoBody,
           200 :> Cls(C!DocumentOut) @@ ProxyErrors)

get_knowledge_base ==
  Endpoint("get", Api \o <<"knowledge-bases", ":uuid">>, None, NoBody,
           200 :> Cls(C!KnowledgeBaseOut) @@ ProxyErrors)

list_documents ==
  Endpoint("get", Api \o <<"knowledge-bases", ":uuid", "documents">>,
           [limit |-> Opt(Num), cursor |-> Opt(OrNull(Str))], NoBody,
           200 :> Cls(C!PageDocumentOut) @@ ProxyErrors)

list_knowledge_bases ==
  Endpoint("get", Api \o <<"knowledge-bases">>,
           [limit |-> Opt(Num), cursor |-> Opt(OrNull(Str))], NoBody,
           200 :> Cls(C!PageKnowledgeBaseOut) @@ ProxyErrors)

query_knowledge_base ==
  Endpoint("post", Api \o <<"knowledge-bases", ":uuid", "query">>, None,
           JsonBody(C!KnowledgeQueryIn), 200 :> Cls(C!KnowledgeQueryOut) @@ ProxyErrors)

reindex_document ==
  Endpoint("post", Api \o <<"knowledge-bases", ":uuid", "documents", ":uuid", "reindex">>, None,
           NoBody, 202 :> Cls(C!DocumentOut) @@ ProxyErrors)

upload_document ==
  Endpoint("post", Api \o <<"knowledge-bases", ":uuid", "documents">>, None,
           Form(C!BodyUploadDocumentApiV1KnowledgeBasesKbIdDocumentsPost),
           202 :> Cls(C!DocumentOut) @@ ProxyErrors @@ 413 :> Failure)

cancel_model_install ==
  Endpoint("post", Api \o <<"models", ":str", "install", "cancel">>, None,
           JsonBody(C!ModelCancelInstallIn), 200 :> Cls(C!ModelOut) @@ Errors)

delete_model ==
  Endpoint("delete", Api \o <<"models", ":str">>, None, NoBody, 200 :> Cls(C!ModelOut) @@ Errors)

get_model ==
  Endpoint("get", Api \o <<"models", ":str">>, None, NoBody, 200 :> Cls(C!ModelOut) @@ Errors)

list_models ==
  Endpoint("get", Api \o <<"models">>, [limit |-> Opt(Num), cursor |-> Opt(OrNull(Str))],
           NoBody, 200 :> Cls(C!PageModelOut) @@ 422 :> Cls(C!HTTPValidationError))

model_events ==
  Endpoint("get", Api \o <<"models", ":str", "events">>, None, NoBody, 200 :> Json @@ Errors)

model_install ==
  Endpoint("post", Api \o <<"models", ":str", "install">>, None, NoBody,
           202 :> Cls(C!ModelOut) @@ Errors)

model_load ==
  Endpoint("post", Api \o <<"models", ":str", "load">>, None, NoBody,
           202 :> Cls(C!ModelOut) @@ Errors)

speak_text ==
  Endpoint("post", Api \o <<"models", ":str", "speech">>, None, JsonBody(C!SpeechIn), ProxyErrors)

transcribe_audio ==
  Endpoint("post", Api \o <<"models", ":str", "transcriptions">>, None,
           Form(C!BodyTranscribeAudioApiV1ModelsModelIdTranscriptionsPost),
           200 :> Cls(C!TranscriptionOut) @@ ProxyErrors @@ 413 :> Failure)

unload_model ==
  Endpoint("post", Api \o <<"models", ":str", "unload">>, None, MaybeJson(C!ModelUnloadIn),
           202 :> Cls(C!ModelOut) @@ Errors)

acknowledge_run ==
  Endpoint("post", Api \o <<"runs", ":uuid", "acknowledge">>, None, NoBody,
           200 :> Cls(C!RunOut) @@ Errors)

answer_input_request ==
  Endpoint("post", Api \o <<"input-requests", ":uuid", "answer">>, None,
           JsonBody(C!InputAnswerIn), 200 :> Cls(C!InputRequestOut) @@ Errors)

attention ==
  Endpoint("get", Api \o <<"attention">>, None, NoBody, 200 :> Cls(C!AttentionOut))

cancel_run ==
  Endpoint("post", Api \o <<"runs", ":uuid", "cancel">>, None, NoBody,
           200 :> Cls(C!RunOut) @@ Errors)

create_run_NoConflict ==
  Endpoint("post", Api \o <<"runs">>, None, JsonBody(C!RunCreateIn),
           201 :> Cls(C!RunOut) @@ 404 :> Failure @@ 422 :> Failure)

create_run ==
  Endpoint("post", Api \o <<"runs">>, None, JsonBody(C!RunCreateIn), 201 :> Cls(C!RunOut) @@ Errors)

get_run ==
  Endpoint("get", Api \o <<"runs", ":uuid">>, None, NoBody, 200 :> Cls(C!RunOut) @@ Errors)

list_input_requests ==
  Endpoint("get", Api \o <<"input-requests">>,
           [state |-> Opt(Str), runId |-> Opt(OrNull(Uuid)), limit |-> Opt(Num),
            cursor |-> Opt(OrNull(Str))], NoBody,
           200 :> Cls(C!PageInputRequestOut) @@ 422 :> Cls(C!HTTPValidationError))

list_runs_SnakeCase ==
  Endpoint("get", Api \o <<"runs">>,
           [installation_id |-> Opt(OrNull(Uuid)), state |-> Opt(OrNull(Str)), limit |-> Opt(Num)],
           NoBody, 200 :> Cls(C!PageRunOut) @@ 422 :> Cls(C!HTTPValidationError))

list_runs ==
  Endpoint("get", Api \o <<"runs">>,
           [installationId |-> Opt(OrNull(Uuid)),
            state |-> Opt(OrNull(List(Enum(C!ListRunsApiV1RunsGetStateType0Item)))),
            trigger |-> Opt(OrNull(Str)), limit |-> Opt(Num), cursor |-> Opt(OrNull(Str))],
           NoBody, 200 :> Cls(C!PageRunOut) @@ 422 :> Cls(C!HTTPValidationError))

retry_run ==
  Endpoint("post", Api \o <<"runs", ":uuid", "retry">>, None, NoBody,
           200 :> Cls(C!RunOut) @@ Errors)

run_events_history ==
  Endpoint("get", Api \o <<"runs", ":uuid", "events", "history">>,
           [after |-> Opt(Num), limit |-> Opt(Num)], NoBody,
           200 :> List(Cls(C!RunEventOut)) @@ Errors)

stream_run_events ==
  [Endpoint("get", Api \o <<"runs", ":uuid", "events">>,
            [after |-> Opt(OrNull(Num))], NoBody, 200 :> Json @@ Errors)
     EXCEPT !.headers = "Last-Event-ID" :> Opt(OrNull(Str))]

create_schedule ==
  Endpoint("post", Api \o <<"schedules">>, None, JsonBody(C!ScheduleCreateIn),
           201 :> Cls(C!ScheduleOut) @@ Errors)

delete_schedule ==
  Endpoint("delete", Api \o <<"schedules", ":uuid">>, None, NoBody, 204 :> NoContent @@ Errors)

get_schedule ==
  Endpoint("get", Api \o <<"schedules", ":uuid">>, None, NoBody,
           200 :> Cls(C!ScheduleOut) @@ Errors)

list_schedules ==
  Endpoint("get", Api \o <<"schedules">>,
           [installationId |-> Opt(OrNull(Uuid)), limit |-> Opt(Num),
            cursor |-> Opt(OrNull(Str))], NoBody,
           200 :> Cls(C!PageScheduleOut) @@ 422 :> Cls(C!HTTPValidationError))

preview_schedule ==
  Endpoint("post", Api \o <<"schedules", "preview">>, None, JsonBody(C!SchedulePreviewIn),
           200 :> Cls(C!SchedulePreviewOut) @@ Errors)

update_schedule ==
  Endpoint("patch", Api \o <<"schedules", ":uuid">>, None, JsonBody(C!SchedulePatchIn),
           200 :> Cls(C!ScheduleOut) @@ Errors)

get_settings_route ==
  Endpoint("get", Api \o <<"settings">>, None, NoBody, 200 :> Cls(C!SettingsOut))

patch_settings ==
  Endpoint("patch", Api \o <<"settings">>, None, JsonBody(C!SettingsPatchIn),
           200 :> Cls(C!SettingsOut) @@ Errors)

create_backup ==
  Endpoint("post", Api \o <<"system", "backups">>, None, NoBody,
           202 :> Cls(C!BackupOut) @@ 403 :> Failure @@ 404 :> Failure @@ 409 :> Failure)

download_backup ==
  Endpoint("get", Api \o <<"system", "backups", ":str", "download">>, None, NoBody,
           200 :> Json @@ 403 :> Failure @@ 404 :> Failure @@ 409 :> Failure @@
            422 :> Cls(C!HTTPValidationError))

download_diagnostics ==
  Endpoint("get", Api \o <<"system", "diagnostics">>, None, NoBody,
           200 :> Json @@ 403 :> Failure)

list_backups ==
  Endpoint("get", Api \o <<"system", "backups">>,
           [limit |-> Opt(Num), cursor |-> Opt(OrNull(Str))], NoBody,
           200 :> Cls(C!BackupPage) @@ 422 :> Cls(C!HTTPValidationError))

live ==
  Endpoint("get", Api \o <<"health", "live">>, None, NoBody, 200 :> Cls(C!HealthOut))

ready ==
  Endpoint("get", Api \o <<"health", "ready">>, None, NoBody,
           200 :> Cls(C!HealthOut) @@ 503 :> Cls(C!HealthOut))

system_memory ==
  Endpoint("get", Api \o <<"system", "memory">>, None, NoBody, 200 :> Cls(C!MemoryOut))

system_status ==
  Endpoint("get", Api \o <<"system", "status">>, None, NoBody, 200 :> Cls(C!SystemStatusOut))

----------------------------------------------------------------------------

Operations ==
  {"create_installation", "delete_installation", "get_catalog_agent", "get_catalog_version",
   "get_installation", "import_agent", "list_catalog", "list_installations",
   "update_installation", "list_audit_events", "bootstrap", "bootstrap_status", "login",
   "logout", "me", "create_session", "delete_session", "disable_session", "enable_session",
   "get_session", "list_sessions", "resolve_citation", "send_message",
   "create_provider_profile", "delete_provider_profile", "get_voice_call", "google_disconnect",
   "google_start", "google_test", "hang_up_voice_call", "list_connections",
   "list_provider_profiles", "start_voice_call", "test_provider_profile", "twilio_delete",
   "twilio_save", "twilio_test", "twilio_test_call", "agent_event_batch", "agent_event", "ask",
   "claim_action", "complete_action", "handshake", "heartbeat", "internal_run", "metrics",
   "model_state", "poll_input", "run_result", "start_agent", "create_knowledge_base",
   "delete_document", "delete_knowledge_base", "get_document", "get_knowledge_base",
   "list_documents", "list_knowledge_bases", "query_knowledge_base", "reindex_document",
   "upload_document", "cancel_model_install", "delete_model", "get_model", "list_models",
   "model_events", "model_install", "model_load", "speak_text", "transcribe_audio",
   "unload_model", "acknowledge_run", "answer_input_request", "attention", "cancel_run",
   "create_run", "get_run", "list_input_requests", "list_runs", "retry_run",
   "run_events_history", "stream_run_events", "create_schedule", "delete_schedule",
   "get_schedule", "list_schedules", "preview_schedule", "update_schedule",
   "get_settings_route", "patch_settings", "create_backup", "download_backup",
   "download_diagnostics", "list_backups", "live", "ready", "system_memory", "system_status"}

Endpoints ==
  [o \in Operations |->
     CASE o = "create_installation" -> create_installation
       [] o = "delete_installation" -> delete_installation
       [] o = "get_catalog_agent" -> get_catalog_agent
       [] o = "get_catalog_version" -> get_catalog_version
       [] o = "get_installation" -> get_installation
       [] o = "import_agent" -> import_agent
       [] o = "list_catalog" -> list_catalog
       [] o = "list_installations" -> list_installations
       [] o = "update_installation" -> update_installation
       [] o = "list_audit_events" -> list_audit_events
       [] o = "bootstrap" -> bootstrap
       [] o = "bootstrap_status" -> bootstrap_status
       [] o = "login" -> login
       [] o = "logout" -> logout
       [] o = "me" -> me
       [] o = "create_session" -> create_session
       [] o = "delete_session" -> delete_session
       [] o = "disable_session" -> disable_session
       [] o = "enable_session" -> enable_session
       [] o = "get_session" -> get_session
       [] o = "list_sessions" -> list_sessions
       [] o = "resolve_citation" -> resolve_citation
       [] o = "send_message" -> send_message
       [] o = "create_provider_profile" -> create_provider_profile
       [] o = "delete_provider_profile" -> delete_provider_profile
       [] o = "get_voice_call" -> get_voice_call
       [] o = "google_disconnect" -> google_disconnect
       [] o = "google_start" -> google_start
       [] o = "google_test" -> google_test
       [] o = "hang_up_voice_call" -> hang_up_voice_call
       [] o = "list_connections" -> list_connections
       [] o = "list_provider_profiles" -> list_provider_profiles
       [] o = "start_voice_call" -> start_voice_call
       [] o = "test_provider_profile" -> test_provider_profile
       [] o = "twilio_delete" -> twilio_delete
       [] o = "twilio_save" -> twilio_save
       [] o = "twilio_test" -> twilio_test
       [] o = "twilio_test_call" -> twilio_test_call
       [] o = "agent_event_batch" -> agent_event_batch
       [] o = "agent_event" -> agent_event
       [] o = "ask" -> ask
       [] o = "claim_action" -> claim_action
       [] o = "complete_action" -> complete_action
       [] o = "handshake" -> handshake
       [] o = "heartbeat" -> heartbeat
       [] o = "internal_run" -> internal_run
       [] o = "metrics" -> metrics
       [] o = "model_state" -> model_state
       [] o = "poll_input" -> poll_input
       [] o = "run_result" -> run_result
       [] o = "start_agent" -> start_agent
       [] o = "create_knowledge_base" -> create_knowledge_base
       [] o = "delete_document" -> delete_document
       [] o = "delete_knowledge_base" -> delete_knowledge_base
       [] o = "get_document" -> get_document
       [] o = "get_knowledge_base" -> get_knowledge_base
       [] o = "list_documents" -> list_documents
       [] o = "list_knowledge_bases" -> list_knowledge_bases
       [] o = "query_knowledge_base" -> query_knowledge_base
       [] o = "reindex_document" -> reindex_document
       [] o = "upload_document" -> upload_document
       [] o = "cancel_model_install" -> cancel_model_install
       [] o = "delete_model" -> delete_model
       [] o = "get_model" -> get_model
       [] o = "list_models" -> list_models
       [] o = "model_events" -> model_events
       [] o = "model_install" -> model_install
       [] o = "model_load" -> model_load
       [] o = "speak_text" -> speak_text
       [] o = "transcribe_audio" -> transcribe_audio
       [] o = "unload_model" -> unload_model
       [] o = "acknowledge_run" -> acknowledge_run
       [] o = "answer_input_request" -> answer_input_request
       [] o = "attention" -> attention
       [] o = "cancel_run" -> cancel_run
       [] o = "create_run" -> create_run
       [] o = "get_run" -> get_run
       [] o = "list_input_requests" -> list_input_requests
       [] o = "list_runs" -> list_runs
       [] o = "retry_run" -> retry_run
       [] o = "run_events_history" -> run_events_history
       [] o = "stream_run_events" -> stream_run_events
       [] o = "create_schedule" -> create_schedule
       [] o = "delete_schedule" -> delete_schedule
       [] o = "get_schedule" -> get_schedule
       [] o = "list_schedules" -> list_schedules
       [] o = "preview_schedule" -> preview_schedule
       [] o = "update_schedule" -> update_schedule
       [] o = "get_settings_route" -> get_settings_route
       [] o = "patch_settings" -> patch_settings
       [] o = "create_backup" -> create_backup
       [] o = "download_backup" -> download_backup
       [] o = "download_diagnostics" -> download_diagnostics
       [] o = "list_backups" -> list_backups
       [] o = "live" -> live
       [] o = "ready" -> ready
       [] o = "system_memory" -> system_memory
       [] o = "system_status" -> system_status]

----------------------------------------------------------------------------
(* The client builds the request.                                          *)

BodyArgs(body) ==
  CASE body[1] = "none" -> {Unset}
    [] body[1] = "maybe" -> {Unset, Null} \cup Samples(Cls(body[2]), FALSE)
    [] OTHER -> Samples(Cls(body[2]), FALSE)

BodyBase(body) == IF body[1] \in {"none", "maybe"} THEN Unset ELSE Base(Cls(body[2]))

Args(e) ==
  LET base == [name |-> "name", query |-> Base(Cls(e.query))[2].fields,
               headers |-> Base(Cls(e.headers))[2].fields, body |-> BodyBase(e.body)]
      Fields(T) == {v[2].fields : v \in Samples(Cls(T), FALSE)}
  IN  {[base EXCEPT !.name = n] : n \in StrArgs}
        \cup {[base EXCEPT !.query = q] : q \in Fields(e.query)}
        \cup {[base EXCEPT !.headers = h] : h \in Fields(e.headers)}
        \cup {[base EXCEPT !.body = b] : b \in BodyArgs(e.body)}

(* params = {k: v ... if v is not UNSET and v is not None}; a list is sent *)
(* as one pair for each item.                                              *)
Left(v) == v \in {Unset, Null} \/ v = <<"list", <<>>>>
QueryOf(q) == [k \in {k \in DOMAIN q : ~Left(q[k])} |-> to_dict(q[k])]

(* json=UNSET cannot be encoded, json=None sends no body.                  *)
BodyOf(body, b) ==
  CASE body[1] = "none" -> <<"none">>
    [] body[1] = "form" -> <<"parts", to_multipart(b)>>
    [] b = Unset -> Raised
    [] b = Null -> <<"none">>
    [] OTHER -> <<"json", to_dict(b)>>

_get_kwargs(e, a) ==
  [method |-> e.method,
   path |-> [i \in DOMAIN e.path |-> CASE e.path[i] = ":uuid" -> UuidText
                                       [] e.path[i] = ":str" -> a.name
                                       [] OTHER -> e.path[i]],
   query |-> QueryOf(a.query),
   headers |-> [k \in {k \in DOMAIN a.headers : a.headers[k] # Unset} |-> a.headers[k]],
   body |-> BodyOf(e.body, a.body)]

(* httpx takes neither a header without a value nor an object that is not  *)
(* JSON.                                                                   *)
Sendable(r) == r.body # Raised /\ \A k \in DOMAIN r.headers : r.headers[k] # Null

----------------------------------------------------------------------------
(* The server finds the route and validates the request.                   *)

Fits(path, p) ==
  /\ Len(path) = Len(p)
  /\ \A i \in DOMAIN p : path[i] \in {":uuid", ":str"} \/ path[i] = p[i]

Full(routes, r) == {i \in DOMAIN routes : /\ routes[i].route.method = r.method
                                         /\ Fits(routes[i].route.path, r.path)}
Partial(routes, r) == {i \in DOMAIN routes : Fits(routes[i].route.path, r.path)}
First(I) == CHOOSE i \in I : \A j \in I : i <= j

PathValid(path, p) == \A i \in DOMAIN p : path[i] = ":uuid" => p[i] = UuidText

(* A file parameter takes only a part that has a file name.                *)
PartsOf(form, parts) ==
  LET Field(k) == IF k \notin DOMAIN parts
                  THEN IF form[k][1] = "default" THEN Unset ELSE Raised
                  ELSE IF form[k][1] = "file" /\ ~parts[k].named THEN Raised
                       ELSE <<"str", parts[k].text>>
      f == [k \in DOMAIN form |-> Field(k)]
  IN  IF \E k \in DOMAIN f : f[k] = Raised THEN Raised ELSE Object(f, None)

BodySeen(body, b) ==
  CASE body[1] = "none" -> Unset
    [] body[1] = "form" -> IF b[1] = "parts" THEN PartsOf(body[2], b[2]) ELSE Raised
    [] body[1] = "maybe" /\ b[1] = "none" -> Unset
    [] OTHER -> IF b[1] = "json" THEN Validate(Cls(body[2]), b[2]) ELSE Raised

Failed(status) == [route |-> "none", status |-> status]

ServedAs(r) ==
  IF Full(S!Routes, r) = {} THEN Failed(IF Partial(S!Routes, r) = {} THEN 404 ELSE 405)
  ELSE LET x == S!Routes[First(Full(S!Routes, r))]
           q == Validate(Cls(x.route.query), <<"obj", r.query>>)
           h == Validate(Cls(x.route.headers), <<"obj", r.headers>>)
           b == BodySeen(x.route.body, r.body)
       IN  IF ~PathValid(x.route.path, r.path) \/ Raised \in {q, h, b} THEN Failed(422)
           ELSE [route |-> x.name, status |-> 0, query |-> q[2].fields,
                 headers |-> h[2].fields, body |-> b]

RouteOf(routes, name) == routes[CHOOSE i \in DOMAIN routes : routes[i].name = name].route

----------------------------------------------------------------------------
(* Answers.                                                                *)

Json2(status, v) == [status |-> status, media |-> "json", doc |-> Dump(v)]
Other(status, media) == [status |-> status, media |-> media, doc |-> Null]

ErrorAnswers(status) == {Json2(status, v) : v \in Samples(Cls(S!ErrorResponse), TRUE)}

Answers(r) ==
  (IF r.answer[1] \in {"class", "list"}
   THEN {Json2(r.status, v) : v \in Samples(r.answer, TRUE)}
   ELSE {Other(r.status, r.answer[1])})
  \cup UNION {IF s \in DOMAIN r.errors THEN {Json2(s, v) : v \in Samples(r.errors[s], TRUE)}
              ELSE ErrorAnswers(s) : s \in Statuses \cup DOMAIN r.errors}

----------------------------------------------------------------------------
(* The client reads the answer.                                            *)

Value(v) == [kind |-> "value", value |-> v]
Returned(v) == IF v = Raised THEN [kind |-> "raised", value |-> NotYet] ELSE Value(v)

(* The chain of status tests.  response.json() of a body that is not JSON  *)
(* raises; an undocumented status gives None or UnexpectedStatus.          *)
_parse_response(e, a, raise_on_unexpected_status) ==
  IF a.status \notin DOMAIN e.responses
  THEN [kind |-> IF raise_on_unexpected_status THEN "UnexpectedStatus" ELSE "None",
        value |-> NotYet]
  ELSE LET T == e.responses[a.status]
       IN  IF T[1] = "nothing" THEN Value(Null)
           ELSE IF T[1] = "text" THEN Value(<<"str", "text">>)
           ELSE IF a.media # "json" THEN Returned(Raised)
           ELSE Returned(from_dict(T, a.doc))

----------------------------------------------------------------------------

Init ==
  /\ stage = "idle"
  /\ op = "none"
  /\ asked = NotYet /\ request = NotYet /\ served = NotYet
  /\ answer = NoAnswer /\ outcome = NotYet

(* sync_detailed and asyncio_detailed up to the request.                   *)
Send(o, a) ==
  /\ stage = "idle"
  /\ op' = o
  /\ asked' = a
  /\ LET r == _get_kwargs(Endpoints[o], a)
     IN  IF Sendable(r)
         THEN stage' = "sent" /\ request' = r /\ UNCHANGED outcome
         ELSE stage' = "done" /\ outcome' = Returned(Raised) /\ UNCHANGED request
  /\ UNCHANGED <<served, answer>>

Receive ==
  /\ stage = "sent"
  /\ stage' = "served"
  /\ served' = ServedAs(request)
  /\ UNCHANGED <<op, asked, request, answer, outcome>>

(* The exception handlers answer a request that was not served.            *)
Refuse ==
  /\ stage = "served" /\ served.route = "none"
  /\ stage' = "answered"
  /\ answer' \in ErrorAnswers(served.status)
  /\ asked' = NotYet /\ request' = NotYet
  /\ UNCHANGED <<op, served, outcome>>

Handle ==
  /\ stage = "served" /\ served.route # "none"
  /\ stage' = "answered"
  /\ answer' \in Answers(RouteOf(S!Routes, served.route))
  /\ asked' = NotYet /\ request' = NotYet
  /\ served' = NotYet
  /\ UNCHANGED <<op, outcome>>

(* _build_response.                                                        *)
Read ==
  /\ stage = "answered"
  /\ stage' = "done"
  /\ \E strict \in BOOLEAN : outcome' = _parse_response(Endpoints[op], answer, strict)
  /\ UNCHANGED <<op, asked, request, served, answer>>

Return ==
  /\ stage = "done"
  /\ stage' = "idle"
  /\ op' = "none"
  /\ asked' = NotYet /\ request' = NotYet /\ served' = NotYet
  /\ answer' = NoAnswer /\ outcome' = NotYet

Next ==
  \/ stage = "idle" /\ \E o \in Ops : \E a \in Args(Endpoints[o]) : Send(o, a)
  \/ Receive \/ Refuse \/ Handle \/ Read \/ Return

Spec == Init /\ [][Next]_vars

----------------------------------------------------------------------------

(* Every request reaches the route it was generated from and its path,     *)
(* query, headers and body mean to the server what they meant to the       *)
(* caller: no argument is dropped, renamed, retyped or refused, and what   *)
(* the caller left out takes the server's default.                         *)
Meant(q) == [k \in DOMAIN q |-> IF Left(q[k]) THEN Unset ELSE q[k]]
RequestUnderstood ==
  stage = "served" =>
    /\ served.route = op
    /\ served.query = Meant(asked.query)
    /\ served.headers = Meant(asked.headers)
    /\ served.body = (IF asked.body = Null THEN Unset ELSE asked.body)

(* The document with the client's spelling of instants.                    *)
RECURSIVE Retimed(_)
Retimed(j) ==
  CASE j = <<"str", Zulu>> -> <<"str", Offset>>
    [] j[1] = "list" -> <<"list", [i \in DOMAIN j[2] |-> Retimed(j[2][i])]>>
    [] j[1] = "obj" -> <<"obj", [k \in DOMAIN j[2] |-> Retimed(j[2][k])]>>
    [] OTHER -> j

Succeeded == stage = "done" /\ answer.status \in 1 .. 399

(* A success is delivered: for every document of the response model, with  *)
(* every enumeration value, null, list and key a newer server adds, the    *)
(* generated function returns a value whose attributes have the types it   *)
(* declares, and raises nothing.                                           *)
AnswerDelivered ==
  Succeeded =>
    /\ outcome.kind = "value"
    /\ answer.media = "json" =>
         HasType(Endpoints[op].responses[answer.status], outcome.value)

(* What a caller reads and writes back is what the server sent: to_dict of *)
(* the returned object is the document, unknown keys and nulls included.   *)
NothingForgotten ==
  (Succeeded /\ answer.media = "json" /\ outcome.kind = "value") =>
    to_dict(outcome.value) = Retimed(answer.doc)

(* The failures a route declares, and every failure the client documents,  *)
(* reach the caller as an object of the class the server sent.             *)
ErrorsReadable ==
  (stage = "done" /\ answer.status >= 400) =>
    LET errors == RouteOf(S!Routes, op).errors
        sent == IF answer.status \in DOMAIN errors THEN errors[answer.status]
                ELSE Cls(S!ErrorResponse)
    IN  answer.status \in DOMAIN errors \cup DOMAIN Endpoints[op].responses =>
          /\ outcome.kind = "value"
          /\ DOMAIN outcome.value[2].fields = DOMAIN sent[2]

(* A call raises only what its docstring lists: UnexpectedStatus, for a    *)
(* status the route does not declare, or a timeout.                        *)
OnlyDocumentedRaises ==
  stage = "done" =>
    /\ outcome.kind # "raised"
    /\ outcome.kind = "UnexpectedStatus" =>
         answer.status \notin DOMAIN RouteOf(S!Routes, op).errors \cup {RouteOf(S!Routes, op).status}

=============================================================================
