----------------------------- MODULE MCServices -----------------------------
(***************************************************************************)
(* Instances for TLC of the components that share no state with each       *)
(* other.  Each is explored while the others rest (their variables are 0): *)
(* subject names the instance that moves, with the constants it has.       *)
(*                                                                         *)
(* There are three specifications, one for each configuration: AgentsSpec  *)
(* (the SDK, an agent's process, the platform it is developed against, one *)
(* of the agents), EdgesSpec (what makes calls, fires by the clock and is  *)
(* called by generated code) and ProgressSpec (smaller instances of        *)
(* sixteen components, with fairness).                                     *)
(***************************************************************************)
EXTENDS Integers, Sequences

CONSTANTS Nothing, NoKey, NoAccount, Nobody

VARIABLE subject   \* the instance that moves; it never changes

VARIABLES key_row, key_attempt, key_pc, key_sends, net, answer, effects, value, idempotent,
  client_pc, attempt, outages, began, slept, client_now, sends, applied, client_late, result,
  emitted, buf_buffer, dropped, flush, batch, at, buf_late, log, page_log, gen, wire, sub, poll,
  terminalSeen, ui, twice, run, since, asked, broker, task, hb, fin, exit, fake_run, inp,
  fake_act, cold, loads, fake_held, auto, live, fake_greeted, fake_stream, head, reviews,
  rev_late, rev_pc, sha, of, found, told, tel_row, req, handler, dialled, phone, posted,
  tel_crashes, session, create, ending, stream, vc_phone, vc_posted, pressed, main, agent, timer,
  speech, q, turns, hangup, gone, speaking, marks, buffer, replies, held, pc, call, lost,
  present, vs_speaking, spoke, vs_agent, greeted, det, now, wrap, wrapping, done, items, heard,
  report, hist, sheet, camp_attempt, camp_pc, plan, camp_at, camp_call, camp_asked, action,
  calls, out, media, state, fv_req, room, callee, leg, limits, dials, inst, leases, rel, loadJob,
  unloadJob, box, late, use, act, worker, leader, crashes, target, staging, file, thread, cancel,
  can, del, row, mirror, load, rq, entries, fut, reserved, usage, rows, mode, chat_session,
  lease, toggle, send, reply, sch_now, d, sch_inst, lock, proc, armed, edits, faults, login,
  seen, conn, grant, minted, dead, access, google_lock, user, owner, kb, doc, chunks, know_file,
  up, job, w, back_doc, next, back_job, back_w, mk, archive, sidecar, scratch, list, stage, op,
  api_asked, request, served, api_answer, outcome

\* rows of a contact sheet: an unedited one with a duplicate number, an empty row and a row
\* without consent; and one whose first number is edited between two attempts
Cell(who, number) == [name |-> who, phone |-> number, fit |-> "ok"]
Blank == [name |-> "", phone |-> "", fit |-> "blank"]
NoConsent == [name |-> "C", phone |-> "p3", fit |-> "consent"]
Plain == { <<Cell("A", "p1"), Cell("B", "p2"), Cell("A", "p1")>>,
           <<Blank, Cell("B", "p2"), NoConsent>>, <<NoConsent>> }
NewNumber == { <<Cell("A", "p1"), Cell("B", "p2")>>, <<Cell("A", "p3"), Cell("B", "p2")>> }

\* a request to a model, its retry, and another key in a store for one entry
R(h, k, b, s, p, e) == [holder |-> h, key |-> k, body |-> b, stream |-> s, provider |-> p, est |-> e]
RetryReq == [a  |-> R("chat1", "k", "b1", FALSE, "local", 0),
             a2 |-> R("chat1", "k", "b1", FALSE, "local", 0),
             z  |-> R("chat1", "m", "b1", FALSE, "local", 0)]

\* a schedule that is due at every instant, and one at every other
UTC == [offset |-> 0, at |-> 0, by |-> 0]
TwoSpecs == {[cron |-> {1, 2, 3, 4, 5, 20}, zone |-> UTC], [cron |-> {3, 5, 20}, zone |-> UTC]}

\* a schedule with a time that comes twice when the wall clock goes back, and one with two times in
\* a gap of the wall clock
Back == [offset |-> 0, at |-> 3, by |-> -2]
Gap == [offset |-> 0, at |-> 3, by |-> 3]
DstSpecs == {[cron |-> {2, 3, 20}, zone |-> Back], [cron |-> {2, 4, 5, 8, 20}, zone |-> Gap]}

\* endpoints by what their answers or bodies are: a success that is not JSON, a form with a file, a
\* body that may be left out, status 422 without an entry in the route's responses
NotJson == {"stream_run_events", "model_events", "send_message", "speak_text", "download_backup",
            "download_diagnostics"}
Uploads == {"upload_document", "transcribe_audio"}
DefaultBody == {"unload_model"}
Undeclared422 == {"list_schedules", "list_catalog", "list_installations", "bootstrap",
  "login", "list_audit_events", "list_connections", "list_sessions", "list_models",
  "list_backups", "download_backup", "list_runs", "list_input_requests"}

Is(s) == subject = s

-----------------------------------------------------------------------------
(* ActionKeys: two calls in the first attempt and one in the second; calls that resume *)
keys == <<key_row, key_attempt, key_pc, key_sends, net, answer, effects, value>>
Once == INSTANCE ActionKeys WITH Calls <- {"a", "b", "c"},
  AttemptOf <- [c \in {"a", "b", "c"} |-> IF c = "c" THEN 2 ELSE 1], MaxSends <- 2, Resume <- {},
  onceRow <- key_row, attempt <- key_attempt, pc <- key_pc, sends <- key_sends
Resumed == INSTANCE ActionKeys WITH Calls <- {"a", "b", "c"},
  AttemptOf <- [c \in {"a", "b", "c"} |-> IF c = "c" THEN 2 ELSE 1], MaxSends <- 1,
  Resume <- {"b", "c"}, onceRow <- key_row, attempt <- key_attempt, pc <- key_pc, sends <- key_sends

(* BrokerClient *)
client == <<idempotent, client_pc, attempt, outages, began, slept, client_now, sends, applied,
  client_late, result>>
Client == INSTANCE BrokerClient WITH Budget <- 5, Cap <- 2, MaxAttempts <- 3, Latency <- {0, 1},
  RetryAfters <- {3}, MaxSends <- 6,
  Faults <- {"refused", "broken", "slow", "upstream", "limited", "provider"}, pc <- client_pc,
  now <- client_now, late <- client_late

(* EventBuffer: an event that is refused; a buffer that overflows; fewer events *)
buf == <<emitted, buf_buffer, dropped, flush, batch, at, buf_late, log>>
Events == INSTANCE EventBuffer WITH N <- 5, Bad <- {2}, MaxBatch <- 2, MaxBuffer <- 5,
  buffer <- buf_buffer, late <- buf_late
Full == INSTANCE EventBuffer WITH N <- 5, Bad <- {}, MaxBatch <- 2, MaxBuffer <- 3,
  buffer <- buf_buffer, late <- buf_late
FewEvents == INSTANCE EventBuffer WITH N <- 4, Bad <- {2}, MaxBatch <- 2, MaxBuffer <- 4,
  buffer <- buf_buffer, late <- buf_late

(* EventStream: with retries by the owner; without *)
page == <<page_log, gen, wire, sub, poll, terminalSeen, ui, twice>>
Stream == INSTANCE EventStream WITH MaxLog <- 5, Limit <- 2, MaxErrors <- 2,
  PollsBeforeRetry <- 2, Retries <- {"here", "elsewhere"}, log <- page_log
Page == INSTANCE EventStream WITH MaxLog <- 4, Limit <- 2, MaxErrors <- 2, PollsBeforeRetry <- 2,
  Retries <- {}, log <- page_log

(* AgentProcess: outages shorter and longer than the retry budget *)
process == <<run, since, asked, broker, task, hb, fin, exit>>
Agent == INSTANCE AgentProcess WITH Interval <- 4, Budget <- 10, Cap <- 2, MaxOutage <- 5,
  Pause <- 2, Slow <- 0
AgentOut == INSTANCE AgentProcess WITH Interval <- 4, Budget <- 10, Cap <- 2, MaxOutage <- 14,
  Pause <- 2, Slow <- 0

(* FakePlatform: with automatic answers; under the launcher *)
fake == <<fake_run, inp, fake_act, cold, loads, fake_held, auto, live, fake_greeted, fake_stream>>
Fake == INSTANCE FakePlatform WITH MaxAttempt <- 2, Keys <- {"k1"}, Actions <- {"x1"},
  Delays <- TRUE, Early <- FALSE, Watched <- FALSE, run <- fake_run, act <- fake_act,
  held <- fake_held, greeted <- fake_greeted, stream <- fake_stream
FakeWatched == INSTANCE FakePlatform WITH MaxAttempt <- 2, Keys <- {"k1", "k2"}, Actions <- {},
  Delays <- FALSE, Early <- FALSE, Watched <- TRUE, run <- fake_run, act <- fake_act,
  held <- fake_held, greeted <- fake_greeted, stream <- fake_stream

(* PrReviewer: one run after the other; two at once with answers that are late *)
rev == <<head, reviews, rev_late, rev_pc, sha, of, found, told>>
Review == INSTANCE PrReviewer WITH Runs <- {1, 2, 3}, Overlap <- FALSE, Late <- FALSE,
  MaxPush <- 2, late <- rev_late, pc <- rev_pc
ReviewLate == INSTANCE PrReviewer WITH Runs <- {1, 2}, Overlap <- TRUE, Late <- TRUE,
  MaxPush <- 1, late <- rev_late, pc <- rev_pc

-----------------------------------------------------------------------------
(* Telephony: one call with two callbacks at once; two keys and one call allowed; one callback *)
tel == <<tel_row, req, handler, dialled, phone, posted, tel_crashes>>
Phone == INSTANCE Telephony WITH Keys <- {"k1"}, Requests <- {"r1"}, KeyOf <- [r \in {"r1"} |-> "k1"],
  Handlers <- {"h1", "h2"}, Ends <- {"completed"}, MaxCalls <- 1, Crashes <- 0, callRow <- tel_row,
  crashes <- tel_crashes
Limited == INSTANCE Telephony WITH Keys <- {"k1", "k2"}, Requests <- {"r1", "r2", "r3"},
  KeyOf <- [r \in {"r1", "r2", "r3"} |-> IF r = "r3" THEN "k2" ELSE "k1"], Handlers <- {"h1"},
  Ends <- {"busy"}, MaxCalls <- 1, Crashes <- 1, callRow <- tel_row, crashes <- tel_crashes
OnePhone == INSTANCE Telephony WITH Keys <- {"k1"}, Requests <- {"r1"},
  KeyOf <- [r \in {"r1"} |-> "k1"], Handlers <- {"h1"}, Ends <- {"completed"}, MaxCalls <- 1,
  Crashes <- 0, callRow <- tel_row, crashes <- tel_crashes

(* VoiceCall: two calls at once; one *)
vc == <<session, create, ending, stream, vc_phone, vc_posted, pressed>>
Box == INSTANCE VoiceCall WITH Calls <- {"c1", "c2"}, TwilioFails <- TRUE, phone <- vc_phone,
  posted <- vc_posted
OneBox == INSTANCE VoiceCall WITH Calls <- {"c1"}, TwilioFails <- TRUE, phone <- vc_phone,
  posted <- vc_posted

(* VoiceConversation: with models that answer; with models that fail *)
conv == <<main, agent, timer, speech, q, turns, hangup, gone, speaking, marks, buffer, replies,
  held>>
Conversation == INSTANCE VoiceConversation WITH MaxTurns <- 2, ModelFails <- FALSE
Silent == INSTANCE VoiceConversation WITH MaxTurns <- 1, ModelFails <- TRUE

(* VoiceSession: silence over time; a conversation; lost requests; a shorter conversation *)
vs == <<pc, call, lost, present, vs_speaking, spoke, vs_agent, greeted, det, now, wrap, wrapping,
  done, items, heard, report, hist>>
Session == INSTANCE VoiceSession WITH Early <- FALSE, Errors <- FALSE,
  Kinds <- {"noise", "plain", "bye"}, MaxTurns <- 2, MaxTime <- 5, speaking <- vs_speaking,
  agent <- vs_agent
Talk == INSTANCE VoiceSession WITH Early <- TRUE, Errors <- FALSE,
  Kinds <- {"plain", "bye", "dnc"}, MaxTurns <- 3, MaxTime <- 0, speaking <- vs_speaking,
  agent <- vs_agent
Lossy == INSTANCE VoiceSession WITH Early <- TRUE, Errors <- TRUE,
  Kinds <- {"plain", "bye", "voicemail"}, MaxTurns <- 3, MaxTime <- 0, speaking <- vs_speaking,
  agent <- vs_agent
ShortTalk == INSTANCE VoiceSession WITH Early <- TRUE, Errors <- FALSE,
  Kinds <- {"plain", "bye", "dnc"}, MaxTurns <- 2, MaxTime <- 0, speaking <- vs_speaking,
  agent <- vs_agent

(* CallCampaign: either agent on an unedited sheet; an edit between attempts *)
camp == <<sheet, camp_attempt, camp_pc, plan, camp_at, camp_call, camp_asked, action, calls, out>>
Caller == INSTANCE CallCampaign WITH Voice <- FALSE, Sheets <- Plain, Edits <- FALSE,
  MaxCalls <- 3, MaxAttempt <- 3, attempt <- camp_attempt, pc <- camp_pc, at <- camp_at,
  call <- camp_call, asked <- camp_asked
VoiceCaller == INSTANCE CallCampaign WITH Voice <- TRUE, Sheets <- Plain, Edits <- FALSE,
  MaxCalls <- 3, MaxAttempt <- 3, attempt <- camp_attempt, pc <- camp_pc, at <- camp_at,
  call <- camp_call, asked <- camp_asked
Edited == INSTANCE CallCampaign WITH Voice <- FALSE, Sheets <- NewNumber, Edits <- TRUE,
  MaxCalls <- 3, MaxAttempt <- 3, attempt <- camp_attempt, pc <- camp_pc, at <- camp_at,
  call <- camp_call, asked <- camp_asked

(* FakeVoice: two requests of one key at once; failing requests to the media server *)
fv == <<media, state, fv_req, room, callee, leg, limits, dials>>
Sim == INSTANCE FakeVoice WITH Requests <- {1, 2}, Media <- {"offline", "sip", "simulated"},
  Overlap <- TRUE, Errors <- FALSE, req <- fv_req
SimErr == INSTANCE FakeVoice WITH Requests <- {1, 2, 3}, Media <- {"offline", "sip", "simulated"},
  Overlap <- FALSE, Errors <- TRUE, req <- fv_req

-----------------------------------------------------------------------------
(* ModelResidency *)
res == <<inst, leases, rel, loadJob, unloadJob, box, late, use, act, worker, leader, crashes>>
Residency == INSTANCE ModelResidency WITH Models <- {"m1"}, Holders <- {"h2"}, RunHolders <- {},
  OneOff <- {}, Generative <- {"m1"}, Peak <- [m \in {"m1"} |-> 2], Margin <- 1, MaxServing <- 3,
  MaxCrashes <- 1, MaxTries <- 1, MemFaults <- {},
  minst <- inst

(* ModelStore *)
store == <<target, staging, file, thread, cancel, can, del, row, mirror, load>>
Store == INSTANCE ModelStore WITH StoreFaults <- {"error", "restart", "torn"},
  storeFile <- file, storeRow <- row

(* LlmGateway *)
llm == <<rq, entries, fut, reserved, usage, rows>>
Llm == INSTANCE LlmGateway WITH Requests <- DOMAIN RetryReq, Req <- RetryReq,
  Runs <- {"run1", "run2"}, Cloud <- {"openai"}, RunLimit <- 9, PerRun <- 3, Daily <- 3,
  MaxEntries <- 1, LlmFaults <- {"provider", "expire", "cancel", "restart"}

(* ChatSessions *)
chat == <<mode, chat_session, lease, toggle, send, reply>>
Chat == INSTANCE ChatSessions WITH Toggles <- {"t1", "t2"}, Messages <- {"m1"},
  Modes <- {"none", "only_knowledge"}, ChatFaults <- {"lost", "expire"}, session <- chat_session
ChatCrash == INSTANCE ChatSessions WITH Toggles <- {"t1", "t2"}, Messages <- {"m1"},
  Modes <- {"none"}, ChatFaults <- {"lost", "expire", "crash", "unread"}, session <- chat_session

(* Schedules: smaller for progress; leaders that overlap and a clock set back; edits; crashes and
   misfires *)
sch == <<sch_now, d, sch_inst, lock, proc, armed, edits, faults>>
Sched == INSTANCE Schedules WITH Procs <- {"p"}, Scheds <- {"s", "t"}, Specs <- TwoSpecs,
  Policies <- {"fire_once", "skip"}, Grace <- 1, Limit <- 1, Horizon <- 3, Edits <- 2,
  Faults <- {"crash"}, now <- sch_now, inst <- sch_inst
Leaders == INSTANCE Schedules WITH Procs <- {"p", "q"}, Scheds <- {"s"}, Specs <- DstSpecs,
  Policies <- {"fire_once"}, Grace <- 1, Limit <- 1, Horizon <- 4, Edits <- 2,
  Faults <- {"drop", "back"}, now <- sch_now, inst <- sch_inst
SchedEdits == INSTANCE Schedules WITH Procs <- {"p"}, Scheds <- {"s"}, Specs <- DstSpecs,
  Policies <- {"fire_once"}, Grace <- 1, Limit <- 1, Horizon <- 5, Edits <- 3,
  Faults <- {"agent"}, now <- sch_now, inst <- sch_inst
Misfires == INSTANCE Schedules WITH Procs <- {"p", "q"}, Scheds <- {"s"}, Specs <- DstSpecs,
  Policies <- {"fire_once", "skip"}, Grace <- 1, Limit <- 1, Horizon <- 5, Edits <- 2,
  Faults <- {"drop", "crash"}, now <- sch_now, inst <- sch_inst

(* ApiContract: every endpoint that answers with JSON; every endpoint that declares its failures *)
api == <<stage, op, api_asked, request, served, api_answer, outcome>>
Any == INSTANCE ApiContract WITH Ops <- {}, StrArgs <- {}, Statuses <- {},
  asked <- api_asked, answer <- api_answer
Api == INSTANCE ApiContract WITH Ops <- (DOMAIN Any!Endpoints) \ (NotJson \cup Uploads),
  StrArgs <- {"name", "import"}, Statuses <- {500}, asked <- api_asked, answer <- api_answer
ApiErrors == INSTANCE ApiContract WITH
  Ops <- (DOMAIN Any!Endpoints) \ (NotJson \cup DefaultBody \cup Undeclared422),
  StrArgs <- {"name"}, Statuses <- {403, 422, 429, 503}, asked <- api_asked, answer <- api_answer

(* GoogleConnection *)
google == <<login, seen, conn, grant, minted, dead, access, google_lock, user, owner>>
Google == INSTANCE GoogleConnection WITH Logins <- {"c1"}, Account <- [c \in {"c1"} |-> "ada"],
  Scopes <- [c \in {"c1"} |-> {"gmail.readonly", "spreadsheets"}], Users <- {"u1", "u2"},
  Op <- [u \in {"u1", "u2"} |-> IF u = "u1" THEN "sheets_append" ELSE "test"], Owners <- {},
  MaxTokens <- 2, lock <- google_lock

(* KnowledgeIngest *)
know == <<kb, doc, chunks, know_file, up, job, w>>
Know == INSTANCE KnowledgeIngest WITH Docs <- {"d1"}, MaxIngest <- 2, MaxPurge <- 2,
  KnowFaults <- {"crash", "error", "timeout"}, file <- know_file
Purge == INSTANCE KnowledgeIngest WITH Docs <- {"d1"}, MaxIngest <- 2, MaxPurge <- 2,
  KnowFaults <- {"error"}, file <- know_file

(* Backups *)
back == <<back_doc, next, back_job, back_w, mk, archive, sidecar, scratch, list>>
Backup == INSTANCE Backups WITH BackupDocs <- {}, MaxName <- 2, Keep <- 1, BackupFaults <- {"crash", "pg"},
  backDoc <- back_doc, backJob <- back_job, backW <- back_w

-----------------------------------------------------------------------------
vars == <<subject, keys, client, buf, page, process, fake, rev, tel, vc, conv, vs, camp, fv, res,
  store, llm, chat, sch, google, know, back, api>>

\* Every component but c rests, with the variables of all others at 0; and stays so.
Rests(c) ==
  /\ IF c = "keys" THEN TRUE ELSE key_row = 0 /\ key_attempt = 0 /\ key_pc = 0 /\ key_sends = 0 /\
       net = 0 /\ answer = 0 /\ effects = 0 /\ value = 0
  /\ IF c = "client" THEN TRUE ELSE idempotent = 0 /\ client_pc = 0 /\ attempt = 0 /\ outages = 0 /\
       began = 0 /\ slept = 0 /\ client_now = 0 /\ sends = 0 /\ applied = 0 /\ client_late = 0 /\
       result = 0
  /\ IF c = "buf" THEN TRUE ELSE emitted = 0 /\ buf_buffer = 0 /\ dropped = 0 /\ flush = 0 /\
       batch = 0 /\ at = 0 /\ buf_late = 0 /\ log = 0
  /\ IF c = "page" THEN TRUE ELSE page_log = 0 /\ gen = 0 /\ wire = 0 /\ sub = 0 /\ poll = 0 /\
       terminalSeen = 0 /\ ui = 0 /\ twice = 0
  /\ IF c = "process" THEN TRUE ELSE run = 0 /\ since = 0 /\ asked = 0 /\ broker = 0 /\ task = 0 /\
       hb = 0 /\ fin = 0 /\ exit = 0
  /\ IF c = "fake" THEN TRUE ELSE fake_run = 0 /\ inp = 0 /\ fake_act = 0 /\ cold = 0 /\
       loads = 0 /\ fake_held = 0 /\ auto = 0 /\ live = 0 /\ fake_greeted = 0 /\ fake_stream = 0
  /\ IF c = "rev" THEN TRUE ELSE head = 0 /\ reviews = 0 /\ rev_late = 0 /\ rev_pc = 0 /\ sha = 0 /\
       of = 0 /\ found = 0 /\ told = 0
  /\ IF c = "tel" THEN TRUE ELSE tel_row = 0 /\ req = 0 /\ handler = 0 /\ dialled = 0 /\
       phone = 0 /\ posted = 0 /\ tel_crashes = 0
  /\ IF c = "vc" THEN TRUE ELSE session = 0 /\ create = 0 /\ ending = 0 /\ stream = 0 /\
       vc_phone = 0 /\ vc_posted = 0 /\ pressed = 0
  /\ IF c = "conv" THEN TRUE ELSE main = 0 /\ agent = 0 /\ timer = 0 /\ speech = 0 /\ q = 0 /\
       turns = 0 /\ hangup = 0 /\ gone = 0 /\ speaking = 0 /\ marks = 0 /\ buffer = 0 /\
       replies = 0 /\ held = 0
  /\ IF c = "vs" THEN TRUE ELSE pc = 0 /\ call = 0 /\ lost = 0 /\ present = 0 /\ vs_speaking = 0 /\
       spoke = 0 /\ vs_agent = 0 /\ greeted = 0 /\ det = 0 /\ now = 0 /\ wrap = 0 /\ wrapping = 0 /\
       done = 0 /\ items = 0 /\ heard = 0 /\ report = 0 /\ hist = 0
  /\ IF c = "camp" THEN TRUE ELSE sheet = 0 /\ camp_attempt = 0 /\ camp_pc = 0 /\ plan = 0 /\
       camp_at = 0 /\ camp_call = 0 /\ camp_asked = 0 /\ action = 0 /\ calls = 0 /\ out = 0
  /\ IF c = "fv" THEN TRUE ELSE media = 0 /\ state = 0 /\ fv_req = 0 /\ room = 0 /\ callee = 0 /\
       leg = 0 /\ limits = 0 /\ dials = 0
  /\ IF c = "res" THEN TRUE ELSE inst = 0 /\ leases = 0 /\ rel = 0 /\ loadJob = 0 /\
       unloadJob = 0 /\ box = 0 /\ late = 0 /\ use = 0 /\ act = 0 /\ worker = 0 /\ leader = 0 /\
       crashes = 0
  /\ IF c = "store" THEN TRUE ELSE target = 0 /\ staging = 0 /\ file = 0 /\ thread = 0 /\
       cancel = 0 /\ can = 0 /\ del = 0 /\ row = 0 /\ mirror = 0 /\ load = 0
  /\ IF c = "llm" THEN TRUE ELSE rq = 0 /\ entries = 0 /\ fut = 0 /\ reserved = 0 /\ usage = 0 /\
       rows = 0
  /\ IF c = "chat" THEN TRUE ELSE mode = 0 /\ chat_session = 0 /\ lease = 0 /\ toggle = 0 /\
       send = 0 /\ reply = 0
  /\ IF c = "sch" THEN TRUE ELSE sch_now = 0 /\ d = 0 /\ sch_inst = 0 /\ lock = 0 /\ proc = 0 /\
       armed = 0 /\ edits = 0 /\ faults = 0
  /\ IF c = "google" THEN TRUE ELSE login = 0 /\ seen = 0 /\ conn = 0 /\ grant = 0 /\ minted = 0 /\
       dead = 0 /\ access = 0 /\ google_lock = 0 /\ user = 0 /\ owner = 0
  /\ IF c = "know" THEN TRUE ELSE kb = 0 /\ doc = 0 /\ chunks = 0 /\ know_file = 0 /\ up = 0 /\
       job = 0 /\ w = 0
  /\ IF c = "back" THEN TRUE ELSE back_doc = 0 /\ next = 0 /\ back_job = 0 /\ back_w = 0 /\
       mk = 0 /\ archive = 0 /\ sidecar = 0 /\ scratch = 0 /\ list = 0
  /\ IF c = "api" THEN TRUE ELSE stage = 0 /\ op = 0 /\ api_asked = 0 /\ request = 0 /\
       served = 0 /\ api_answer = 0 /\ outcome = 0

Stay(c) ==
  /\ UNCHANGED subject
  /\ IF c = "keys" THEN TRUE ELSE UNCHANGED keys
  /\ IF c = "client" THEN TRUE ELSE UNCHANGED client
  /\ IF c = "buf" THEN TRUE ELSE UNCHANGED buf
  /\ IF c = "page" THEN TRUE ELSE UNCHANGED page
  /\ IF c = "process" THEN TRUE ELSE UNCHANGED process
  /\ IF c = "fake" THEN TRUE ELSE UNCHANGED fake
  /\ IF c = "rev" THEN TRUE ELSE UNCHANGED rev
  /\ IF c = "tel" THEN TRUE ELSE UNCHANGED tel
  /\ IF c = "vc" THEN TRUE ELSE UNCHANGED vc
  /\ IF c = "conv" THEN TRUE ELSE UNCHANGED conv
  /\ IF c = "vs" THEN TRUE ELSE UNCHANGED vs
  /\ IF c = "camp" THEN TRUE ELSE UNCHANGED camp
  /\ IF c = "fv" THEN TRUE ELSE UNCHANGED fv
  /\ IF c = "res" THEN TRUE ELSE UNCHANGED res
  /\ IF c = "store" THEN TRUE ELSE UNCHANGED store
  /\ IF c = "llm" THEN TRUE ELSE UNCHANGED llm
  /\ IF c = "chat" THEN TRUE ELSE UNCHANGED chat
  /\ IF c = "sch" THEN TRUE ELSE UNCHANGED sch
  /\ IF c = "google" THEN TRUE ELSE UNCHANGED google
  /\ IF c = "know" THEN TRUE ELSE UNCHANGED know
  /\ IF c = "back" THEN TRUE ELSE UNCHANGED back
  /\ IF c = "api" THEN TRUE ELSE UNCHANGED api

-----------------------------------------------------------------------------
(* Agents. *)

AgentsInit ==
  \/ /\ \/ subject = "keys" /\ Once!OnceInit
        \/ subject = "keys_resumed" /\ Resumed!OnceInit
     /\ Rests("keys")
  \/ subject = "client" /\ Client!Init /\ Rests("client")
  \/ /\ \/ subject = "events" /\ Events!Init
        \/ subject = "events_full" /\ Full!Init
     /\ Rests("buf")
  \/ subject = "stream" /\ Stream!Init /\ Rests("page")
  \/ /\ \/ subject = "agent" /\ Agent!Init
        \/ subject = "agent_out" /\ AgentOut!Init
     /\ Rests("process")
  \/ /\ \/ subject = "fake" /\ Fake!Init
        \/ subject = "fake_watched" /\ FakeWatched!Init
     /\ Rests("fake")
  \/ /\ \/ subject = "review" /\ Review!Init
        \/ subject = "review_late" /\ ReviewLate!Init
     /\ Rests("rev")

AgentsNext ==
  \/ /\ \/ subject = "keys" /\ Once!OnceNext
        \/ subject = "keys_resumed" /\ Resumed!OnceNext
     /\ Stay("keys")
  \/ subject = "client" /\ Client!Next /\ Stay("client")
  \/ /\ \/ subject = "events" /\ Events!Next
        \/ subject = "events_full" /\ Full!Next
     /\ Stay("buf")
  \/ subject = "stream" /\ Stream!Next /\ Stay("page")
  \/ /\ \/ subject = "agent" /\ Agent!Next
        \/ subject = "agent_out" /\ AgentOut!Next
     /\ Stay("process")
  \/ /\ \/ subject = "fake" /\ Fake!Next
        \/ subject = "fake_watched" /\ FakeWatched!Next
     /\ Stay("fake")
  \/ /\ \/ subject = "review" /\ Review!Next
        \/ subject = "review_late" /\ ReviewLate!Next
     /\ Stay("rev")

AgentsSpec == AgentsInit /\ [][AgentsNext]_vars

\* An effect happens at most once: an action under its key, however calls of two attempts race
\* and answers are lost (actions.once with claim_action), also against the development platform;
\* a request that is not idempotent, however it is retried (BrokerClient.request); a review of a
\* commit (the marker that the reviewer looks for before it posts).
AtMostOnce ==
  /\ subject = "keys" => Once!AtMostOnce
  /\ subject = "client" => Client!RunsAtMostOnce
  /\ subject = "review" => Review!NeverTwice
  /\ subject = "fake" => Fake!ClaimedOnce




\* The platform that agents are developed against keeps the contract of the real one: the same
\* states, attempts and answers (RunContract).
Promised == INSTANCE RunContract WITH MaxAttempt <- 2, Keys <- {"k1"},
  state <- IF subject = "fake" THEN fake_run.state ELSE "QUEUED",
  attempt <- IF subject = "fake" THEN fake_run.cur ELSE 1,
  answered <- IF subject = "fake" THEN {k \in {"k1"} : inp[k].st = "answered"} ELSE {}
RefinesContract == Promised!Spec

-----------------------------------------------------------------------------
(* Calls, schedules and the generated client. *)

EdgesInit ==
  \/ /\ \/ subject = "calls" /\ Phone!PhoneInit
        \/ subject = "calls_limit" /\ Limited!PhoneInit
     /\ Rests("tel")
  \/ subject = "voice_call" /\ Box!Init /\ Rests("vc")
  \/ /\ \/ subject = "session" /\ Session!Init
        \/ subject = "talk" /\ Talk!Init
        \/ subject = "session_errors" /\ Lossy!Init
     /\ Rests("vs")
  \/ /\ \/ subject = "caller" /\ Caller!Init
        \/ subject = "voice_caller" /\ VoiceCaller!Init
        \/ subject = "edited" /\ Edited!Init
     /\ Rests("camp")
  \/ /\ \/ subject = "sim" /\ Sim!Init
        \/ subject = "sim_errors" /\ SimErr!Init
     /\ Rests("fv")
  \/ /\ \/ subject = "sched_leaders" /\ Leaders!Init
        \/ subject = "sched_edits" /\ SchedEdits!Init
        \/ subject = "sched_misfires" /\ Misfires!Init
     /\ Rests("sch")
  \/ /\ \/ subject = "api" /\ Api!Init
        \/ subject = "api_errors" /\ ApiErrors!Init
     /\ Rests("api")

EdgesNext ==
  \/ /\ \/ subject = "calls" /\ Phone!PhoneNext
        \/ subject = "calls_limit" /\ Limited!PhoneNext
     /\ Stay("tel")
  \/ subject = "voice_call" /\ Box!Next /\ Stay("vc")
  \/ /\ \/ subject = "session" /\ Session!Next
        \/ subject = "talk" /\ Talk!Next
        \/ subject = "session_errors" /\ Lossy!Next
     /\ Stay("vs")
  \/ /\ \/ subject = "caller" /\ Caller!Next
        \/ subject = "voice_caller" /\ VoiceCaller!Next
        \/ subject = "edited" /\ Edited!Next
     /\ Stay("camp")
  \/ /\ \/ subject = "sim" /\ Sim!Next
        \/ subject = "sim_errors" /\ SimErr!Next
     /\ Stay("fv")
  \/ /\ \/ subject = "sched_leaders" /\ Leaders!Next
        \/ subject = "sched_edits" /\ SchedEdits!Next
        \/ subject = "sched_misfires" /\ Misfires!Next
     /\ Stay("sch")
  \/ /\ \/ subject = "api" /\ Api!Next
        \/ subject = "api_errors" /\ ApiErrors!Next
     /\ Stay("api")

EdgesSpec == EdgesInit /\ [][EdgesNext]_vars

\* Nobody's phone rings twice for one purpose: a key is dialled once though requests repeat and the
\* broker dies between its reservation and Twilio's answer, and no more calls are made than the
\* grant allows (Telephony); a number of a sheet is called once over all attempts of a run
\* (CallCampaign); the simulated provider dials a key once.
NeverRedials ==
  /\ subject = "calls_limit" => Limited!NeverRedials /\ Limited!WithinMaxCalls
  /\ subject = "caller" => Caller!NeverRedials
  /\ subject = "voice_caller" => VoiceCaller!NeverRedials
  /\ subject = "sim" => Sim!OneDial






-----------------------------------------------------------------------------
(* Progress.  Each property says that a condition never stays true: a call goes on, somebody
   waits, something is unsettled.  Since subject never changes, a statement about a disjunction
   over the components is the conjunction of the statements about each. *)

ProgressInit ==
  \/ subject = "residency" /\ Residency!MemInit /\ Rests("res")
  \/ subject = "store" /\ Store!StoreInit /\ Rests("store")
  \/ subject = "llm" /\ Llm!LlmInit /\ Rests("llm")
  \/ subject = "one_phone" /\ OnePhone!PhoneInit /\ Rests("tel")
  \/ subject = "one_box" /\ OneBox!Init /\ Rests("vc")
  \/ /\ \/ subject = "conversation" /\ Conversation!Init
        \/ subject = "silent" /\ Silent!Init
     /\ Rests("conv")
  \/ subject = "short_talk" /\ ShortTalk!Init /\ Rests("vs")
  \/ subject = "sim" /\ Sim!Init /\ Rests("fv")
  \/ /\ \/ subject = "chat" /\ Chat!ChatInit
        \/ subject = "chat_crash" /\ ChatCrash!ChatInit
     /\ Rests("chat")
  \/ subject = "sched" /\ Sched!Init /\ Rests("sch")
  \/ subject = "google" /\ Google!GoogleInit /\ Rests("google")
  \/ /\ \/ subject = "knowledge" /\ Know!KnowInit
        \/ subject = "purge" /\ Purge!KnowInit
     /\ Rests("know")
  \/ subject = "backups" /\ Backup!BackupInit /\ Rests("back")
  \/ subject = "client" /\ Client!Init /\ Rests("client")
  \/ subject = "few_events" /\ FewEvents!Init /\ Rests("buf")
  \/ subject = "page" /\ Page!Init /\ Rests("page")

ProgressNext ==
  \/ subject = "residency" /\ Residency!MemNext /\ Stay("res")
  \/ subject = "store" /\ Store!StoreNext /\ Stay("store")
  \/ subject = "llm" /\ Llm!LlmNext /\ Stay("llm")
  \/ subject = "one_phone" /\ OnePhone!PhoneNext /\ Stay("tel")
  \/ subject = "one_box" /\ OneBox!Next /\ Stay("vc")
  \/ /\ \/ subject = "conversation" /\ Conversation!Next
        \/ subject = "silent" /\ Silent!Next
     /\ Stay("conv")
  \/ subject = "short_talk" /\ ShortTalk!Next /\ Stay("vs")
  \/ subject = "sim" /\ Sim!Next /\ Stay("fv")
  \/ /\ \/ subject = "chat" /\ Chat!ChatNext
        \/ subject = "chat_crash" /\ ChatCrash!ChatNext
     /\ Stay("chat")
  \/ subject = "sched" /\ Sched!Next /\ Stay("sch")
  \/ subject = "google" /\ Google!GoogleNext /\ Stay("google")
  \/ /\ \/ subject = "knowledge" /\ Know!KnowNext
        \/ subject = "purge" /\ Purge!KnowNext
     /\ Stay("know")
  \/ subject = "backups" /\ Backup!BackupNext /\ Stay("back")
  \/ subject = "client" /\ Client!Next /\ Stay("client")
  \/ subject = "few_events" /\ FewEvents!Next /\ Stay("buf")
  \/ subject = "page" /\ Page!Next /\ Stay("page")

(* Fairness. *)

\* The gateway's loops go on, requests to model servers end, started releases commit and late
\* starts take effect or not.
ResidencyFair ==
  /\ WF_res(Is("residency") /\ Residency!WorkerNext) /\ WF_res(Is("residency") /\ Residency!LeaderNext)
  /\ WF_res(Is("residency") /\ Residency!WaitReady("h2"))
  /\ WF_res(Is("residency") /\ Residency!Served("h2"))
  /\ WF_res(Is("residency") /\ Residency!CommitRelease("h2"))
  /\ WF_res(Is("residency") /\ Residency!LateStart("m1"))

\* The daemon's threads run and the leader refreshes.
StoreFair ==
  /\ WF_store(Is("store") /\ Store!Download) /\ WF_store(Is("store") /\ Store!Cancelling)
  /\ WF_store(Is("store") /\ Store!Deleting) /\ WF_store(Is("store") /\ Store!refresh_installation)

\* Every await of a handler has a timeout, so a handler goes on.
LlmFair == \A r \in DOMAIN RetryReq : WF_llm(Is("llm") /\ Llm!LlmStep(r))

\* Requests and callbacks in hand go on.
PhoneFair ==
  /\ WF_tel(Is("one_phone") /\ OnePhone!RequestStep("r1"))
  /\ WF_tel(Is("one_phone") /\ OnePhone!HandlerStep("h1"))

\* The broker's handlers run; Twilio answers requests, stops ringing after its Timeout, ends the
\* call after its TimeLimit and delivers callbacks.
BoxFair ==
  /\ WF_vc(Is("one_box") /\ (OneBox!CreateStep("c1") \/ OneBox!Rings("c1")))
  /\ WF_vc(Is("one_box") /\ OneBox!EndPosted("c1")) /\ WF_vc(Is("one_box") /\ OneBox!StreamStep("c1"))
  /\ WF_vc(Is("one_box") /\ OneBox!HangsUp("c1")) /\ WF_vc(Is("one_box") /\ OneBox!Deliver("c1"))

\* The tasks of the event loop run; a transcription is answered or times out, and the speech model
\* comes to an end.
ConversationFair ==
  /\ WF_conv(Is("conversation") /\ Conversation!RunStep)
  /\ WF_conv(Is("conversation") /\ Conversation!AgentStep)
  /\ \A s \in Conversation!Speakers : WF_conv(Is("conversation") /\ Conversation!SpeechStep(s))
  /\ WF_conv(Is("silent") /\ Silent!RunStep) /\ WF_conv(Is("silent") /\ Silent!AgentStep)
  /\ \A s \in Silent!Speakers : WF_conv(Is("silent") /\ Silent!SpeechStep(s))

\* What the coroutine awaits ends in time: speech is played out, waits have a timeout, and the time
\* limit passes.
SessionFair ==
  /\ WF_vs(Is("short_talk") /\ ShortTalk!Steps) /\ WF_vs(Is("short_talk") /\ ShortTalk!WrapUp)
  /\ WF_vs(Is("short_talk") /\ ShortTalk!TimeLimit)

\* The requests to LiveKit return; what a task of the leg waits for has a timeout, but for the
\* trunk, whose answer may never come; the limits pass.
SimFair ==
  /\ \A r \in {1, 2} : WF_fv(Is("sim") /\ (Sim!dial(r) \/ Sim!DialFails(r)))
  /\ WF_fv(Is("sim") /\ media # "sip" /\ Sim!Leg) /\ WF_fv(Is("sim") /\ Sim!RingLimit)
  /\ WF_fv(Is("sim") /\ Sim!_enforce_limits)

\* Handlers go on: their calls time out.  The gateway's reaper comes round.
Sends(m) == \/ Chat!retrieve(m) \/ Chat!commit(m) \/ Chat!stream(m) \/ Chat!answer_locally(m)
            \/ Chat!chat_stream(m) \/ Chat!Ended(m)
ChatFair ==
  /\ WF_chat(Is("chat") /\ Chat!Expire) /\ WF_chat(Is("chat_crash") /\ ChatCrash!Expire)
  /\ \A t \in {"t1", "t2"} : /\ WF_chat(Is("chat") /\ Chat!gateway_call(t))
                             /\ WF_chat(Is("chat") /\ Chat!chat_finish(t))
                             /\ WF_chat(Is("chat_crash") /\ ChatCrash!gateway_call(t))
                             /\ WF_chat(Is("chat_crash") /\ ChatCrash!chat_finish(t))
  /\ WF_chat(Is("chat") /\ Sends("m1"))

\* A leader goes on and the lock is taken when it is free; faults are bounded.
SchedFair == WF_sch(Is("sched") /\ Sched!Lead("p"))

\* Every request to Google has a timeout, so a call that has begun goes on.
GoogleFair == \A u \in {"u1", "u2"} : WF_google(Is("google") /\ Google!Begun(u) /\ Google!UserStep(u))

\* The worker's loop goes on, crashes end, the reaper comes by and uploads come to an end.
KnowFair ==
  /\ WF_know(Is("knowledge") /\ Know!KnowWork) /\ <>[][~(Is("knowledge") /\ Know!KnowCrash)]_know
  /\ WF_know(Is("knowledge") /\ \E k \in Know!KnowKeys : Know!reap(k))
  /\ WF_know(Is("knowledge") /\ Know!upload("d1"))
  /\ WF_know(Is("purge") /\ Purge!KnowWork) /\ WF_know(Is("purge") /\ Purge!upload("d1"))
  /\ WF_know(Is("purge") /\ \E k \in Purge!KnowKeys : Purge!reap(k))

\* The worker polls, the thread goes on, leases are reaped by the scheduler.
BackupFair ==
  \A n \in 1..2 : /\ WF_back(Is("backups") /\ Backup!backup_claim(n)) /\ WF_back(Is("backups") /\ Backup!Write(n))
                  /\ WF_back(Is("backups") /\ Backup!backup_reap(n))

\* A call of the SDK goes on: every attempt has a timeout.
BrokerFair == WF_client(Is("client") /\ Client!request)

\* The flusher goes on, and outages end.
EventsFair ==
  /\ WF_buf(Is("few_events") /\ FewEvents!FlushStep)
  /\ <>[][~(Is("few_events") /\ FewEvents!Deferred)]_buf

\* The page and the server go on, the stream stops breaking, and polls are answered in the end.
PageFair ==
  /\ WF_page(Is("page") /\ Page!PageStep) /\ WF_page(Is("page") /\ Page!ReadState)
  /\ WF_page(Is("page") /\ Page!_event_stream) /\ WF_page(Is("page") /\ Page!stream_run_events)
  /\ WF_page(Is("page") /\ Page!tick) /\ <>[][~(Is("page") /\ Page!onerror)]_page

\* What happens again and again until it succeeds.  Only one component moves, so their conditions
\* are stated together.  The gateway: grace periods end, leases nobody renews are reaped.  The
\* daemon: a download has finitely many chunks, its state is read.  Twilio delivers what it sent.
\* The knowledge worker comes to each job.
Often1 ==
  \/ Is("residency") /\ Residency!RecoverLoad("m1") /\ leader'.pc # "stuck" /\ UNCHANGED <<store, tel, know>>
  \/ Is("store") /\ Store!Fetch /\ thread'.pc # "progress" /\ UNCHANGED <<res, tel, know>>
  \/ Is("one_phone") /\ OnePhone!Receive("h1") /\ posted' # posted /\ UNCHANGED <<res, store, know>>
  \/ Is("knowledge") /\ Know!claim(<<"ingest", "d1">>) /\ UNCHANGED <<res, store, tel>>
  \/ Is("purge") /\ Purge!claim(<<"purge", Purge!KB>>) /\ UNCHANGED <<res, store, tel>>
Often2 ==
  \/ Is("residency") /\ Residency!ReapAllStale /\ UNCHANGED <<store, tel, know>>
  \/ Is("store") /\ Store!ReadState /\ UNCHANGED <<res, tel, know>>

Persistent == <<res, store, tel, know>>
StrongFair == SF_Persistent(Often1) /\ SF_Persistent(Often2)

ProgressSpec == ProgressInit /\ [][ProgressNext]_vars /\
  ResidencyFair /\ StoreFair /\ LlmFair /\ PhoneFair /\ BoxFair /\
  ConversationFair /\ SessionFair /\ SimFair /\ ChatFair /\ SchedFair /\ GoogleFair /\ KnowFair /\
  BackupFair /\ BrokerFair /\ EventsFair /\ PageFair /\ StrongFair

-----------------------------------------------------------------------------
\* Every call comes to an end: of the broker's telephony, on the appliance ("a call ends when the
\* caller hangs up, the owner presses Hang up"), of a voice agent, of the simulated provider, and
\* the SDK's call of the broker in an outage that never ends.
CallGoesOn ==
  \/ Is("one_phone") /\ OnePhone!Unreported("k1")
  \/ Is("one_box") /\ OneBox!Active("c1")
  \/ Is("conversation") /\ Conversation!Ending
  \/ Is("silent") /\ Silent!Ending
  \/ Is("short_talk") /\ ShortTalk!GoesOn
  \/ Is("sim") /\ Sim!GoesOn
  \/ Is("client") /\ Client!GoesOn
CallsEnd == []<>~CallGoesOn

\* Whoever waits is answered: a caller for a model that loads or drains, a request for the outcome
\* of another with its key, a caller's turn in a conversation, a Google call, the reader of a reply.
Waits(i) ==
  \/ Is("llm") /\ Llm!Waits(<<"a", "a2", "z">>[i])
  \/ i < 3 /\ Is("google") /\ Google!Begun(<<"u1", "u2">>[i])
  \/ i = 1 /\ Is("residency") /\ Residency!Waiting("h2")
  \/ i = 1 /\ Is("conversation") /\ Conversation!TurnWaits
  \/ i = 1 /\ Is("chat") /\ Chat!Streaming("m1")
WaitersAnswered == \A i \in 1..3 : []<>~Waits(i)

\* Work that was begun settles, whatever dies or fails: loads, drains and orphaned servers of
\* models; downloads as the owner sees them; leases of disabled chats; schedules that are due;
\* documents and the bytes of deleted ones; requested backups; emitted events; the outcome shown.
Unsettled(i) ==
  \/ i = 1 /\ Is("residency") /\ Residency!InTransit("m1")
  \/ i = 2 /\ Is("residency") /\ Residency!Orphan("m1")
  \/ i = 1 /\ Is("store") /\ Store!MirrorStale
  \/ i = 1 /\ Is("chat_crash") /\ ChatCrash!LeaseLeft
  \/ i < 3 /\ Is("sched") /\ Sched!IsDue(<<"s", "t">>[i])
  \/ i = 1 /\ Is("knowledge") /\ Know!Unsettled("d1")
  \/ i = 1 /\ Is("purge") /\ Purge!BytesLeft
  \/ i < 3 /\ Is("backups") /\ Backup!Requested(i)
  \/ Is("few_events") /\ FewEvents!Undelivered(i)
  \/ i = 1 /\ Is("page") /\ Page!OutcomeHidden
=============================================================================
