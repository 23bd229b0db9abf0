----------------------------- MODULE CallCampaign -----------------------------
(***************************************************************************)
(* The two agents that telephone the contacts of a sheet: the fixed-script *)
(* caller and the voice agent.  Both read the sheet, ask the owner to      *)
(* approve the list, and then place one call for each row under an action  *)
(* key, which a later attempt of the same run finds again.  The process    *)
(* may die anywhere and the owner may retry; an answer of the platform may *)
(* be lost.  The owner may edit the sheet meanwhile.                       *)
(***************************************************************************)
EXTENDS Integers, Sequences, FiniteSets, SequencesExt

CONSTANTS Voice,       \* TRUE: the voice agent; FALSE: the fixed-script caller
          Sheets,      \* what the sheet may hold: sequences of cells
          Edits,       \* whether the owner may edit it during the run
          MaxCalls,    \* maxCalls in the agent's configuration
          MaxAttempt   \* bound: attempts of the run

Rows == 1..3
None == [state |-> "none"]

VARIABLES sheet,    \* the owner's sheet
          attempt,  \* the run's attempt
          pc,       \* where the agent is
          plan,     \* the eligible contacts it read
          at,       \* the contact it is at
          call,     \* the call it holds for that contact, 0 for none
          asked,    \* per approval key: the question, what it showed and its answer
          action,   \* per row: the action key
          calls,    \* the broker's calls of this run
          out       \* per row: the result row written last

vars == <<sheet, attempt, pc, plan, at, call, asked, action, calls, out>>

-----------------------------------------------------------------------------
(* Reading and sorting the rows.  A cell record holds what the rules tell apart:
   fit is "blank" for an empty row, "ok" or the reason the row is skipped. *)

read_rows(values) ==
  SelectSeq([i \in DOMAIN values |-> [row |-> i, name |-> values[i].name, phone |-> values[i].phone,
                                      fit |-> values[i].fit]],
            LAMBDA c : c.fit # "blank")

_skip_NoSeen(c, eligible) == c.fit # "ok" \/ Len(eligible) >= MaxCalls

_skip_reason(c, eligible) ==
  \/ c.fit # "ok"
  \/ \E i \in DOMAIN eligible : eligible[i].phone = c.phone
  \/ Len(eligible) >= MaxCalls

classify(contacts) ==
  FoldLeft(LAMBDA e, c : IF _skip_reason(c, e) THEN e ELSE Append(e, c), <<>>, contacts)


approval_key(p) == {<<p[i].row, p[i].phone>> : i \in DOMAIN p}

(* The table of the approval card. *)
Shown(p) == {<<p[i].row, p[i].name, p[i].phone>> : i \in DOMAIN p}

-----------------------------------------------------------------------------
Keys == UNION {{approval_key(classify(read_rows(s)))} : s \in Sheets}

Init ==
  /\ sheet \in Sheets /\ attempt = 1 /\ pc = "read" /\ plan = <<>> /\ at = 0 /\ call = 0
  /\ asked = [k \in Keys |-> [state |-> "none", shown |-> {}]]
  /\ action = [r \in Rows |-> None] /\ calls = <<>> /\ out = [r \in Rows |-> None]

Contact == plan[at]
Go(place) == pc' = place

(* The sheet is read once, and the contacts are sorted. *)
Read ==
  /\ pc = "read" /\ plan' = classify(read_rows(sheet)) /\ at' = 1
  /\ Go(IF plan' = <<>> THEN "done" ELSE "ask")
  /\ UNCHANGED <<sheet, attempt, call, asked, action, calls, out>>

(* ask: a stored answer is returned as it is, a question an earlier attempt left
   closed is opened again with what is shown now. *)
Ask ==
  /\ pc = "ask"
  /\ LET k == approval_key(plan) IN
       /\ Go(CASE asked[k].state = "approve" -> "call"
               [] asked[k].state = "cancel" -> "done"
               [] OTHER -> "asked")
       /\ asked' = IF asked[k].state = "none"
                   THEN [asked EXCEPT ![k] = [state |-> "pending", shown |-> Shown(plan)]] ELSE asked
  /\ UNCHANGED <<sheet, attempt, plan, at, call, action, calls, out>>

(* The owner answers what the card shows. *)
Answer(value) ==
  /\ pc = "asked" /\ Go(IF value = "approve" THEN "call" ELSE "done")
  /\ asked' = [asked EXCEPT ![approval_key(plan)].state = value]
  /\ UNCHANGED <<sheet, attempt, plan, at, call, action, calls, out>>

-----------------------------------------------------------------------------
(* once(key, create).  An error of the platform makes the row a failure. *)

(* The caller resumes a claim in doubt; the voice agent does not. *)
Claimed(state) ==
  CASE state = "none" -> "create"
    [] state = "claimed" -> IF Voice THEN "write" ELSE "create"
    [] state = "completed" -> "stored"

Claim ==
  /\ pc = "call"
  /\ LET a == action[Contact.row] IN
       /\ action' = IF a.state = "none" THEN [action EXCEPT ![Contact.row] = [state |-> "claimed"]] ELSE action
       /\ Go(Claimed(a.state))
       /\ call' = IF a.state = "completed" THEN a.call ELSE 0
  /\ UNCHANGED <<sheet, attempt, plan, at, asked, calls, out>>

(* The calls the broker knows under the key that names run and row. *)
_by_key_Forgets(r) == {}

_by_key_RunOnly(r) == DOMAIN calls

_by_key(r) == {i \in DOMAIN calls : calls[i].row = r}

(* create_call and dial in the broker.  A new call is placed, or it is refused, or
   (Twilio) nobody knows. *)
Create ==
  /\ pc = "create"
  /\ IF _by_key(Contact.row) # {}
     THEN LET i == CHOOSE i \in _by_key(Contact.row) : TRUE IN
            /\ UNCHANGED calls
            /\ IF calls[i].state = "in_doubt" THEN Go("write") /\ call' = 0
                                              ELSE Go("complete") /\ call' = i
     ELSE IF ~Voice /\ Len(calls) >= MaxCalls
     THEN UNCHANGED calls /\ Go("write") /\ call' = 0
     ELSE \E state \in {"live", "failed", "in_doubt"}, rang \in BOOLEAN :
            /\ state = "live" => rang
            /\ state = "failed" => ~rang
            /\ Voice => state # "in_doubt"
            /\ calls' = Append(calls, [row |-> Contact.row, name |-> Contact.name,
                                       phone |-> Contact.phone, state |-> state, rang |-> rang,
                                       attempt |-> attempt])
            /\ IF state = "in_doubt" \/ (Voice /\ state = "failed")
               THEN Go("write") /\ call' = 0
               ELSE Go("complete") /\ call' = Len(calls) + 1
  /\ UNCHANGED <<sheet, attempt, plan, at, asked, action, out>>

Complete ==
  /\ pc = "complete" /\ Go("talk")
  /\ action' = [action EXCEPT ![Contact.row] = [state |-> "completed", call |-> call]]
  /\ UNCHANGED <<sheet, attempt, plan, at, call, asked, calls, out>>

(* The answer to a claim, a create or a complete is lost for good, and once raises;
   for the caller also an error while it waits for the call. *)
Lost ==
  /\ pc \in {"create", "complete", "talk", "stored"} /\ Go("write") /\ call' = 0
  /\ UNCHANGED <<sheet, attempt, plan, at, asked, action, calls, out>>

Ended(i) == [calls EXCEPT ![i].state = IF @ = "live" THEN "ended" ELSE @]

(* wait_for_call returns at the end of the call or at the timeout; run_call of the
   voice agent hangs up, and a hang-up that fails is only logged. *)
Talk ==
  /\ pc = "talk" /\ Go("write")
  /\ calls' \in (IF Voice THEN {calls, Ended(call)} ELSE {calls})
  /\ UNCHANGED <<sheet, attempt, plan, at, call, asked, action, out>>

(* The key of an earlier attempt: the caller waits for that call, the voice agent
   hangs it up. *)
Stored_LetsItRing ==
  /\ pc = "stored" /\ Go("write")
  /\ UNCHANGED <<sheet, attempt, plan, at, call, asked, action, calls, out>>

Stored ==
  /\ pc = "stored" /\ Go("write") /\ calls' = IF Voice THEN Ended(call) ELSE calls
  /\ UNCHANGED <<sheet, attempt, plan, at, call, asked, action, out>>

(* The result row, in the sheet and in the result of the run. *)
row_values(c) == [state |-> "written", phone |-> c.phone, call |-> call, attempt |-> attempt]

(* On to the next contact, or the run returns its result. *)
Advance ==
  /\ at' = IF at < Len(plan) THEN at + 1 ELSE at
  /\ Go(IF at < Len(plan) THEN "call" ELSE "done") /\ call' = 0

Write ==
  /\ pc = "write" /\ out' = [out EXCEPT ![Contact.row] = row_values(Contact)] /\ Advance
  /\ UNCHANGED <<sheet, attempt, plan, asked, action, calls>>

-----------------------------------------------------------------------------
(* The process dies, or an error nobody catches ends the attempt: its open
   question is closed with it. *)
Die ==
  /\ pc \notin {"done", "dead"} /\ Go("dead") /\ call' = 0 /\ at' = 0 /\ plan' = <<>>
  /\ asked' = [k \in Keys |-> IF asked[k].state = "pending" THEN [state |-> "none", shown |-> {}] ELSE asked[k]]
  /\ UNCHANGED <<sheet, attempt, action, calls, out>>

Retry ==
  /\ pc = "dead" /\ attempt < MaxAttempt /\ attempt' = attempt + 1 /\ Go("read")
  /\ UNCHANGED <<sheet, plan, at, call, asked, action, calls, out>>

(* The call ends by itself. *)
CallEnds(i) ==
  /\ calls[i].state = "live" /\ calls' = Ended(i)
  /\ UNCHANGED <<sheet, attempt, pc, plan, at, call, asked, action, out>>

Edit ==
  /\ Edits /\ pc = "dead" /\ sheet' \in Sheets
  /\ UNCHANGED <<attempt, pc, plan, at, call, asked, action, calls, out>>

Next ==
  \/ Read \/ Ask \/ Claim \/ Create \/ Complete \/ Lost \/ Talk \/ Stored \/ Write
  \/ Die \/ Retry \/ Edit
  \/ \E value \in {"approve", "cancel"} : Answer(value)
  \/ \E i \in DOMAIN calls : CallEnds(i)

Spec == Init /\ [][Next]_vars

-----------------------------------------------------------------------------
(* No number rings twice in a run, whatever died or was lost in between: the
   broker's key and the action key of the row see to it. *)
NeverRedials ==
  \A i, j \in DOMAIN calls :
    calls[i].rang /\ calls[j].rang /\ calls[i].phone = calls[j].phone => i = j


(* The call that the result row of a contact names was a call to that contact. *)
ResultOfRecipient ==
  \A r \in Rows : out[r].state = "written" /\ out[r].call # 0 => calls[out[r].call].phone = out[r].phone

(* A row that names a call of an earlier attempt is written after that call was
   ended (_call_one of the voice agent): nobody would talk to the callee. *)
EarlierCallsEnd ==
  \A r \in Rows :
    LET o == out[r] IN
      Voice /\ o.state = "written" /\ o.call # 0 =>
        calls[o.call].attempt = o.attempt \/ calls[o.call].state # "live"
=============================================================================
