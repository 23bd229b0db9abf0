------------------------------ MODULE PrReviewer ------------------------------
(***************************************************************************)
(* Runs of the pull request reviewer on one pull request that its author   *)
(* may push to.  A run lists the pulls, looks for its marker in the        *)
(* reviews, fetches the files, asks the model and posts one review.        *)
(* GitHub is external.  A request to post may be refused or fail with its  *)
(* outcome unknown, and then may still arrive.                             *)
(***************************************************************************)
EXTENDS Integers, Sequences, FiniteSets

CONSTANTS Runs,      \* the runs and retried attempts, in the order they begin
          Overlap,   \* whether one begins before the one before it has ended
          Late,      \* whether a request with unknown outcome may arrive later
          MaxPush    \* bound: pushes

VARIABLES head,     \* the latest commit
          reviews,  \* the reviews posted: [marker, of, by]
          late,     \* requests to post that are still on their way
          pc,       \* per run: idle, check, files, ask, post, done
          sha,      \* per run: head_sha as listed
          of,       \* per run: the commit whose files it fetched
          found,    \* per run: whether it has findings
          told      \* per run: status in its result

vars == <<head, reviews, late, pc, sha, of, found, told>>

Init ==
  /\ head = 1 /\ reviews = <<>> /\ late = {}
  /\ pc = [r \in Runs |-> "idle"] /\ sha = [r \in Runs |-> 0] /\ of = [r \in Runs |-> 0]
  /\ found = [r \in Runs |-> FALSE] /\ told = [r \in Runs |-> "none"]

Go(r, place) == pc' = [pc EXCEPT ![r] = place]
Tell(r, status) == told' = [told EXCEPT ![r] = status]

(* list_pulls, with the commit at the head of each. *)
List(r) ==
  /\ pc[r] = "idle" /\ \A q \in 1..(r - 1) : pc[q] # "idle" /\ (pc[q] = "done" \/ Overlap)
  /\ sha' = [sha EXCEPT ![r] = head] /\ Go(r, "check")
  /\ UNCHANGED <<head, reviews, late, of, found, told>>

(* The body of an earlier review holds the marker of this commit. *)
Marked_AnyCommit(r) == reviews # <<>>

Marked(r) == \E i \in DOMAIN reviews : reviews[i].marker = sha[r]

_already_reviewed(r) ==
  /\ pc[r] = "check"
  /\ IF Marked(r) THEN Go(r, "done") /\ Tell(r, "skipped") ELSE Go(r, "files") /\ UNCHANGED told
  /\ UNCHANGED <<head, reviews, late, sha, of, found>>

(* list_files answers for the head of now. *)
ListFiles(r) ==
  /\ pc[r] = "files" /\ of' = [of EXCEPT ![r] = head] /\ Go(r, "ask")
  /\ UNCHANGED <<head, reviews, late, sha, found, told>>

(* The model's answers, vetted; without findings nothing is posted. *)
Ask(r, some) ==
  /\ pc[r] = "ask" /\ found' = [found EXCEPT ![r] = some] /\ Go(r, IF some THEN "post" ELSE "done")
  /\ IF some THEN UNCHANGED told ELSE Tell(r, "nothing found")
  /\ UNCHANGED <<head, reviews, late, sha, of>>

Review(r) == [marker |-> sha[r], of |-> of[r], by |-> r]

(* Posted, with inline comments or, after those were refused, in the text. *)
Post(r) ==
  /\ pc[r] = "post" /\ reviews' = Append(reviews, Review(r)) /\ Go(r, "done") /\ Tell(r, "posted")
  /\ UNCHANGED <<head, late, sha, of, found>>

(* OutcomeUnknown: it arrived, it never will, or it arrives later; not retried. *)
PostUnknown_Retried(r) ==
  /\ pc[r] = "post" /\ Cardinality(DOMAIN reviews) < 3
  /\ reviews' \in {reviews, Append(reviews, Review(r))} /\ UNCHANGED late
  /\ Tell(r, "unknown")
  /\ UNCHANGED <<head, pc, sha, of, found>>

PostUnknown(r) ==
  /\ pc[r] = "post" /\ Go(r, "done") /\ Tell(r, "unknown")
  /\ \/ reviews' \in {reviews, Append(reviews, Review(r))} /\ UNCHANGED late
     \/ Late /\ late' = late \cup {Review(r)} /\ UNCHANGED reviews
  /\ UNCHANGED <<head, sha, of, found>>

(* Another error skips the pull request, or ends the run. *)
Fails(r) ==
  /\ pc[r] \in {"check", "files", "ask", "post"} /\ Go(r, "done") /\ Tell(r, "skipped with error")
  /\ UNCHANGED <<head, reviews, late, sha, of, found>>

(* The process dies; a retry is the next of Runs. *)
Dies(r) ==
  /\ pc[r] \notin {"idle", "done"} /\ Go(r, "done") /\ Tell(r, "none")
  /\ UNCHANGED <<head, reviews, late, sha, of, found>>

Arrives ==
  \E v \in late :
    /\ late' = late \ {v} /\ reviews' = Append(reviews, v)
    /\ UNCHANGED <<head, pc, sha, of, found, told>>

Push ==
  /\ head <= MaxPush /\ head' = head + 1
  /\ UNCHANGED <<reviews, late, pc, sha, of, found, told>>

Next ==
  \/ Arrives \/ Push
  \/ \E r \in Runs : \/ List(r) \/ _already_reviewed(r) \/ ListFiles(r)
                     \/ Post(r) \/ PostUnknown(r) \/ Fails(r) \/ Dies(r)
                     \/ \E some \in BOOLEAN : Ask(r, some)

Spec == Init /\ [][Next]_vars

-----------------------------------------------------------------------------
(* A commit has one review at most, whichever run died or whatever answer was
   lost: the next run finds the marker. *)
NeverTwice ==
  \A i, j \in DOMAIN reviews : reviews[i].marker = reviews[j].marker => i = j

(* A run that skips the pull request as reviewed, or says that it posted, is right: the
   marker of the commit it listed is on the pull request. *)
SaysWhatIsThere ==
  \A r \in Runs : told[r] \in {"skipped", "posted"} => \E i \in DOMAIN reviews : reviews[i].marker = sha[r]
=============================================================================
