--------------------------- MODULE PaymentNotices ---------------------------
(***************************************************************************)
(* What becomes of a payment, announced through the job queue.             *)
(*                                                                         *)
(* A verdict commits, and only then does its handler read the facts of the *)
(* notice and add a job, whose id is the idempotency key: an id the queue  *)
(* still has is not added again.  A worker writes the inbox rows and mails *)
(* one recipient after the other; a mail that fails ends the run, and the  *)
(* queue retries the whole job.  Handlers die before they announce, Redis  *)
(* refuses a job, workers die or freeze in the middle of a run.            *)
(*                                                                         *)
(* The read of the facts and the addition of the job are one step: nothing *)
(* either of them depends on can come between them but the addition of     *)
(* another notice, which may as well come before both.                     *)
(***************************************************************************)
EXTENDS Integers

CONSTANTS
  Members,       \* the candidates of the payment's group
  Reviewers,     \* the admins of the institution
  LastAttempt,   \* bound: resubmissions of the proof
  JobAttempts,   \* ASYNC_JOB_DEFAULT_OPTIONS.attempts
  MaxStalled,    \* the queue's maxStalledCount
  Followed       \* bound: the jobs that workers take

Verdicts == {"verified", "rejected", "voided", "expired"}

Kinds == Verdicts \cup {"submitted"}

Attempts == 0..LastAttempt

Keys == Kinds \X Attempts

ASSUME BoundsAssumption ==
  /\ LastAttempt \in Nat
  /\ JobAttempts \in Nat \ {0}
  /\ MaxStalled \in Nat
  /\ Followed \subseteq Keys

VARIABLES
  proof,    \* the row in finance_manual_payment_proofs: status, attempt, barred
  lapsed,   \* whether the payment has expired
  note,     \* per decision, by kind and attempt: where its notice is
  jobs      \* per job id: the job the queue has, or none

vars == <<proof, lapsed, note, jobs>>

-----------------------------------------------------------------------------
(* Decisions                                                               *)

Undecided == [at |-> "none", as |-> <<"none", 0>>]

\* The handler of this decision goes on to announce it.
Announce(kind, attempt) ==
  note' = [note EXCEPT ![<<kind, attempt>>].at = "due"]

\* requireOpenManualLane.
LaneOpen == ~lapsed /\ proof.status # "verified"

Init ==
  /\ proof = [status |-> "absent", attempt |-> 0, barred |-> FALSE]
  /\ lapsed = FALSE
  /\ note = [k \in Keys |-> Undecided]
  /\ jobs = [k \in Keys |-> [state |-> "absent", made |-> 0, stalls |-> 0,
                             todo |-> {}, posted |-> {}, mailed |-> {}, reports |-> 0]]

Submit ==
  /\ proof.status = "absent"
  /\ LaneOpen
  /\ proof' = [proof EXCEPT !.status = "pending"]
  /\ Announce("submitted", 0)
  /\ UNCHANGED <<lapsed, jobs>>

\* An organiser's bar holds for their own rejection, and not for a void.
Reopen ==
  LET next == proof.attempt + 1 IN
  /\ \/ proof.status = "rejected" /\ ~proof.barred
     \/ proof.status = "voided"
  /\ LaneOpen
  /\ next \in Attempts
  /\ proof' = [proof EXCEPT !.status = "pending", !.attempt = next]
  /\ Announce("submitted", next)
  /\ UNCHANGED <<lapsed, jobs>>

Verify ==
  /\ proof.status = "pending"
  /\ LaneOpen
  /\ proof' = [proof EXCEPT !.status = "verified"]
  /\ Announce("verified", proof.attempt)
  /\ UNCHANGED <<lapsed, jobs>>

Reject(bar) ==
  /\ proof.status = "pending"
  /\ proof' = [proof EXCEPT !.status = "rejected", !.barred = bar]
  /\ Announce("rejected", proof.attempt)
  /\ UNCHANGED <<lapsed, jobs>>

\* Voiding a rejected proof takes the next attempt number.
Void ==
  LET attempt == proof.attempt + (IF proof.status = "rejected" THEN 1 ELSE 0) IN
  /\ proof.status \in {"pending", "rejected"}
  /\ attempt \in Attempts
  /\ proof' = [proof EXCEPT !.status = "voided", !.attempt = attempt]
  /\ Announce("voided", attempt)
  /\ UNCHANGED <<lapsed, jobs>>

\* isExpirySuspendedByPendingProof and the fold, under the anchor's lock.
Expirable == ~lapsed /\ proof.status \notin {"pending", "verified"}

\* Mutant of Expire: the sweep announces the payments it declines to expire.
ExpireOrNot ==
  /\ lapsed' = (lapsed \/ Expirable)
  /\ Announce("expired", proof.attempt)
  /\ UNCHANGED <<proof, jobs>>

\* Once due, which may be at any time.
Expire ==
  /\ Expirable
  /\ lapsed' = TRUE
  /\ Announce("expired", proof.attempt)
  /\ UNCHANGED <<proof, jobs>>

-----------------------------------------------------------------------------
(* Announcing them                                                         *)

\* Mutant of JobOf: the key leaves the attempt out.
JobOfOutcome(k) == <<k[1], 0>>

\* A submission's notice carries its own row's attempt.  An outcome's notice
\* carries the attempt the proof is on when the facts are read.
JobOf(k) == IF k[1] = "submitted" THEN k ELSE <<k[1], proof.attempt>>

Queued == [state |-> "waiting", made |-> 0, stalls |-> 0,
           todo |-> {}, posted |-> {}, mailed |-> {}, reports |-> 0]

\* An id that the queue has is not added again.
Enqueue(k) ==
  LET j == JobOf(k) IN
  /\ note[k].at = "due"
  /\ IF jobs[j].state = "absent"
     THEN /\ jobs' = [jobs EXCEPT ![j] = Queued]
          /\ note' = [note EXCEPT ![k] = [at |-> "queued", as |-> j]]
     ELSE /\ note' = [note EXCEPT ![k] = [at |-> "dropped", as |-> j]]
          /\ UNCHANGED jobs
  /\ UNCHANGED <<proof, lapsed>>

\* The process dies, or the helper swallows its own failure.
Unannounced(k) ==
  /\ note[k].at = "due"
  /\ note' = [note EXCEPT ![k].at = "lost"]
  /\ UNCHANGED <<proof, lapsed, jobs>>

-----------------------------------------------------------------------------
(* Delivering them                                                         *)

Recipients(j) == IF j[1] = "submitted" THEN Reviewers ELSE Members

\* resolveRetryPending, and the queue's own count of the same attempts.
RetryPending(made) == made < JobAttempts

\* The worker's failed handler: a failure that will be retried is reported at
\* the first attempt if it is permanent, and any failure when it is the last.
Captured(made, permanent) ==
  IF RetryPending(made) /\ ~(permanent /\ made <= 1) THEN 0 ELSE 1

Keep(j, job) == jobs' = [jobs EXCEPT ![j] = job] /\ UNCHANGED <<proof, lapsed, note>>

\* A run starts with the inbox, where a row that cannot be written is swallowed.
Take(j) ==
  /\ j \in Followed
  /\ jobs[j].state = "waiting"
  /\ \E written \in SUBSET Recipients(j) :
       Keep(j, [jobs[j] EXCEPT !.state = "active", !.todo = Recipients(j),
                               !.posted = @ \cup written])

Mail(j, r) ==
  /\ jobs[j].state = "active"
  /\ r \in jobs[j].todo
  /\ Keep(j, [jobs[j] EXCEPT !.todo = @ \ {r}, !.mailed = @ \cup {r}])

\* Mutant of MailFails: the failure is swallowed like the inbox's.
MailFailsSafely(j, r, permanent) ==
  /\ jobs[j].state = "active"
  /\ r \in jobs[j].todo
  /\ Keep(j, [jobs[j] EXCEPT !.todo = @ \ {r}])

\* Mutant of MailFails: a retried attempt is not counted.
MailFailsUncounted(j, r, permanent) ==
  /\ jobs[j].state = "active"
  /\ r \in jobs[j].todo
  /\ Keep(j, [jobs[j] EXCEPT !.state = "waiting", !.todo = {}])

\* The failure ends the run for everyone who has not been mailed in it.
MailFails(j, r, permanent) ==
  LET made == jobs[j].made + 1 IN
  /\ jobs[j].state = "active"
  /\ r \in jobs[j].todo
  /\ Keep(j, [jobs[j] EXCEPT
       !.state = IF RetryPending(made) THEN "waiting" ELSE "failed",
       !.made = made, !.todo = {},
       !.reports = @ + Captured(made, permanent)])

Complete(j) ==
  /\ jobs[j].state = "active"
  /\ jobs[j].todo = {}
  /\ Keep(j, [jobs[j] EXCEPT !.state = "completed"])

\* The worker has stopped renewing its lock.  Beyond maxStalledCount the job
\* fails for good, however many attempts it has left.
Stall(j) ==
  /\ jobs[j].state = "active"
  /\ IF jobs[j].stalls < MaxStalled
     THEN Keep(j, [jobs[j] EXCEPT !.state = "waiting", !.stalls = @ + 1, !.todo = {}])
     ELSE Keep(j, [jobs[j] EXCEPT !.state = "failed", !.made = @ + 1, !.todo = {},
                                  !.reports = @ + Captured(jobs[j].made + 1, FALSE)])

\* removeOnComplete and removeOnFail.
Forget(j) ==
  /\ jobs[j].state \in {"completed", "failed"}
  /\ Keep(j, [Queued EXCEPT !.state = "absent"])

-----------------------------------------------------------------------------

Decide ==
  \/ Submit
  \/ Reopen
  \/ Verify
  \/ \E bar \in BOOLEAN : Reject(bar)
  \/ Void
  \/ Expire

Work(j) ==
  \/ Take(j)
  \/ \E r \in Recipients(j) : Mail(j, r) \/ \E p \in BOOLEAN : MailFails(j, r, p)
  \/ Complete(j)

Next ==
  \/ Decide
  \/ \E k \in Keys : Enqueue(k) \/ Unannounced(k)
  \/ \E j \in Keys : Work(j) \/ Stall(j) \/ Forget(j)

Spec == Init /\ [][Next]_vars

\* A worker runs, and a run comes to an end.
FairSpec == Spec /\ \A j \in Keys : WF_vars(Work(j))

-----------------------------------------------------------------------------
(* Properties                                                              *)

JobType ==
  [state : {"absent", "waiting", "active", "completed", "failed"},
   made : 0..JobAttempts, stalls : 0..MaxStalled, todo : SUBSET (Members \cup Reviewers),
   posted : SUBSET (Members \cup Reviewers), mailed : SUBSET (Members \cup Reviewers),
   reports : 0..2]

\* Every variable keeps its type, and a job makes the attempts it was given.
TypeOK ==
  /\ proof \in [status : {"absent", "pending", "rejected", "voided", "verified"},
                attempt : Attempts, barred : BOOLEAN]
  /\ lapsed \in BOOLEAN
  /\ note \in [Keys -> [at : {"none", "due", "queued", "dropped", "lost"},
                        as : Keys \cup {<<"none", 0>>}]]
  /\ jobs \in [Keys -> JobType]

Announced(kind) == \E n \in Attempts : jobs[<<kind, n>>].state # "absent"

\* Nobody is told of an outcome the payment does not have: a verification is
\* announced only of a verified proof and an expiry only of a lapsed payment,
\* never both, although each is announced long after it was decided.
NoticesAreTrue ==
  /\ Announced("verified") => proof.status = "verified" /\ ~lapsed
  /\ Announced("expired") => lapsed /\ proof.status # "verified"

\* enqueuePaymentOutcome means every decision to be announced.  One is dropped as
\* a duplicate only of another decision of its kind, and only when one of the
\* two was announced after the proof had gone on to a later attempt.
DroppedOnlyWhenOvertaken ==
  \A k \in Keys : note[k].at = "dropped" =>
    \E x \in Keys \ {k} :
      /\ x[1] = k[1] /\ note[x].at = "queued" /\ note[x].as = note[k].as
      /\ x[2] < note[k].as[2] \/ k[2] < note[k].as[2]

\* A job ends well only when every recipient has been mailed, and one that has
\* used up its attempts has been reported.  One that fails with attempts left
\* has stalled too often.
NoNoticeEndsSilently ==
  \A j \in Keys :
    /\ jobs[j].state = "completed" => Recipients(j) \subseteq jobs[j].mailed
    /\ jobs[j].state = "failed" =>
         IF jobs[j].made >= JobAttempts THEN jobs[j].reports > 0
         ELSE jobs[j].stalls = MaxStalled

\* A job that workers take is completed or fails for good, whatever fails and
\* stalls on the way.
EnqueuedIsSettled ==
  \A j \in Followed : jobs[j].state = "waiting" ~> jobs[j].state \in {"completed", "failed"}

-----------------------------------------------------------------------------
(* The inductive invariant                                                 *)

Decided(k) == note[k].at # "none"

\* A decision is announced once at most: the notice of the next one is free.
NoticesAreFresh ==
  /\ \A k \in Keys : Decided(k) => k[2] <= proof.attempt
  /\ \A k \in Keys : Decided(k) /\ proof.status = "absent" => k[1] = "expired"
  /\ proof.status = "pending" =>
       \A kind \in {"verified", "rejected", "voided"} : ~Decided(<<kind, proof.attempt>>)

\* The two outcomes exclude each other, and a notice of either has its cause.
OutcomesExclude ==
  /\ lapsed => proof.status \notin {"pending", "verified"}
  /\ \A k \in Keys : Decided(k) =>
       /\ k[1] = "verified" => proof.status = "verified"
       /\ k[1] = "expired" => lapsed

\* A notice goes out under its own kind and no earlier attempt.
NotesNameTheirJob ==
  \A k \in Keys : note[k].at \in {"queued", "dropped"} =>
    /\ note[k].as \in Keys
    /\ note[k].as[1] = k[1]
    /\ k[2] <= note[k].as[2]
    /\ k[1] = "submitted" => note[k].as = k

\* Every job in the queue was added by a notice.
JobsWereAnnounced ==
  \A j \in Keys : jobs[j].state # "absent" =>
    \E x \in Keys : note[x].at = "queued" /\ note[x].as = j

\* What a run that has not ended knows of its mails and of its attempts.
RunSound(j, job) ==
  /\ job.state = "active" => Recipients(j) \ job.todo \subseteq job.mailed
  /\ job.state \in {"waiting", "active"} =>
       /\ job.made < JobAttempts
       /\ job.reports <= 1
       /\ job.made = 0 => job.reports = 0

EndSound(j, job) ==
  /\ job.state = "completed" => Recipients(j) \subseteq job.mailed
  /\ job.state = "failed" =>
       IF job.made >= JobAttempts THEN job.reports > 0 ELSE job.stalls = MaxStalled

IInv ==
  /\ TypeOK
  /\ NoticesAreFresh
  /\ OutcomesExclude
  /\ NotesNameTheirJob
  /\ JobsWereAnnounced
  /\ DroppedOnlyWhenOvertaken
  /\ \A j \in Keys : RunSound(j, jobs[j]) /\ EndSound(j, jobs[j])
=============================================================================
