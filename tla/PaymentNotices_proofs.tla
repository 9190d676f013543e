----------------------- MODULE PaymentNotices_proofs -----------------------
(***************************************************************************)
(* Whatever is lost, late, retried or forgotten, a notice tells what       *)
(* happened and no job ends unseen: for any number of recipients, attempts *)
(* of the proof, attempts of the job and stalls.                           *)
(***************************************************************************)
EXTENDS PaymentNotices, TLAPS

Proofs ==
  [status : {"absent", "pending", "rejected", "voided", "verified"},
   attempt : Attempts, barred : BOOLEAN]

Notes ==
  [at : {"none", "due", "queued", "dropped", "lost"}, as : Keys \cup {<<"none", 0>>}]

LEMMA KeysArePairs ==
  ASSUME NEW k \in Keys
  PROVE  k[1] \in Kinds /\ k[2] \in Attempts /\ k = <<k[1], k[2]>> /\ k[2] \in Int
BY DEF Keys, Attempts

LEMMA PairsAreKeys ==
  ASSUME NEW kind \in Kinds, NEW n \in Attempts
  PROVE  <<kind, n>> \in Keys
BY DEF Keys

-----------------------------------------------------------------------------
(* Steps on the notes                                                      *)

\* Only one note changes, and it changes as said.
LEMMA NoteReplaced ==
  ASSUME TypeOK, NEW k \in Keys, NEW x \in Notes, note' = [note EXCEPT ![k] = x]
  PROVE  /\ note' \in [Keys -> Notes]
         /\ note'[k] = x
         /\ \A y \in Keys : y # k => note'[y] = note[y]
BY DEF TypeOK, Notes

LEMMA AnnounceReplaces ==
  ASSUME TypeOK, NEW kind \in Kinds, NEW n \in Attempts, Announce(kind, n)
  PROVE  /\ note' \in [Keys -> Notes]
         /\ note'[<<kind, n>>].at = "due"
         /\ \A y \in Keys : y # <<kind, n>> => note'[y] = note[y]
<1> DEFINE k == <<kind, n>>
           x == [note[k] EXCEPT !.at = "due"]
<1>1. k \in Keys BY PairsAreKeys
<1>2. note[k] \in Notes BY <1>1 DEF TypeOK, Notes
<1>3. x \in Notes /\ x.at = "due" BY <1>2 DEF Notes
<1>4. note' = [note EXCEPT ![k] = x] BY <1>1 DEF Announce, TypeOK
<1> HIDE DEF k, x
<1>5. /\ note' \in [Keys -> Notes]
      /\ note'[k] = x
      /\ \A y \in Keys : y # k => note'[y] = note[y]
  BY <1>1, <1>3, <1>4, NoteReplaced
<1> QED BY <1>3, <1>5 DEF k

\* A fresh note that falls due disturbs no note that has been enqueued.
LEMMA FreshNoteIsHarmless ==
  ASSUME NotesNameTheirJob, JobsWereAnnounced, DroppedOnlyWhenOvertaken,
         NEW k \in Keys, note[k].at \notin {"queued", "dropped"},
         note'[k].at \notin {"queued", "dropped"},
         \A y \in Keys : y # k => note'[y] = note[y],
         UNCHANGED jobs
  PROVE  NotesNameTheirJob' /\ JobsWereAnnounced' /\ DroppedOnlyWhenOvertaken'
<1>1. \A y \in Keys : note'[y].at \in {"queued", "dropped"} => note'[y] = note[y]
  OBVIOUS
<1>2. \A y \in Keys : note[y].at \in {"queued", "dropped"} => note'[y] = note[y]
  OBVIOUS
<1>3. NotesNameTheirJob' BY <1>1 DEF NotesNameTheirJob
<1>4. JobsWereAnnounced'
  <2> SUFFICES ASSUME NEW j \in Keys, jobs[j].state # "absent"
               PROVE  \E x \in Keys : note'[x].at = "queued" /\ note'[x].as = j
    BY DEF JobsWereAnnounced
  <2>1. PICK x \in Keys : note[x].at = "queued" /\ note[x].as = j BY DEF JobsWereAnnounced
  <2> QED BY <2>1, <1>2
<1>5. DroppedOnlyWhenOvertaken'
  <2> SUFFICES ASSUME NEW y \in Keys, note'[y].at = "dropped"
               PROVE  \E x \in Keys \ {y} :
                        /\ x[1] = y[1] /\ note'[x].at = "queued" /\ note'[x].as = note'[y].as
                        /\ x[2] < note'[y].as[2] \/ y[2] < note'[y].as[2]
    BY DEF DroppedOnlyWhenOvertaken
  <2>1. note'[y] = note[y] BY <1>1
  <2>2. PICK x \in Keys \ {y} :
          /\ x[1] = y[1] /\ note[x].at = "queued" /\ note[x].as = note[y].as
          /\ x[2] < note[y].as[2] \/ y[2] < note[y].as[2]
    BY <2>1 DEF DroppedOnlyWhenOvertaken
  <2>3. note'[x] = note[x] BY <2>2, <1>2
  <2> QED BY <2>1, <2>2, <2>3
<1> QED BY <1>3, <1>4, <1>5

-----------------------------------------------------------------------------
(* Steps on a job                                                          *)

\* A step on one job that leaves it sound, and absent if it was absent.
LEMMA KeepPreserves ==
  ASSUME IInv, NEW j \in Keys, NEW job \in JobType, Keep(j, job),
         RunSound(j, job), EndSound(j, job),
         jobs[j].state # "absent"
  PROVE  IInv'
<1> USE DEF IInv
<1>1. /\ jobs' \in [Keys -> JobType]
      /\ jobs'[j] = job
      /\ \A y \in Keys : y # j => jobs'[y] = jobs[y]
  BY DEF Keep, TypeOK
<1>2. UNCHANGED <<proof, lapsed, note>> BY DEF Keep
<1>3. TypeOK' BY <1>1, <1>2 DEF TypeOK
<1>4. NoticesAreFresh' BY <1>2 DEF NoticesAreFresh, Decided
<1>5. OutcomesExclude' BY <1>2 DEF OutcomesExclude, Decided
<1>6. NotesNameTheirJob' BY <1>2 DEF NotesNameTheirJob
<1>7. JobsWereAnnounced'
  <2>1. \A y \in Keys : jobs'[y].state # "absent" => jobs[y].state # "absent" BY <1>1
  <2> QED BY <2>1, <1>2 DEF JobsWereAnnounced
<1>8. DroppedOnlyWhenOvertaken' BY <1>2 DEF DroppedOnlyWhenOvertaken
<1>9. \A y \in Keys : RunSound(y, jobs'[y]) /\ EndSound(y, jobs'[y])
  <2> TAKE y \in Keys
  <2>1. CASE y = j BY <1>1, <2>1
  <2>2. CASE y # j
    <3>1. jobs'[y] = jobs[y] BY <1>1, <2>2
    <3>2. RunSound(y, jobs[y]) /\ EndSound(y, jobs[y]) OBVIOUS
    <3> QED BY <3>1, <3>2
  <2> QED BY <2>1, <2>2
<1>10. (\A y \in Keys : RunSound(y, jobs[y]) /\ EndSound(y, jobs[y]))'
  BY <1>9 DEF RunSound, EndSound, Recipients
<1> QED BY <1>3, <1>4, <1>5, <1>6, <1>7, <1>8, <1>10

LEMMA RecipientsAreKnown ==
  ASSUME NEW j
  PROVE  Recipients(j) \subseteq Members \cup Reviewers
BY DEF Recipients

\* What is captured counts one or nothing, and one when nothing will be retried.
LEMMA CapturedCounts ==
  ASSUME NEW made \in Nat, NEW permanent \in BOOLEAN
  PROVE  /\ Captured(made, permanent) \in {0, 1}
         /\ made >= JobAttempts => Captured(made, permanent) = 1
         /\ made < JobAttempts /\ made > 1 => Captured(made, permanent) = 0
BY BoundsAssumption DEF Captured, RetryPending

LEMMA AttemptTyped ==
  ASSUME NEW job \in JobType, NEW state \in {"waiting", "failed"},
         NEW made \in 0..JobAttempts, NEW reports \in 0..2
  PROVE  [job EXCEPT !.state = state, !.made = made, !.todo = {}, !.reports = reports] \in JobType
BY DEF JobType

LEMMA TakePreserves ==
  ASSUME IInv, NEW j \in Keys, Take(j)
  PROVE  IInv'
<1>1. PICK written \in SUBSET Recipients(j) :
        Keep(j, [jobs[j] EXCEPT !.state = "active", !.todo = Recipients(j),
                                !.posted = @ \cup written])
  BY DEF Take
<1> DEFINE job == [jobs[j] EXCEPT !.state = "active", !.todo = Recipients(j),
                                  !.posted = @ \cup written]
<1>2. jobs[j] \in JobType /\ jobs[j].state = "waiting" /\ RunSound(j, jobs[j])
  BY DEF IInv, TypeOK, Take
<1>3. job \in JobType BY <1>2, RecipientsAreKnown DEF JobType
<1>4. /\ job.state = "active" /\ job.todo = Recipients(j)
      /\ job.made = jobs[j].made /\ job.reports = jobs[j].reports
  BY <1>2 DEF JobType
<1>5. RunSound(j, job) /\ EndSound(j, job) BY <1>2, <1>4 DEF RunSound, EndSound
<1> HIDE DEF job
<1> QED BY <1>1, <1>2, <1>3, <1>5, KeepPreserves DEF job

LEMMA MailPreserves ==
  ASSUME IInv, NEW j \in Keys, NEW r \in Recipients(j), Mail(j, r)
  PROVE  IInv'
<1> DEFINE job == [jobs[j] EXCEPT !.todo = @ \ {r}, !.mailed = @ \cup {r}]
<1>1. jobs[j] \in JobType /\ jobs[j].state = "active" /\ RunSound(j, jobs[j])
  BY DEF IInv, TypeOK, Mail
<1>2. job \in JobType BY <1>1, RecipientsAreKnown DEF JobType
<1>3. /\ job.state = "active"
      /\ job.todo = jobs[j].todo \ {r} /\ job.mailed = jobs[j].mailed \cup {r}
      /\ job.made = jobs[j].made /\ job.reports = jobs[j].reports
  BY <1>1 DEF JobType
<1>4. RunSound(j, job) /\ EndSound(j, job) BY <1>1, <1>3 DEF RunSound, EndSound
<1>5. Keep(j, job) BY DEF Mail
<1> HIDE DEF job
<1> QED BY <1>1, <1>2, <1>4, <1>5, KeepPreserves

LEMMA MailFailsPreserves ==
  ASSUME IInv, NEW j \in Keys, NEW r, NEW permanent \in BOOLEAN, MailFails(j, r, permanent)
  PROVE  IInv'
<1> DEFINE made == jobs[j].made + 1
           state == IF RetryPending(made) THEN "waiting" ELSE "failed"
           reports == jobs[j].reports + Captured(made, permanent)
           job == [jobs[j] EXCEPT !.state = state, !.made = made, !.todo = {},
                                  !.reports = reports]
<1>1. jobs[j] \in JobType /\ jobs[j].state = "active" /\ RunSound(j, jobs[j])
  BY DEF IInv, TypeOK, MailFails
<1>2. /\ jobs[j].made \in 0..JobAttempts /\ jobs[j].made < JobAttempts
      /\ jobs[j].reports \in 0..1 /\ (jobs[j].made = 0 => jobs[j].reports = 0)
  BY <1>1 DEF RunSound, JobType
<1>3. JobAttempts \in Nat BY BoundsAssumption
<1>4. made \in 1..JobAttempts BY <1>2, <1>3
<1>5. /\ Captured(made, permanent) \in {0, 1}
      /\ made >= JobAttempts => Captured(made, permanent) = 1
      /\ made < JobAttempts /\ made > 1 => Captured(made, permanent) = 0
  BY <1>3, <1>4, CapturedCounts
<1>6. /\ reports \in 0..2
      /\ made < JobAttempts => reports <= 1
      /\ made >= JobAttempts => reports > 0
  <2>1. CASE made > 1 BY <1>2, <1>3, <1>4, <1>5, <2>1
  <2>2. CASE made = 1 BY <1>2, <1>3, <1>4, <1>5, <2>2
  <2> QED BY <1>3, <1>4, <2>1, <2>2
<1>7. state \in {"waiting", "failed"} /\ (state = "waiting" <=> made < JobAttempts)
  BY DEF RetryPending
<1>8. Keep(j, job) BY DEF MailFails
<1> HIDE DEF made, state, reports
<1>9. job \in JobType
  <2>1. made \in 0..JobAttempts BY <1>3, <1>4
  <2> QED BY <1>1, <1>6, <1>7, <2>1, AttemptTyped
<1>10. job.state = state /\ job.made = made /\ job.reports = reports
  BY <1>1 DEF JobType
<1>11. RunSound(j, job) /\ EndSound(j, job)
  BY <1>3, <1>4, <1>6, <1>7, <1>10 DEF RunSound, EndSound
<1> HIDE DEF job
<1> QED BY <1>1, <1>8, <1>9, <1>11, KeepPreserves

LEMMA CompletePreserves ==
  ASSUME IInv, NEW j \in Keys, Complete(j)
  PROVE  IInv'
<1> DEFINE job == [jobs[j] EXCEPT !.state = "completed"]
<1>1. jobs[j] \in JobType /\ jobs[j].state = "active" /\ jobs[j].todo = {}
      /\ RunSound(j, jobs[j])
  BY DEF IInv, TypeOK, Complete
<1>2. job \in JobType BY <1>1 DEF JobType
<1>3. job.state = "completed" /\ job.mailed = jobs[j].mailed BY <1>1 DEF JobType
<1>4. RunSound(j, job) /\ EndSound(j, job) BY <1>1, <1>3 DEF RunSound, EndSound
<1>5. Keep(j, job) BY DEF Complete
<1> HIDE DEF job
<1> QED BY <1>1, <1>2, <1>4, <1>5, KeepPreserves

LEMMA StallPreserves ==
  ASSUME IInv, NEW j \in Keys, Stall(j)
  PROVE  IInv'
<1>1. jobs[j] \in JobType /\ jobs[j].state = "active" /\ RunSound(j, jobs[j])
  BY DEF IInv, TypeOK, Stall
<1>2. /\ jobs[j].made \in 0..JobAttempts /\ jobs[j].made < JobAttempts
      /\ jobs[j].stalls \in 0..MaxStalled
      /\ jobs[j].reports \in 0..1 /\ (jobs[j].made = 0 => jobs[j].reports = 0)
  BY <1>1 DEF RunSound, JobType
<1>3. JobAttempts \in Nat /\ MaxStalled \in Nat BY BoundsAssumption
<1>4. CASE jobs[j].stalls < MaxStalled
  <2> DEFINE stalls == jobs[j].stalls + 1
             job == [jobs[j] EXCEPT !.state = "waiting", !.stalls = stalls, !.todo = {}]
  <2>1. Keep(j, job) BY <1>4 DEF Stall
  <2>2. stalls \in 0..MaxStalled BY <1>2, <1>3, <1>4
  <2> HIDE DEF stalls
  <2>3. job \in JobType BY <1>1, <2>2 DEF JobType
  <2>4. job.state = "waiting" /\ job.made = jobs[j].made /\ job.reports = jobs[j].reports
    BY <1>1 DEF JobType
  <2>5. RunSound(j, job) /\ EndSound(j, job) BY <1>1, <2>4 DEF RunSound, EndSound
  <2> HIDE DEF job
  <2> QED BY <1>1, <2>1, <2>3, <2>5, KeepPreserves
<1>5. CASE ~(jobs[j].stalls < MaxStalled)
  <2> DEFINE made == jobs[j].made + 1
             captured == Captured(made, FALSE)
             reports == jobs[j].reports + captured
             job == [jobs[j] EXCEPT !.state = "failed", !.made = made, !.todo = {},
                                    !.reports = reports]
  <2>1. Keep(j, job) BY <1>5 DEF Stall
  <2>2. made \in 1..JobAttempts BY <1>2, <1>3
  <2>3. captured \in {0, 1} /\ (made >= JobAttempts => captured = 1)
    BY <1>3, <2>2 DEF Captured, RetryPending
  <2> HIDE DEF made, captured
  <2>4. reports \in 0..2 /\ (made >= JobAttempts => reports > 0) BY <1>2, <2>3
  <2>5. jobs[j].stalls = MaxStalled BY <1>2, <1>3, <1>5
  <2> HIDE DEF reports
  <2>6. job \in JobType
    <3>1. made \in 0..JobAttempts BY <1>3, <2>2
    <3> QED BY <1>1, <2>4, <3>1, AttemptTyped
  <2>7. /\ job.state = "failed" /\ job.made = made /\ job.reports = reports
        /\ job.stalls = jobs[j].stalls
    BY <1>1 DEF JobType
  <2>8. RunSound(j, job) /\ EndSound(j, job)
    BY <1>3, <2>2, <2>4, <2>5, <2>7 DEF RunSound, EndSound
  <2> HIDE DEF job
  <2> QED BY <1>1, <2>1, <2>6, <2>8, KeepPreserves
<1> QED BY <1>4, <1>5

LEMMA ForgetPreserves ==
  ASSUME IInv, NEW j \in Keys, Forget(j)
  PROVE  IInv'
<1> DEFINE job == [Queued EXCEPT !.state = "absent"]
<1>1. jobs[j].state # "absent" BY DEF Forget
<1>2. job \in JobType BY BoundsAssumption DEF Queued, JobType
<1>3. job.state = "absent" BY DEF Queued
<1>4. RunSound(j, job) /\ EndSound(j, job) BY <1>3 DEF RunSound, EndSound
<1>5. Keep(j, job) BY DEF Forget
<1> HIDE DEF job
<1> QED BY <1>1, <1>2, <1>4, <1>5, KeepPreserves

-----------------------------------------------------------------------------
(* Decisions and their announcement                                        *)

\* A decision whose notice is fresh: what is left to show is what it says of
\* the payment.
LEMMA DecisionPreserves ==
  ASSUME IInv, NEW kind \in Kinds, NEW n \in Attempts, ~Decided(<<kind, n>>),
         Announce(kind, n), UNCHANGED jobs,
         proof' \in Proofs, lapsed' \in BOOLEAN,
         NoticesAreFresh', OutcomesExclude'
  PROVE  IInv'
<1> USE DEF IInv
<1>1. <<kind, n>> \in Keys BY PairsAreKeys
<1>2. /\ note' \in [Keys -> Notes]
      /\ note'[<<kind, n>>].at = "due"
      /\ \A y \in Keys : y # <<kind, n>> => note'[y] = note[y]
  BY AnnounceReplaces
<1>3. note[<<kind, n>>].at \notin {"queued", "dropped"} BY DEF Decided
<1>4. NotesNameTheirJob' /\ JobsWereAnnounced' /\ DroppedOnlyWhenOvertaken'
  BY <1>1, <1>2, <1>3, FreshNoteIsHarmless
<1>5. TypeOK' BY <1>2 DEF TypeOK, Proofs, Notes
<1>6. (\A y \in Keys : RunSound(y, jobs[y]) /\ EndSound(y, jobs[y]))'
  BY DEF RunSound, EndSound, Recipients
<1> QED BY <1>4, <1>5, <1>6

\* Which notes are decided after an announcement.
LEMMA NowDecided ==
  ASSUME TypeOK, NEW kind \in Kinds, NEW n \in Attempts, Announce(kind, n)
  PROVE  \A y \in Keys : Decided(y)' <=> Decided(y) \/ y = <<kind, n>>
BY AnnounceReplaces DEF Decided

LEMMA SubmitPreserves ==
  ASSUME IInv, Submit
  PROVE  IInv'
<1> USE DEF IInv
<1>1. "submitted" \in Kinds /\ 0 \in Attempts BY BoundsAssumption DEF Kinds, Attempts
<1>2. proof \in Proofs /\ proof.status = "absent" /\ ~lapsed
  BY DEF TypeOK, Proofs, Submit, LaneOpen
<1>3. proof' \in Proofs /\ proof'.status = "pending" /\ proof'.attempt = proof.attempt
      /\ lapsed' = lapsed
  BY <1>2 DEF Submit, Proofs
<1>4. ~Decided(<<"submitted", 0>>) BY <1>1, <1>2, PairsAreKeys DEF NoticesAreFresh
<1>5. \A y \in Keys : Decided(y)' <=> Decided(y) \/ y = <<"submitted", 0>>
  BY <1>1, NowDecided DEF Submit
<1>6. \A y \in Keys : Decided(y) => y[1] = "expired" BY <1>2 DEF NoticesAreFresh
<1>7. \A y \in Keys : Decided(y) => ~(y[1] = "expired") BY <1>2 DEF OutcomesExclude
<1>8. 0 <= proof.attempt BY <1>2, BoundsAssumption DEF Proofs, Attempts
<1>9. NoticesAreFresh'
  <2>1. \A y \in Keys : Decided(y)' => y[2] <= proof'.attempt
    BY <1>3, <1>5, <1>6, <1>7, <1>8
  <2>2. \A kd \in {"verified", "rejected", "voided"} : note'[<<kd, proof.attempt>>].at = "none"
    <3> TAKE kd \in {"verified", "rejected", "voided"}
    <3>1. <<kd, proof.attempt>> \in Keys BY <1>2, PairsAreKeys DEF Proofs, Kinds, Verdicts
    <3>2. <<kd, proof.attempt>> # <<"submitted", 0>> OBVIOUS
    <3>3. note[<<kd, proof.attempt>>].at = "none" BY <1>6, <1>7, <3>1 DEF Decided
    <3> QED BY <1>1, <3>1, <3>2, <3>3, AnnounceReplaces DEF Submit
  <2> QED BY <1>3, <2>1, <2>2 DEF NoticesAreFresh, Decided
<1>10. OutcomesExclude' BY <1>2, <1>3, <1>5, <1>6, <1>7 DEF OutcomesExclude, Decided
<1> QED BY <1>1, <1>3, <1>4, <1>9, <1>10, DecisionPreserves DEF Submit, TypeOK

LEMMA ReopenPreserves ==
  ASSUME IInv, Reopen
  PROVE  IInv'
<1> USE DEF IInv
<1> DEFINE n == proof.attempt + 1
<1>1. "submitted" \in Kinds /\ n \in Attempts BY DEF Kinds, Reopen
<1>2. proof \in Proofs /\ proof.status \in {"rejected", "voided"} /\ ~lapsed
  BY DEF TypeOK, Proofs, Reopen, LaneOpen
<1>3. proof' \in Proofs /\ proof'.status = "pending" /\ proof'.attempt = n
      /\ lapsed' = lapsed
  BY <1>1, <1>2 DEF Reopen, Proofs
<1>4. proof.attempt \in Int BY <1>2 DEF Proofs, Attempts
<1>5. \A y \in Keys : Decided(y) => y[2] <= proof.attempt /\ y[2] \in Int
  BY KeysArePairs DEF NoticesAreFresh
<1>6. \A kd \in Kinds : ~Decided(<<kd, n>>)
  <2> TAKE kd \in Kinds
  <2>1. <<kd, n>> \in Keys BY <1>1, PairsAreKeys
  <2> QED BY <1>4, <1>5, <2>1
<1>7. \A y \in Keys : Decided(y)' <=> Decided(y) \/ y = <<"submitted", n>>
  BY <1>1, NowDecided DEF Reopen
<1>8. Announce("submitted", n) /\ UNCHANGED jobs BY DEF Reopen
<1>9. NoticesAreFresh'
  <2>1. \A y \in Keys : Decided(y)' => y[2] <= n BY <1>4, <1>5, <1>7
  <2>2. \A kd \in {"verified", "rejected", "voided"} : note'[<<kd, n>>].at = "none"
    <3> TAKE kd \in {"verified", "rejected", "voided"}
    <3>1. kd \in Kinds /\ <<kd, n>> \in Keys BY <1>1, PairsAreKeys DEF Kinds, Verdicts
    <3>2. <<kd, n>> # <<"submitted", n>> OBVIOUS
    <3>3. note[<<kd, n>>].at = "none" BY <1>6, <3>1 DEF Decided
    <3> QED BY <1>1, <1>8, <3>1, <3>2, <3>3, AnnounceReplaces
  <2> HIDE DEF n
  <2> QED BY <1>3, <2>1, <2>2 DEF NoticesAreFresh, Decided
<1>10. OutcomesExclude'
  BY <1>2, <1>3, <1>7 DEF OutcomesExclude, Decided
<1>11. lapsed' \in BOOLEAN BY <1>3 DEF TypeOK
<1> HIDE DEF n
<1> QED BY <1>1, <1>3, <1>6, <1>9, <1>10, <1>8, <1>11, DecisionPreserves

\* The verdicts on a proof under review, none of which it can have had before.
LEMMA VerdictPreserves ==
  ASSUME IInv, NEW kind \in {"verified", "rejected", "voided"},
         proof.status = "pending", Announce(kind, proof.attempt),
         proof' \in Proofs, proof'.status = kind, proof'.attempt = proof.attempt,
         UNCHANGED <<lapsed, jobs>>
  PROVE  IInv'
<1> USE DEF IInv
<1> DEFINE n == proof.attempt
<1>1. kind \in Kinds /\ n \in Attempts BY DEF Kinds, Verdicts, TypeOK
<1>2. ~Decided(<<kind, n>>) /\ ~lapsed BY DEF NoticesAreFresh, OutcomesExclude
<1>3. \A y \in Keys : Decided(y)' <=> Decided(y) \/ y = <<kind, n>>
  BY <1>1, NowDecided
<1>4. n <= n BY <1>1 DEF Attempts
<1>5. NoticesAreFresh'
  <2>1. \A y \in Keys : Decided(y)' => y[2] <= n BY <1>3, <1>4 DEF NoticesAreFresh
  <2> QED BY <2>1 DEF NoticesAreFresh, Decided
<1>6. OutcomesExclude'
  <2>1. \A y \in Keys : Decided(y) => y[1] # "verified" /\ y[1] # "expired"
    BY <1>2 DEF OutcomesExclude
  <2>2. \A y \in Keys : Decided(y)' => (y[1] = "verified" => kind = "verified") /\ y[1] # "expired"
    BY <1>3, <2>1
  <2> QED BY <1>2, <2>2 DEF OutcomesExclude, Decided
<1> QED BY <1>1, <1>2, <1>5, <1>6, DecisionPreserves DEF TypeOK

LEMMA VoidPreserves ==
  ASSUME IInv, Void
  PROVE  IInv'
<1> USE DEF IInv
<1>1. proof \in Proofs BY DEF TypeOK, Proofs
<1>2. CASE proof.status = "pending"
  <2>1. proof.attempt + 0 = proof.attempt BY <1>1 DEF Proofs, Attempts
  <2>2. /\ proof' = [proof EXCEPT !.status = "voided", !.attempt = proof.attempt]
        /\ Announce("voided", proof.attempt) /\ UNCHANGED <<lapsed, jobs>>
    BY <1>2, <2>1 DEF Void
  <2>3. proof' \in Proofs /\ proof'.status = "voided" /\ proof'.attempt = proof.attempt
    BY <1>1, <2>2 DEF Proofs
  <2> QED BY <1>2, <2>2, <2>3, VerdictPreserves
<1>3. CASE proof.status = "rejected"
  <2> DEFINE n == proof.attempt + 1
  <2>1. "voided" \in Kinds /\ n \in Attempts BY <1>3 DEF Kinds, Verdicts, Void
  <2>2. /\ proof' \in Proofs /\ proof'.status = "voided" /\ proof'.attempt = n
        /\ Announce("voided", n) /\ UNCHANGED <<lapsed, jobs>>
    BY <1>1, <1>3, <2>1 DEF Void, Proofs
  <2>3. proof.attempt \in Int BY <1>1 DEF Proofs, Attempts
  <2>4. \A y \in Keys : Decided(y) => y[2] <= proof.attempt /\ y[2] \in Int
    BY KeysArePairs DEF NoticesAreFresh
  <2>5. ~Decided(<<"voided", n>>)
    <3>1. <<"voided", n>> \in Keys BY <2>1, PairsAreKeys
    <3> QED BY <2>3, <2>4, <3>1
  <2>6. \A y \in Keys : Decided(y)' <=> Decided(y) \/ y = <<"voided", n>>
    BY <2>1, <2>2, NowDecided
  <2>7. \A y \in Keys : Decided(y)' => y[2] <= n BY <2>3, <2>4, <2>6
  <2> HIDE DEF n
  <2>8. NoticesAreFresh' BY <2>2, <2>7 DEF NoticesAreFresh, Decided
  <2>9. OutcomesExclude'
    <3>1. \A y \in Keys : Decided(y)' => y[1] # "verified" /\ (y[1] = "expired" => lapsed)
      BY <1>3, <2>6 DEF OutcomesExclude
    <3> QED BY <2>2, <3>1 DEF OutcomesExclude, Decided
  <2>10. lapsed' \in BOOLEAN BY <2>2 DEF TypeOK
  <2> QED BY <2>1, <2>2, <2>5, <2>8, <2>9, <2>10, DecisionPreserves
<1> QED BY <1>2, <1>3 DEF Void

LEMMA ExpirePreserves ==
  ASSUME IInv, Expire
  PROVE  IInv'
<1> USE DEF IInv
<1> DEFINE n == proof.attempt
<1>1. "expired" \in Kinds /\ n \in Attempts BY DEF Kinds, Verdicts, TypeOK
<1>2. ~lapsed /\ proof.status \notin {"pending", "verified"} BY DEF Expire, Expirable
<1>3. lapsed' = TRUE /\ UNCHANGED <<proof, jobs>> /\ Announce("expired", n)
  BY DEF Expire
<1>4. ~Decided(<<"expired", n>>)
  <2>1. <<"expired", n>> \in Keys BY <1>1, PairsAreKeys
  <2> QED BY <1>2, <2>1 DEF OutcomesExclude
<1>5. \A y \in Keys : Decided(y)' <=> Decided(y) \/ y = <<"expired", n>>
  BY <1>1, <1>3, NowDecided
<1>6. n <= n BY <1>1 DEF Attempts
<1>7. NoticesAreFresh'
  <2>1. \A y \in Keys : Decided(y)' => y[2] <= n BY <1>5, <1>6 DEF NoticesAreFresh
  <2>2. proof.status = "absent" => \A y \in Keys : Decided(y)' => y[1] = "expired"
    BY <1>5 DEF NoticesAreFresh
  <2> QED BY <1>2, <1>3, <2>1, <2>2 DEF NoticesAreFresh, Decided
<1>8. OutcomesExclude'
  <2>1. \A y \in Keys : Decided(y)' => y[1] # "verified"
    BY <1>2, <1>5 DEF OutcomesExclude
  <2> QED BY <1>2, <1>3, <2>1 DEF OutcomesExclude, Decided
<1>9. proof' \in Proofs BY <1>3 DEF TypeOK, Proofs
<1> HIDE DEF n
<1> QED BY <1>1, <1>3, <1>4, <1>7, <1>8, <1>9, DecisionPreserves

LEMMA DecidePreserves ==
  ASSUME IInv, Decide
  PROVE  IInv'
<1>0. proof \in Proofs BY DEF IInv, TypeOK, Proofs
<1>1. CASE Submit BY <1>1, SubmitPreserves
<1>2. CASE Reopen BY <1>2, ReopenPreserves
<1>3. CASE Verify
  <2>1. /\ proof' \in Proofs /\ proof'.status = "verified" /\ proof'.attempt = proof.attempt
        /\ proof.status = "pending"
    BY <1>0, <1>3 DEF Verify, Proofs
  <2> QED BY <1>3, <2>1, VerdictPreserves DEF Verify
<1>4. ASSUME NEW bar \in BOOLEAN, Reject(bar) PROVE IInv'
  <2>1. /\ proof' \in Proofs /\ proof'.status = "rejected" /\ proof'.attempt = proof.attempt
        /\ proof.status = "pending"
    BY <1>0, <1>4 DEF Reject, Proofs
  <2> QED BY <1>4, <2>1, VerdictPreserves DEF Reject
<1>5. CASE Void BY <1>5, VoidPreserves
<1>6. CASE Expire BY <1>6, ExpirePreserves
<1> QED BY <1>1, <1>2, <1>3, <1>4, <1>5, <1>6 DEF Decide

-----------------------------------------------------------------------------
(* Announcing                                                              *)

\* A decided notice goes out under its kind, and under its own or a later attempt.
LEMMA JobOfIsItsJob ==
  ASSUME TypeOK, NoticesAreFresh, NEW k \in Keys, Decided(k)
  PROVE  /\ JobOf(k) \in Keys
         /\ JobOf(k)[1] = k[1]
         /\ k[2] <= JobOf(k)[2]
         /\ k[1] = "submitted" => JobOf(k) = k
<1>1. k[1] \in Kinds /\ k[2] \in Attempts /\ k = <<k[1], k[2]>> /\ k[2] \in Int
  BY KeysArePairs
<1>2. CASE k[1] = "submitted" BY <1>1, <1>2 DEF JobOf
<1>3. CASE k[1] # "submitted"
  <2>1. JobOf(k) = <<k[1], proof.attempt>> BY <1>3 DEF JobOf
  <2>2. proof.attempt \in Attempts BY DEF TypeOK
  <2>3. k[2] <= proof.attempt BY DEF NoticesAreFresh
  <2> QED BY <1>1, <1>3, <2>1, <2>2, <2>3, PairsAreKeys
<1> QED BY <1>2, <1>3

\* A note may leave "due" for what names its job, if that job is added, or was
\* there and another notice added it.
LEMMA NoteSettled ==
  ASSUME IInv, NEW k \in Keys, note[k].at = "due", NEW x \in Notes,
         x.at \in {"queued", "dropped"}, x.as = JobOf(k),
         note' = [note EXCEPT ![k] = x], UNCHANGED <<proof, lapsed>>
  PROVE  /\ note' \in [Keys -> Notes] /\ note'[k] = x
         /\ \A y \in Keys : y # k => note'[y] = note[y]
         /\ NoticesAreFresh' /\ OutcomesExclude' /\ NotesNameTheirJob'
<1> USE DEF IInv
<1>1. /\ note' \in [Keys -> Notes] /\ note'[k] = x
      /\ \A y \in Keys : y # k => note'[y] = note[y]
  BY NoteReplaced
<1>2. Decided(k) BY DEF Decided
<1>3. \A y \in Keys : note'[y].at # "none" <=> note[y].at # "none"
  BY <1>1
<1>4. NoticesAreFresh' /\ OutcomesExclude'
  <2>1. \A kd \in {"verified", "rejected", "voided"} : <<kd, proof.attempt>> \in Keys
    <3> TAKE kd \in {"verified", "rejected", "voided"}
    <3>1. kd \in Kinds /\ proof.attempt \in Attempts BY DEF Kinds, Verdicts, TypeOK
    <3> QED BY <3>1, PairsAreKeys
  <2> QED BY <1>3, <2>1 DEF NoticesAreFresh, OutcomesExclude, Decided
<1>5. NotesNameTheirJob'
  <2> SUFFICES ASSUME NEW y \in Keys, note'[y].at \in {"queued", "dropped"}
               PROVE  /\ note'[y].as \in Keys
                      /\ note'[y].as[1] = y[1]
                      /\ y[2] <= note'[y].as[2]
                      /\ y[1] = "submitted" => note'[y].as = y
    BY DEF NotesNameTheirJob
  <2>1. CASE y = k BY <1>1, <1>2, <2>1, JobOfIsItsJob
  <2>2. CASE y # k
    <3>1. note'[y] = note[y] BY <1>1, <2>2
    <3> QED BY <3>1 DEF NotesNameTheirJob
  <2> QED BY <2>1, <2>2
<1> QED BY <1>1, <1>4, <1>5

LEMMA EnqueuePreserves ==
  ASSUME IInv, NEW k \in Keys, Enqueue(k)
  PROVE  IInv'
<1> USE DEF IInv
<1> DEFINE j == JobOf(k)
<1>1. note[k].at = "due" /\ Decided(k) /\ UNCHANGED <<proof, lapsed>>
  BY DEF Enqueue, Decided
<1>2. j \in Keys /\ j[1] = k[1] /\ k[2] <= j[2] /\ (k[1] = "submitted" => j = k)
  BY <1>1, JobOfIsItsJob
<1>3. /\ jobs[j].state = "absent" =>
           jobs' = [jobs EXCEPT ![j] = Queued] /\ note' = [note EXCEPT ![k] = [at |-> "queued", as |-> j]]
      /\ jobs[j].state # "absent" =>
           note' = [note EXCEPT ![k] = [at |-> "dropped", as |-> j]] /\ jobs' = jobs
  BY DEF Enqueue
<1> HIDE DEF j
<1>4. CASE jobs[j].state = "absent"
  <2> DEFINE x == [at |-> "queued", as |-> j]
  <2>1. x \in Notes /\ x.at = "queued" /\ x.as = j BY <1>2 DEF Notes
  <2>2. note' = [note EXCEPT ![k] = x] /\ jobs' = [jobs EXCEPT ![j] = Queued] BY <1>3, <1>4
  <2> HIDE DEF x
  <2>3. /\ note' \in [Keys -> Notes] /\ note'[k] = x
        /\ \A y \in Keys : y # k => note'[y] = note[y]
        /\ NoticesAreFresh' /\ OutcomesExclude' /\ NotesNameTheirJob'
    BY <1>1, <2>1, <2>2, NoteSettled DEF j
  <2>4. Queued \in JobType /\ Queued.state = "waiting" /\ Queued.made = 0 /\ Queued.reports = 0
    BY BoundsAssumption DEF Queued, JobType
  <2>5. /\ jobs' \in [Keys -> JobType] /\ jobs'[j] = Queued
        /\ \A y \in Keys : y # j => jobs'[y] = jobs[y]
    BY <1>2, <2>2, <2>4 DEF TypeOK
  <2>6. TypeOK' BY <1>1, <2>3, <2>5 DEF TypeOK, Notes
  <2>7. JobsWereAnnounced'
    <3> SUFFICES ASSUME NEW y \in Keys, jobs'[y].state # "absent"
                 PROVE  \E z \in Keys : note'[z].at = "queued" /\ note'[z].as = y
      BY DEF JobsWereAnnounced
    <3>1. CASE y = j BY <2>1, <2>3, <3>1
    <3>2. CASE y # j
      <4>1. jobs[y].state # "absent" BY <2>5, <3>2
      <4>2. PICK z \in Keys : note[z].at = "queued" /\ note[z].as = y
        BY <4>1 DEF JobsWereAnnounced
      <4>3. z # k BY <1>1, <4>2
      <4> QED BY <2>3, <4>2, <4>3
    <3> QED BY <3>1, <3>2
  <2>8. DroppedOnlyWhenOvertaken'
    <3> SUFFICES ASSUME NEW y \in Keys, note'[y].at = "dropped"
                 PROVE  \E z \in Keys \ {y} :
                          /\ z[1] = y[1] /\ note'[z].at = "queued" /\ note'[z].as = note'[y].as
                          /\ z[2] < note'[y].as[2] \/ y[2] < note'[y].as[2]
      BY DEF DroppedOnlyWhenOvertaken
    <3>1. y # k /\ note'[y] = note[y] BY <2>1, <2>3
    <3>2. PICK z \in Keys \ {y} :
            /\ z[1] = y[1] /\ note[z].at = "queued" /\ note[z].as = note[y].as
            /\ z[2] < note[y].as[2] \/ y[2] < note[y].as[2]
      BY <3>1 DEF DroppedOnlyWhenOvertaken
    <3>3. z # k BY <1>1, <3>2
    <3> QED BY <2>3, <3>1, <3>2, <3>3
  <2>9. \A y \in Keys : RunSound(y, jobs'[y]) /\ EndSound(y, jobs'[y])
    <3> TAKE y \in Keys
    <3>1. CASE y = j BY <2>4, <2>5, <3>1, BoundsAssumption DEF RunSound, EndSound
    <3>2. CASE y # j
      <4>1. jobs'[y] = jobs[y] BY <2>5, <3>2
      <4>2. RunSound(y, jobs[y]) /\ EndSound(y, jobs[y]) OBVIOUS
      <4> QED BY <4>1, <4>2
    <3> QED BY <3>1, <3>2
  <2>10. (\A y \in Keys : RunSound(y, jobs[y]) /\ EndSound(y, jobs[y]))'
    BY <2>9 DEF RunSound, EndSound, Recipients
  <2> QED BY <2>3, <2>6, <2>7, <2>8, <2>10
<1>5. CASE jobs[j].state # "absent"
  <2> DEFINE x == [at |-> "dropped", as |-> j]
  <2>1. x \in Notes /\ x.at = "dropped" /\ x.as = j BY <1>2 DEF Notes
  <2>2. note' = [note EXCEPT ![k] = x] /\ jobs' = jobs BY <1>3, <1>5
  <2> HIDE DEF x
  <2>3. /\ note' \in [Keys -> Notes] /\ note'[k] = x
        /\ \A y \in Keys : y # k => note'[y] = note[y]
        /\ NoticesAreFresh' /\ OutcomesExclude' /\ NotesNameTheirJob'
    BY <1>1, <2>1, <2>2, NoteSettled DEF j
  <2>4. TypeOK' BY <1>1, <2>2, <2>3 DEF TypeOK, Notes
  <2>5. JobsWereAnnounced'
    <3> SUFFICES ASSUME NEW y \in Keys, jobs[y].state # "absent"
                 PROVE  \E z \in Keys : note'[z].at = "queued" /\ note'[z].as = y
      BY <2>2 DEF JobsWereAnnounced
    <3>1. PICK z \in Keys : note[z].at = "queued" /\ note[z].as = y BY DEF JobsWereAnnounced
    <3>2. z # k BY <1>1, <3>1
    <3> QED BY <2>3, <3>1, <3>2
  <2>6. DroppedOnlyWhenOvertaken'
    <3> SUFFICES ASSUME NEW y \in Keys, note'[y].at = "dropped"
                 PROVE  \E z \in Keys \ {y} :
                          /\ z[1] = y[1] /\ note'[z].at = "queued" /\ note'[z].as = note'[y].as
                          /\ z[2] < note'[y].as[2] \/ y[2] < note'[y].as[2]
      BY DEF DroppedOnlyWhenOvertaken
    <3>1. CASE y = k
      <4>1. PICK z \in Keys : note[z].at = "queued" /\ note[z].as = j
        BY <1>2, <1>5 DEF JobsWereAnnounced
      <4>2. z # k BY <1>1, <4>1
      <4>3. z[1] = j[1] /\ z[2] <= j[2] BY <4>1 DEF NotesNameTheirJob
      <4>4. /\ z = <<z[1], z[2]>> /\ k = <<k[1], k[2]>>
            /\ z[2] \in Int /\ k[2] \in Int /\ j[2] \in Int
        BY <1>2, KeysArePairs
      <4>5. z[2] # k[2] BY <1>2, <4>2, <4>3, <4>4
      <4>6. z[2] < j[2] \/ k[2] < j[2] BY <1>2, <4>3, <4>4, <4>5
      <4>7. note'[z] = note[z] BY <2>3, <4>2
      <4> QED BY <1>2, <2>1, <2>3, <3>1, <4>1, <4>2, <4>3, <4>6, <4>7
    <3>2. CASE y # k
      <4>1. note'[y] = note[y] BY <2>3, <3>2
      <4>2. PICK z \in Keys \ {y} :
              /\ z[1] = y[1] /\ note[z].at = "queued" /\ note[z].as = note[y].as
              /\ z[2] < note[y].as[2] \/ y[2] < note[y].as[2]
        BY <4>1 DEF DroppedOnlyWhenOvertaken
      <4>3. z # k BY <1>1, <4>2
      <4> QED BY <2>3, <4>1, <4>2, <4>3
    <3> QED BY <3>1, <3>2
  <2>7. (\A y \in Keys : RunSound(y, jobs[y]) /\ EndSound(y, jobs[y]))'
    BY <2>2 DEF RunSound, EndSound, Recipients
  <2> QED BY <2>3, <2>4, <2>5, <2>6, <2>7
<1> QED BY <1>4, <1>5

LEMMA UnannouncedPreserves ==
  ASSUME IInv, NEW k \in Keys, Unannounced(k)
  PROVE  IInv'
<1> USE DEF IInv
<1> DEFINE x == [note[k] EXCEPT !.at = "lost"]
<1>1. note[k] \in Notes /\ note[k].at = "due" BY DEF TypeOK, Notes, Unannounced
<1>2. x \in Notes /\ x.at = "lost" BY <1>1 DEF Notes
<1>3. note' = [note EXCEPT ![k] = x] /\ UNCHANGED <<proof, lapsed, jobs>>
  BY DEF Unannounced, TypeOK
<1> HIDE DEF x
<1>4. /\ note' \in [Keys -> Notes] /\ note'[k] = x
      /\ \A y \in Keys : y # k => note'[y] = note[y]
  BY <1>2, <1>3, NoteReplaced
<1>5. TypeOK' BY <1>3, <1>4 DEF TypeOK, Notes
<1>6. \A y \in Keys : note'[y].at # "none" <=> note[y].at # "none"
  BY <1>1, <1>2, <1>4
<1>7. NoticesAreFresh' /\ OutcomesExclude'
  <2>1. \A kd \in {"verified", "rejected", "voided"} : <<kd, proof.attempt>> \in Keys
    <3> TAKE kd \in {"verified", "rejected", "voided"}
    <3>1. kd \in Kinds /\ proof.attempt \in Attempts BY DEF Kinds, Verdicts, TypeOK
    <3> QED BY <3>1, PairsAreKeys
  <2> QED BY <1>3, <1>6, <2>1 DEF NoticesAreFresh, OutcomesExclude, Decided
<1>8. NotesNameTheirJob' /\ JobsWereAnnounced' /\ DroppedOnlyWhenOvertaken'
  BY <1>1, <1>2, <1>3, <1>4, FreshNoteIsHarmless
<1>9. (\A y \in Keys : RunSound(y, jobs[y]) /\ EndSound(y, jobs[y]))'
  BY <1>3 DEF RunSound, EndSound, Recipients
<1> QED BY <1>5, <1>7, <1>8, <1>9

-----------------------------------------------------------------------------
(* The invariant                                                           *)

LEMMA Initially ==
  Init => IInv
<1> SUFFICES ASSUME Init PROVE IInv OBVIOUS
<1> USE DEF Init, IInv
<1>1. LastAttempt \in Nat /\ JobAttempts \in Nat /\ MaxStalled \in Nat BY BoundsAssumption
<1>2. TypeOK
  <2>1. Undecided \in Notes BY DEF Undecided, Notes
  <2>2. note \in [Keys -> Notes] BY <2>1
  <2>3. jobs \in [Keys -> JobType] BY <1>1 DEF JobType
  <2>4. proof \in Proofs BY <1>1 DEF Proofs, Attempts
  <2> QED BY <2>2, <2>3, <2>4 DEF TypeOK, Notes, Proofs
<1>3. \A k \in Keys : note[k].at = "none" /\ jobs[k].state = "absent" BY DEF Undecided
<1>4. proof.status = "absent" /\ ~lapsed OBVIOUS
<1> QED BY <1>2, <1>3, <1>4
  DEF NoticesAreFresh, OutcomesExclude, NotesNameTheirJob, JobsWereAnnounced,
      DroppedOnlyWhenOvertaken, RunSound, EndSound, Decided

LEMMA StepPreserves ==
  ASSUME IInv, Next
  PROVE  IInv'
<1>1. CASE Decide BY <1>1, DecidePreserves
<1>2. ASSUME NEW k \in Keys, Enqueue(k) \/ Unannounced(k) PROVE IInv'
  BY <1>2, EnqueuePreserves, UnannouncedPreserves
<1>3. ASSUME NEW j \in Keys, Work(j) PROVE IInv'
  <2>1. CASE Take(j) BY <2>1, TakePreserves
  <2>2. ASSUME NEW r \in Recipients(j), Mail(j, r) PROVE IInv' BY <2>2, MailPreserves
  <2>3. ASSUME NEW r \in Recipients(j), NEW p \in BOOLEAN, MailFails(j, r, p) PROVE IInv'
    BY <2>3, MailFailsPreserves
  <2>4. CASE Complete(j) BY <2>4, CompletePreserves
  <2> QED BY <1>3, <2>1, <2>2, <2>3, <2>4 DEF Work
<1>4. ASSUME NEW j \in Keys, Stall(j) PROVE IInv' BY <1>4, StallPreserves
<1>5. ASSUME NEW j \in Keys, Forget(j) PROVE IInv' BY <1>5, ForgetPreserves
<1> QED BY <1>1, <1>2, <1>3, <1>4, <1>5 DEF Next

LEMMA StutterPreserves ==
  ASSUME IInv, UNCHANGED vars
  PROVE  IInv'
<1>1. UNCHANGED <<proof, lapsed, note, jobs>> BY DEF vars
<1> QED BY <1>1 DEF IInv, TypeOK, NoticesAreFresh, OutcomesExclude, NotesNameTheirJob,
  JobsWereAnnounced, DroppedOnlyWhenOvertaken, RunSound, EndSound, Decided, Recipients

THEOREM Invariance == Spec => []IInv
<1>1. Init => IInv BY Initially
<1>2. IInv /\ [Next]_vars => IInv' BY StepPreserves, StutterPreserves
<1> QED BY <1>1, <1>2, PTL DEF Spec

\* A job never makes more attempts than it was given, nor is one failure
\* reported more often than at its first attempt and at its last.
THEOREM NoticesTypeCorrect == Spec => []TypeOK
<1>1. IInv => TypeOK BY DEF IInv
<1> QED BY <1>1, Invariance, PTL

\* notifyPaymentOutcome, however late it runs: nobody is told of a verification
\* that did not happen, or of an expiry of what was paid.
THEOREM NoticesTellWhatHappened == Spec => []NoticesAreTrue
<1>1. IInv => NoticesAreTrue
  <2> SUFFICES ASSUME IInv PROVE NoticesAreTrue OBVIOUS
  <2> USE DEF IInv
  <2>1. ASSUME NEW kind \in Kinds, Announced(kind)
        PROVE  \E x \in Keys : x[1] = kind /\ Decided(x)
    <3>1. PICK n \in Attempts : jobs[<<kind, n>>].state # "absent" BY <2>1 DEF Announced
    <3>2. <<kind, n>> \in Keys BY PairsAreKeys
    <3>3. PICK x \in Keys : note[x].at = "queued" /\ note[x].as = <<kind, n>>
      BY <3>1, <3>2 DEF JobsWereAnnounced
    <3>4. x[1] = kind BY <3>3 DEF NotesNameTheirJob
    <3> QED BY <3>3, <3>4 DEF Decided
  <2>2. "verified" \in Kinds /\ "expired" \in Kinds BY DEF Kinds, Verdicts
  <2> QED BY <2>1, <2>2 DEF NoticesAreTrue, OutcomesExclude
<1> QED BY <1>1, Invariance, PTL

\* enqueuePaymentOutcome: the queue swallows a notice as a duplicate only of
\* another decision that it was too late to be told from.
THEOREM NoticesAreToldApart == Spec => []DroppedOnlyWhenOvertaken
<1>1. IInv => DroppedOnlyWhenOvertaken BY DEF IInv
<1> QED BY <1>1, Invariance, PTL

\* processPaymentOutcomeJob under createAsyncWorkerRuntime: whatever fails,
\* stalls and is retried, a job has mailed everyone or its failure is known.
THEOREM JobsEndInView == Spec => []NoNoticeEndsSilently
<1>1. IInv => NoNoticeEndsSilently BY DEF IInv, NoNoticeEndsSilently, EndSound
<1> QED BY <1>1, Invariance, PTL
=============================================================================
