------------------------------ MODULE Submissions ------------------------------
(***************************************************************************)
(* Entries of one competition: a row names a file's key, the bucket holds  *)
(* the bytes, and no transaction spans the two.  A participant asks for a  *)
(* link, puts the file and records it; recording replaces the entry until  *)
(* it is finalized.  Sweeps beside the uploads reclaim what no row names,  *)
(* and a daily purge what was never finalized, long after the event.  The  *)
(* de-identification of an account deletes what its entries name and then  *)
(* blanks them, finalized or not.                                          *)
(***************************************************************************)
EXTENDS Naturals

CONSTANTS
  Registrations, Keys,
  KeyRegistration,  \* the registration in a key's prefix
  Accounts,
  Requests,         \* participants' handlers: any member of a team may call
  AccountOf,        \* whose handler it is
  Purges,           \* runs of the retention job
  Erasures,         \* runs of account de-identification
  None,             \* no key, no account
  Erased,           \* DEIDENTIFIED_TEXT in the place of a key
  LinkLife,         \* SUBMISSIONS_UPLOAD_EXPIRY_SECONDS
  WindowEnd,        \* eventEndAt
  PurgeFrom,        \* eventEndAt and the grace period
  MaxTime,          \* bound of the clock
  MaxCalls          \* bound: a PUT that records a key is sent and resent so often

ASSUME SubmissionsAssumption ==
  /\ KeyRegistration \in [Keys -> Registrations]
  /\ None \notin Keys \cup Accounts /\ Erased \notin Keys \cup {None}
  /\ Requests \cap Purges = {} /\ Erasures \cap (Requests \cup Purges) = {}
  /\ AccountOf \in [Requests -> Accounts]
  /\ {LinkLife, WindowEnd, PurgeFrom, MaxTime, MaxCalls} \subseteq Nat
  /\ LinkLife > 0 /\ MaxTime > 0 /\ WindowEnd + LinkLife <= PurgeFrom

VARIABLES
  now,
  link,    \* when a key's presigned URL was minted, 0 before
  put,     \* the object's lastModified, 0 before the browser's PUT
  bytes,   \* the keys under which the bucket holds an object
  entry,   \* competition_submissions
  calls,   \* how often a key was sent to be recorded
  account, \* users; leaving: a de-identification has been tried, which only the
           \* properties ask
  tx

vars == <<now, link, put, bytes, entry, calls, account, tx>>

Workers == Requests \cup Purges \cup Erasures
Times == 0 .. MaxTime

\* What a handler carries: "granting", "superseding", "purging" and "erasing" delete
\* the objects in doomed one at a time; "recording" is past its checks.
Idle == [op |-> "idle", key |-> None, prev |-> None, of |-> None,
         doomed |-> {}, stale |-> {}]
NoEntry == [key |-> None, by |-> None, recorded |-> 0, final |-> 0]

Transactions ==
  [op : {"idle", "granting", "recording", "superseding", "purging", "erasing"},
   key : Keys \cup {None}, prev : Keys \cup {None, Erased}, of : Accounts \cup {None},
   doomed : SUBSET Keys, stale : SUBSET Registrations]

SubmissionRows ==
  [key : Keys \cup {None, Erased}, by : Accounts \cup {None},
   recorded : Times, final : Times]

TypeOK ==
  /\ now \in Times \ {0}
  /\ link \in [Keys -> Times]
  /\ put \in [Keys -> Times]
  /\ bytes \subseteq Keys
  /\ entry \in [Registrations -> SubmissionRows]
  /\ calls \in [Keys -> 0 .. MaxCalls]
  /\ account \in [Accounts -> {"active", "leaving", "deactivated"}]
  /\ tx \in [Workers -> Transactions]

Init ==
  /\ now = 1
  /\ link = [k \in Keys |-> 0]
  /\ put = [k \in Keys |-> 0]
  /\ bytes = {}
  /\ entry = [r \in Registrations |-> NoEntry]
  /\ calls = [k \in Keys |-> 0]
  /\ account = [a \in Accounts |-> "active"]
  /\ tx = [w \in Workers |-> Idle]

EntryOf(k) == entry[KeyRegistration[k]]
IsSubmissionWindowOpen == now <= WindowEnd
Present(r) == entry[r].key # None
Unfinalized(r) == Present(r) /\ entry[r].final = 0

\* A deactivated account starts no handler; one that runs already runs on.
SignedIn(u) == account[AccountOf[u]] # "deactivated"

-----------------------------------------------------------------------------
\* Mutant of Orphans: the sweep asks only whether a row names the object.
OrphansOfAnyAge(r) ==
  {k \in bytes : KeyRegistration[k] = r /\ entry[r].key # k}

\* sweepOrphanedObjectsForRegistration: what the row does not name and no link
\* can still be filling.  The age is measured from the handler's own clock.
Orphans(r) ==
  {k \in bytes : /\ KeyRegistration[k] = r
                 /\ entry[r].key # k
                 /\ put[k] + LinkLife <= now}

\* generateSubmissionUploadUrl: the link is minted, then the sweep runs before
\* the answer.  What the sweep reads, it reads at one moment.
GrantLink(u, k) ==
  /\ tx[u] = Idle /\ SignedIn(u)
  /\ IsSubmissionWindowOpen
  /\ link[k] = 0
  /\ link' = [link EXCEPT ![k] = now]
  /\ tx' = [tx EXCEPT ![u] = [Idle EXCEPT !.op = "granting", !.key = k,
                                          !.doomed = Orphans(KeyRegistration[k])]]
  /\ UNCHANGED <<now, put, bytes, entry, calls, account>>

\* The browser puts the file under its link once, while the link lives.
PutFile(k) ==
  /\ link[k] # 0 /\ now < link[k] + LinkLife
  /\ put[k] = 0
  /\ \A u \in Requests : ~(tx[u].op = "granting" /\ tx[u].key = k)
  /\ put' = [put EXCEPT ![k] = now]
  /\ bytes' = bytes \cup {k}
  /\ UNCHANGED <<now, link, entry, calls, account, tx>>

\* createOrReplaceSubmission up to its write: the stored file is confirmed and
\* the key it would replace is read.
RecordCheck(u, k) ==
  /\ tx[u] = Idle /\ SignedIn(u)
  /\ IsSubmissionWindowOpen
  /\ calls[k] < MaxCalls
  /\ k \in bytes
  /\ calls' = [calls EXCEPT ![k] = @ + 1]
  /\ tx' = [tx EXCEPT ![u] = [Idle EXCEPT !.op = "recording", !.key = k,
                                          !.prev = EntryOf(k).key]]
  /\ UNCHANGED <<now, link, put, bytes, entry, account>>

\* confirmStoredFile finds the file not to be what this call names it and deletes it,
\* a row that names the key or not.
RefuseFile(u, k) ==
  /\ SignedIn(u)
  /\ IsSubmissionWindowOpen
  /\ calls[k] < MaxCalls
  /\ k \in bytes
  /\ calls' = [calls EXCEPT ![k] = @ + 1]
  /\ bytes' = bytes \ {k}
  /\ UNCHANGED <<now, link, put, entry, account, tx>>

\* What a request does once its row is written: delete the object it replaced, which
\* a blanked key does not name.
AfterRecord(t) ==
  IF t.prev \in {None, Erased, t.key} THEN Idle
  ELSE [Idle EXCEPT !.op = "superseding", !.doomed = {t.prev}]

\* Mutant of RecordCommit: finality was asked before the write and not in it.
RecordBlindly(u) ==
  /\ tx[u].op = "recording"
  /\ entry' = [entry EXCEPT ![KeyRegistration[tx[u].key]] =
                 [key |-> tx[u].key, by |-> AccountOf[u], recorded |-> now, final |-> 0]]
  /\ tx' = [tx EXCEPT ![u] = AfterRecord(@)]
  /\ UNCHANGED <<now, link, put, bytes, calls, account>>

\* The upsert.  That a finalized row is not replaced is the update's own WHERE;
\* where it matches nothing the request is refused, which is Abort.
RecordCommit(u) ==
  /\ tx[u].op = "recording"
  /\ EntryOf(tx[u].key).final = 0
  /\ entry' = [entry EXCEPT ![KeyRegistration[tx[u].key]] =
                 [key |-> tx[u].key, by |-> AccountOf[u], recorded |-> now, final |-> 0]]
  /\ tx' = [tx EXCEPT ![u] = AfterRecord(@)]
  /\ UNCHANGED <<now, link, put, bytes, calls, account>>

\* finalizeSubmission: one conditional update, at any time, of whatever entry is
\* there.  It asks neither the window nor the bucket.
Finalize(u, r) ==
  /\ SignedIn(u)
  /\ Unfinalized(r)
  /\ entry' = [entry EXCEPT ![r].final = now]
  /\ UNCHANGED <<now, link, put, bytes, calls, account, tx>>

-----------------------------------------------------------------------------
\* Mutant of PurgeRead: like the sweep, it returns early when nothing is stored.
PurgeReadObjects(p) ==
  /\ tx[p] = Idle
  /\ now >= PurgeFrom
  /\ bytes # {}
  /\ \E r \in Registrations : Unfinalized(r)
  /\ tx' = [tx EXCEPT ![p] =
       [Idle EXCEPT !.op = "purging",
                    !.doomed = {k \in bytes : \A r \in Registrations :
                                  entry[r].final # 0 => entry[r].key # k},
                    !.stale = {r \in Registrations : Unfinalized(r)}]]
  /\ UNCHANGED <<now, link, put, bytes, entry, calls, account>>

\* purgeUnfinalizedSubmissionsForCompetition: the competition is due, its rows
\* are read and its objects listed; all that no finalized row names will go.
PurgeRead(p) ==
  /\ tx[p] = Idle
  /\ now >= PurgeFrom
  /\ \E r \in Registrations : Unfinalized(r)
  /\ tx' = [tx EXCEPT ![p] =
       [Idle EXCEPT !.op = "purging",
                    !.doomed = {k \in bytes : \A r \in Registrations :
                                  entry[r].final # 0 => entry[r].key # k},
                    !.stale = {r \in Registrations : Unfinalized(r)}]]
  /\ UNCHANGED <<now, link, put, bytes, entry, calls, account>>

\* deidentifyAccount up to its storage stage: performWrites, rehearsed and rolled back,
\* names the files of the entries the account was the last to record.
RehearseErasure(e, a) ==
  /\ tx[e] = Idle
  /\ account[a] # "deactivated"
  /\ account' = [account EXCEPT ![a] = "leaving"]
  /\ tx' = [tx EXCEPT ![e] =
       [Idle EXCEPT !.op = "erasing", !.of = a,
                    !.doomed = {k \in Keys : EntryOf(k).key = k /\ EntryOf(k).by = a}]]
  /\ UNCHANGED <<now, link, put, bytes, entry, calls>>

\* The writes for good, once the objects are gone: the account is deactivated and every
\* entry it was the last to record is blanked, whatever has been recorded meanwhile.
EraseRows(e) == LET a == tx[e].of IN
  /\ tx[e].op = "erasing" /\ tx[e].doomed = {}
  /\ account[a] # "deactivated"
  /\ account' = [account EXCEPT ![a] = "deactivated"]
  /\ entry' = [r \in Registrations |->
       IF entry[r].by = a THEN [entry[r] EXCEPT !.key = Erased] ELSE entry[r]]
  /\ tx' = [tx EXCEPT ![e] = Idle]
  /\ UNCHANGED <<now, link, put, bytes, calls>>

\* One deleteObject of a sweep, of a replaced file, of a purge or of an erasure.
DeleteDoomed(w, k) ==
  /\ k \in tx[w].doomed
  /\ bytes' = bytes \ {k}
  /\ tx' = [tx EXCEPT ![w].doomed = @ \ {k}]
  /\ UNCHANGED <<now, link, put, entry, calls, account>>

AnswerRequest(u) ==
  /\ tx[u].op \in {"granting", "superseding"} /\ tx[u].doomed = {}
  /\ tx' = [tx EXCEPT ![u] = Idle]
  /\ UNCHANGED <<now, link, put, bytes, entry, calls, account>>

\* The rows after the objects, by the registrations read at the start.
PurgeRows(p) ==
  /\ tx[p].op = "purging" /\ tx[p].doomed = {}
  /\ entry' = [r \in Registrations |-> IF r \in tx[p].stale THEN NoEntry ELSE entry[r]]
  /\ tx' = [tx EXCEPT ![p] = Idle]
  /\ UNCHANGED <<now, link, put, bytes, calls, account>>

\* A refusal, a failed call to the bucket, a dead process.
Abort(w) ==
  /\ tx[w] # Idle
  /\ tx' = [tx EXCEPT ![w] = Idle]
  /\ UNCHANGED <<now, link, put, bytes, entry, calls, account>>

\* No request lives through the grace period, which is ninety days.
Tick ==
  /\ now < MaxTime
  /\ now + 1 = PurgeFrom => \A u \in Requests : tx[u] = Idle
  /\ now' = now + 1
  /\ UNCHANGED <<link, put, bytes, entry, calls, account, tx>>

Next ==
  \/ \E u \in Requests :
       \/ \E k \in Keys : GrantLink(u, k) \/ RecordCheck(u, k) \/ RefuseFile(u, k)
       \/ \E r \in Registrations : Finalize(u, r)
       \/ RecordCommit(u)
       \/ AnswerRequest(u)
  \/ \E k \in Keys : PutFile(k)
  \/ \E p \in Purges : PurgeRead(p) \/ PurgeRows(p)
  \/ \E e \in Erasures : EraseRows(e) \/ \E a \in Accounts : RehearseErasure(e, a)
  \/ \E w \in Workers : Abort(w) \/ \E k \in Keys : DeleteDoomed(w, k)
  \/ Tick

Spec == Init /\ [][Next]_vars

\* The job runs every day and does not fail for ever: a failed competition is
\* logged and "the next scheduled run picks it up".
Fairness ==
  \A p \in Purges :
    /\ WF_vars(PurgeRead(p)) /\ WF_vars(PurgeRows(p))
    /\ \A k \in Keys : WF_vars(DeleteDoomed(p, k))
    /\ <>[][~Abort(p)]_vars

FairSpec == Spec /\ Fairness

-----------------------------------------------------------------------------
\* A finalized entry is locked: whatever overlapping uploads had read, no later
\* step replaces its file or reopens it.  Two things take it yet: the step in which the
\* account that recorded it goes blanks it, the finality kept, and a purge that had read
\* it before may take it if it was finalized in the days of the purge.
FinalizedIsLocked ==
  [][\A r \in Registrations :
       entry[r].final # 0 =>
         \/ entry'[r] = entry[r]
         \/ /\ entry'[r] = [entry[r] EXCEPT !.key = Erased]
            /\ account[entry[r].by] # "deactivated"
            /\ account'[entry[r].by] = "deactivated"
         \/ entry[r].final >= PurgeFrom /\ entry'[r] = NoEntry]_vars

\* The comment over the purge: "A FINALIZED submission is never touched", whatever else
\* the job deletes in the days of the purge.
FinalizedIsNeverPurged ==
  [][\A r \in Registrations : entry[r].final # 0 => entry'[r] # NoEntry]_vars

\* A file recorded while its link lived, by a call that was not repeated and an account
\* that stays, is in the bucket for as long as its entry may count: no sweep that was on
\* its way, no teammate's replacement or de-identification and no purge of other entries
\* takes it.
PromptEntriesHaveBytes ==
  \A r \in Registrations :
    LET k == entry[r].key IN
      /\ k \in Keys
      /\ calls[k] = 1 /\ entry[r].recorded < link[k] + LinkLife
      /\ account[entry[r].by] = "active"
      /\ now < PurgeFrom \/ entry[r].final \in 1 .. PurgeFrom - 1
      => k \in bytes

\* What was never finalized does not outlive its grace period for ever, though
\* runs of the job fail between the objects and the rows.
AbandonedIsReclaimed ==
  \A r \in Registrations :
    (now >= PurgeFrom /\ Unfinalized(r)) ~> ~Unfinalized(r)

\* What makes them inductive.  A key in hand was sent, and what it would replace is
\* of its own registration.
HandsAreCalled ==
  \A w \in Workers :
    /\ tx[w].doomed # {} => tx[w].op \in {"granting", "superseding", "purging", "erasing"}
    /\ tx[w].op = "recording" =>
         /\ w \in Requests
         /\ tx[w].key \in Keys /\ calls[tx[w].key] > 0 /\ put[tx[w].key] # 0
    /\ tx[w].prev \in Keys => calls[tx[w].prev] > 0
    /\ tx[w].op = "recording" /\ tx[w].prev \in Keys =>
         KeyRegistration[tx[w].prev] = KeyRegistration[tx[w].key]
    /\ tx[w].op \in {"superseding", "erasing"} => \A k \in tx[w].doomed : calls[k] > 0

EntriesAreCalled ==
  \A r \in Registrations : LET k == entry[r].key IN
    /\ k # None => entry[r].by \in Accounts
    /\ k \in Keys => calls[k] > 0 /\ put[k] # 0 /\ KeyRegistration[k] = r

ObjectsAreLinked ==
  \A k \in Keys :
    /\ link[k] <= WindowEnd /\ link[k] <= now
    /\ put[k] # 0 => link[k] # 0 /\ link[k] <= put[k]
    /\ k \in bytes => put[k] # 0

\* A sweep carries only what was recorded late, if at all; a replaced key sent once
\* is no entry's again; a purge carries nothing that was finalized in time.
SweepsAreLate ==
  \A w \in Workers : tx[w].op = "granting" => \A k \in tx[w].doomed :
    /\ put[k] # 0 /\ link[k] + LinkLife <= now
    /\ EntryOf(k).key = k => EntryOf(k).recorded >= link[k] + LinkLife

ReplacedAreGone ==
  \A w \in Workers : tx[w].op = "superseding" => \A k \in tx[w].doomed :
    calls[k] = 1 => EntryOf(k).key # k

\* An erasure carries what was sent more than once, or is an entry of the account that
\* goes, if of any.
ErasuresTakeTheirOwn ==
  \A w \in Workers : tx[w].op = "erasing" =>
    /\ tx[w].of \in Accounts /\ account[tx[w].of] # "active"
    /\ \A k \in tx[w].doomed :
         calls[k] = 1 /\ EntryOf(k).key = k => EntryOf(k).by = tx[w].of

InTime(r) == entry[r].final \in 1 .. PurgeFrom - 1

PurgesAreLate ==
  \A w \in Workers : tx[w].op = "purging" =>
    /\ now >= PurgeFrom
    /\ \A r \in tx[w].stale : ~InTime(r)
    /\ \A r \in Registrations : entry[r].key \in tx[w].doomed => ~InTime(r)

\* Who records a key that was sent once is alone with it.
OneCallRecords ==
  \A w \in Workers : tx[w].op = "recording" => LET k == tx[w].key IN calls[k] = 1 =>
    /\ EntryOf(k).key # k
    /\ now < link[k] + LinkLife => k \in bytes
    /\ \A v \in Workers :
         /\ tx[v].prev # k
         /\ tx[v].op = "recording" /\ tx[v].key = k => v = w
         /\ tx[v].op \in {"superseding", "erasing"} => k \notin tx[v].doomed

IInv ==
  /\ TypeOK
  /\ HandsAreCalled /\ EntriesAreCalled /\ ObjectsAreLinked
  /\ SweepsAreLate /\ ReplacedAreGone /\ ErasuresTakeTheirOwn /\ PurgesAreLate
  /\ OneCallRecords
  /\ PromptEntriesHaveBytes

=============================================================================
