-------------------------- MODULE Submissions_proofs --------------------------
(***************************************************************************)
(* Finalized entries stay, and prompt uploads keep their bytes, for any    *)
(* number of registrations, files, overlapping requests, purges and        *)
(* erasures.  That a request ends within the grace period is never used.   *)
(***************************************************************************)
EXTENDS Submissions, TLAPS

LEMMA InitIsSound == Init => IInv
<1> SUFFICES ASSUME Init PROVE IInv
    OBVIOUS
<1> USE SubmissionsAssumption DEF Init, Idle, NoEntry
<1>1. TypeOK BY DEF TypeOK, Transactions, SubmissionRows, Times
<1>2. /\ HandsAreCalled /\ SweepsAreLate /\ ReplacedAreGone /\ PurgesAreLate
      /\ ErasuresTakeTheirOwn /\ OneCallRecords
      BY DEF HandsAreCalled, SweepsAreLate, ReplacedAreGone, PurgesAreLate,
          ErasuresTakeTheirOwn, OneCallRecords
<1>3. EntriesAreCalled /\ ObjectsAreLinked /\ PromptEntriesHaveBytes
      BY DEF EntriesAreCalled, ObjectsAreLinked, PromptEntriesHaveBytes, Present
<1> QED BY <1>1, <1>2, <1>3 DEF IInv

LEMMA TypeIsInductive ==
  ASSUME TypeOK, [Next]_vars
  PROVE  TypeOK'
<1> USE SubmissionsAssumption DEF TypeOK, Transactions, SubmissionRows, Times, Workers, Idle
<1>1. ASSUME NEW u \in Requests, NEW k \in Keys, GrantLink(u, k) PROVE TypeOK'
      BY <1>1 DEF GrantLink, Orphans
<1>2. ASSUME NEW u \in Requests, NEW k \in Keys, RecordCheck(u, k) PROVE TypeOK'
  <2>1. calls[k] + 1 \in 0 .. MaxCalls BY <1>2 DEF RecordCheck
  <2>2. calls' \in [Keys -> 0 .. MaxCalls] BY <1>2, <2>1 DEF RecordCheck
  <2>3. tx' \in [Workers -> Transactions] BY <1>2 DEF RecordCheck, EntryOf
  <2> QED BY <1>2, <2>2, <2>3 DEF RecordCheck
<1>3. ASSUME NEW u \in Requests, RecordCommit(u) PROVE TypeOK'
  <2> DEFINE r == KeyRegistration[tx[u].key]
             e == [key |-> tx[u].key, by |-> AccountOf[u], recorded |-> now, final |-> 0]
  <2>1. e \in SubmissionRows OBVIOUS
  <2>2. entry' = [entry EXCEPT ![r] = e] BY <1>3 DEF RecordCommit
  <2>3. AfterRecord(tx[u]) \in Transactions BY <1>3 DEF RecordCommit, AfterRecord
  <2>4. tx' = [tx EXCEPT ![u] = AfterRecord(tx[u])] BY <1>3 DEF RecordCommit
  <2> HIDE DEF r, e
  <2>5. entry' \in [Registrations -> SubmissionRows] BY <2>1, <2>2
  <2>6. tx' \in [Workers -> Transactions] BY <2>3, <2>4
  <2> QED BY <1>3, <2>5, <2>6 DEF RecordCommit
<1>4. ASSUME NEW u \in Requests, AnswerRequest(u) PROVE TypeOK'
      BY <1>4 DEF AnswerRequest
<1>5. ASSUME NEW k \in Keys, PutFile(k) PROVE TypeOK'
      BY <1>5 DEF PutFile
<1>6. ASSUME NEW u \in Requests, NEW k \in Keys, RefuseFile(u, k) PROVE TypeOK'
      BY <1>6 DEF RefuseFile
<1>7. ASSUME NEW u \in Requests, NEW r \in Registrations, Finalize(u, r) PROVE TypeOK'
  <2> DEFINE e == [entry[r] EXCEPT !.final = now]
  <2>1. entry[r] \in SubmissionRows /\ now \in Times OBVIOUS
  <2>2. e \in SubmissionRows BY <2>1
  <2>3. entry' = [entry EXCEPT ![r] = e] BY <1>7 DEF Finalize
  <2> HIDE DEF e
  <2>4. entry' \in [Registrations -> SubmissionRows] BY <2>2, <2>3
  <2> QED BY <1>7, <2>4 DEF Finalize
<1>8. ASSUME NEW p \in Purges, PurgeRead(p) PROVE TypeOK'
      BY <1>8 DEF PurgeRead
<1>9. ASSUME NEW p \in Purges, PurgeRows(p) PROVE TypeOK'
      BY <1>9 DEF PurgeRows, NoEntry
<1>10. ASSUME NEW w \in Workers, Abort(w) PROVE TypeOK'
      BY <1>10 DEF Abort
<1>11. ASSUME NEW w \in Workers, NEW k \in Keys, DeleteDoomed(w, k) PROVE TypeOK'
  <2> DEFINE t == [tx[w] EXCEPT !.doomed = @ \ {k}]
  <2>0. tx[w] \in Transactions OBVIOUS
  <2>1. t \in Transactions BY <2>0
  <2>2. tx' = [tx EXCEPT ![w] = t] BY <1>11 DEF DeleteDoomed
  <2> HIDE DEF t
  <2>3. tx' \in [Workers -> Transactions] BY <2>1, <2>2
  <2> QED BY <1>11, <2>3 DEF DeleteDoomed
<1>12. CASE Tick BY <1>12 DEF Tick
<1>13. ASSUME NEW e \in Erasures, NEW a \in Accounts, RehearseErasure(e, a) PROVE TypeOK'
  <2>1. {k \in Keys : EntryOf(k).key = k /\ EntryOf(k).by = a} \in SUBSET Keys OBVIOUS
  <2>2. tx' \in [Workers -> Transactions] BY <1>13, <2>1 DEF RehearseErasure
  <2>3. account' \in [Accounts -> {"active", "leaving", "deactivated"}]
        BY <1>13 DEF RehearseErasure
  <2> QED BY <1>13, <2>2, <2>3 DEF RehearseErasure
<1>14. ASSUME NEW e \in Erasures, EraseRows(e) PROVE TypeOK'
  <2>1. entry' \in [Registrations -> SubmissionRows] BY <1>14 DEF EraseRows
  <2>2. account' \in [Accounts -> {"active", "leaving", "deactivated"}]
        BY <1>14 DEF EraseRows
  <2>3. tx' \in [Workers -> Transactions] BY <1>14 DEF EraseRows
  <2> QED BY <1>14, <2>1, <2>2, <2>3 DEF EraseRows
<1>15. CASE UNCHANGED vars BY <1>15 DEF vars
<1> QED BY <1>1, <1>2, <1>3, <1>4, <1>5, <1>6, <1>7, <1>8, <1>9, <1>10, <1>11, <1>12, <1>13, <1>14,
           <1>15 DEF Next

LEMMA InvariantIsInductive ==
  ASSUME IInv, [Next]_vars
  PROVE  IInv'
<1> USE SubmissionsAssumption DEF TypeOK, Transactions, SubmissionRows, Times, Workers, Idle,
                                  EntryOf, Present, InTime
<1>t. TypeOK' BY TypeIsInductive DEF IInv
<1>1. ASSUME NEW u \in Requests, NEW k \in Keys, GrantLink(u, k) PROVE IInv'
  <2> DEFINE t == [Idle EXCEPT !.op = "granting", !.key = k, !.doomed = Orphans(KeyRegistration[k])]
  <2>a. t.op = "granting" /\ t.doomed = Orphans(KeyRegistration[k]) /\ t.prev = None OBVIOUS
  <2>b. /\ tx' = [tx EXCEPT ![u] = t] /\ link' = [link EXCEPT ![k] = now]
        /\ link[k] = 0 /\ now <= WindowEnd /\ UNCHANGED <<now, put, bytes, entry, calls, account>>
        BY <1>1 DEF GrantLink, IsSubmissionWindowOpen
  <2>c. \A j \in Orphans(KeyRegistration[k]) :
          j \in bytes /\ put[j] + LinkLife <= now /\ entry[KeyRegistration[j]].key # j
        BY DEF Orphans, IInv
  <2> HIDE DEF t
  <2>1. HandsAreCalled' /\ EntriesAreCalled' /\ ObjectsAreLinked' /\ ReplacedAreGone'
        BY <2>a, <2>b, <2>c, <1>t DEF IInv, HandsAreCalled, EntriesAreCalled,
            ObjectsAreLinked, ReplacedAreGone
  <2>2. PurgesAreLate' BY <2>a, <2>b, <2>c, <1>t DEF IInv, PurgesAreLate
  <2>3. SweepsAreLate' BY <2>a, <2>b, <2>c, <1>t DEF IInv, SweepsAreLate, ObjectsAreLinked
  <2>4. OneCallRecords'
        BY <2>a, <2>b, <2>c, <1>t DEF IInv, HandsAreCalled, ObjectsAreLinked, OneCallRecords
  <2>5. PromptEntriesHaveBytes'
        BY <2>a, <2>b, <2>c, <1>t DEF IInv, EntriesAreCalled, ObjectsAreLinked,
            PromptEntriesHaveBytes
  <2>e. ErasuresTakeTheirOwn'
        BY <2>a, <2>b, <2>c, <1>t DEF IInv, ErasuresTakeTheirOwn
  <2> QED BY <1>t, <2>e, <2>1, <2>2, <2>3, <2>4, <2>5 DEF IInv
<1>2. ASSUME NEW u \in Requests, NEW k \in Keys, RecordCheck(u, k) PROVE IInv'
  <2>1. EntriesAreCalled' /\ ObjectsAreLinked' /\ SweepsAreLate' /\ PurgesAreLate'
        BY <1>2, <1>t DEF IInv, EntriesAreCalled, ObjectsAreLinked, SweepsAreLate,
            PurgesAreLate, RecordCheck
  <2>2. PromptEntriesHaveBytes' BY <1>2, <1>t DEF IInv, PromptEntriesHaveBytes, RecordCheck
  <2>3. HandsAreCalled'
        BY <1>2, <1>t DEF IInv, HandsAreCalled, EntriesAreCalled, ObjectsAreLinked, RecordCheck
  <2>4. ReplacedAreGone' BY <1>2, <1>t DEF IInv, ReplacedAreGone, HandsAreCalled, RecordCheck
  <2>5. OneCallRecords'
        BY <1>2, <1>t DEF IInv, HandsAreCalled, EntriesAreCalled, OneCallRecords, RecordCheck
  <2>e. ErasuresTakeTheirOwn'
        BY <1>2, <1>t DEF IInv, HandsAreCalled, ErasuresTakeTheirOwn, RecordCheck
  <2> QED BY <1>t, <2>e, <2>1, <2>2, <2>3, <2>4, <2>5 DEF IInv
<1>3. ASSUME NEW u \in Requests, RecordCommit(u) PROVE IInv'
  <2>1. HandsAreCalled' /\ ObjectsAreLinked' /\ SweepsAreLate' /\ PurgesAreLate'
        BY <1>3, <1>t DEF IInv, HandsAreCalled, ObjectsAreLinked, SweepsAreLate,
            PurgesAreLate, RecordCommit, AfterRecord
  <2>2. EntriesAreCalled'
        BY <1>3, <1>t DEF IInv, EntriesAreCalled, HandsAreCalled, RecordCommit, AfterRecord
  <2>3. ReplacedAreGone'
        BY <1>3, <1>t DEF IInv, HandsAreCalled, ReplacedAreGone, OneCallRecords, RecordCommit,
            AfterRecord
  <2>4. OneCallRecords'
        BY <1>3, <1>t DEF IInv, OneCallRecords, HandsAreCalled, RecordCommit, AfterRecord
  <2>5. PromptEntriesHaveBytes'
        BY <1>3, <1>t DEF IInv, PromptEntriesHaveBytes, OneCallRecords, RecordCommit,
            AfterRecord
  <2>e. ErasuresTakeTheirOwn'
        BY <1>3, <1>t DEF IInv, ErasuresTakeTheirOwn, HandsAreCalled, OneCallRecords, RecordCommit, AfterRecord
  <2> QED BY <1>t, <2>e, <2>1, <2>2, <2>3, <2>4, <2>5 DEF IInv
<1>4. ASSUME NEW u \in Requests, AnswerRequest(u) PROVE IInv'
  <2>1. HandsAreCalled' /\ EntriesAreCalled' /\ ObjectsAreLinked' /\ SweepsAreLate'
        BY <1>4, <1>t DEF IInv, HandsAreCalled, EntriesAreCalled, ObjectsAreLinked,
            SweepsAreLate, AnswerRequest
  <2>2. ReplacedAreGone' /\ PurgesAreLate' /\ PromptEntriesHaveBytes'
        BY <1>4, <1>t DEF IInv, ReplacedAreGone, PurgesAreLate, PromptEntriesHaveBytes,
            AnswerRequest
  <2>3. OneCallRecords' BY <1>4, <1>t DEF IInv, OneCallRecords, HandsAreCalled, AnswerRequest
  <2>e. ErasuresTakeTheirOwn'
        BY <1>4, <1>t DEF IInv, ErasuresTakeTheirOwn, AnswerRequest
  <2> QED BY <1>t, <2>e, <2>1, <2>2, <2>3 DEF IInv
<1>5. ASSUME NEW k \in Keys, PutFile(k) PROVE IInv'
  <2>1. HandsAreCalled' /\ EntriesAreCalled' /\ ObjectsAreLinked' /\ SweepsAreLate'
        BY <1>5, <1>t DEF IInv, HandsAreCalled, EntriesAreCalled, ObjectsAreLinked,
            SweepsAreLate, PutFile
  <2>2. ReplacedAreGone' /\ PurgesAreLate' /\ OneCallRecords' /\ PromptEntriesHaveBytes'
        BY <1>5, <1>t DEF IInv, ReplacedAreGone, PurgesAreLate, OneCallRecords,
            PromptEntriesHaveBytes, PutFile
  <2>e. ErasuresTakeTheirOwn'
        BY <1>5, <1>t DEF IInv, ErasuresTakeTheirOwn, PutFile
  <2> QED BY <1>t, <2>e, <2>1, <2>2 DEF IInv
<1>6. ASSUME NEW u \in Requests, NEW k \in Keys, RefuseFile(u, k) PROVE IInv'
  <2>1. HandsAreCalled' /\ EntriesAreCalled' /\ ObjectsAreLinked' /\ SweepsAreLate'
        BY <1>6, <1>t DEF IInv, HandsAreCalled, EntriesAreCalled, ObjectsAreLinked,
            SweepsAreLate, RefuseFile
  <2>2. PurgesAreLate' BY <1>6, <1>t DEF IInv, PurgesAreLate, RefuseFile
  <2>3. ReplacedAreGone' BY <1>6, <1>t DEF IInv, ReplacedAreGone, HandsAreCalled, RefuseFile
  <2>4. OneCallRecords' BY <1>6, <1>t DEF IInv, OneCallRecords, HandsAreCalled, RefuseFile
  <2>5. PromptEntriesHaveBytes'
        BY <1>6, <1>t DEF IInv, PromptEntriesHaveBytes, EntriesAreCalled, RefuseFile
  <2>e. ErasuresTakeTheirOwn'
        BY <1>6, <1>t DEF IInv, HandsAreCalled, ErasuresTakeTheirOwn, RefuseFile
  <2> QED BY <1>t, <2>e, <2>1, <2>2, <2>3, <2>4, <2>5 DEF IInv
<1>7. ASSUME NEW u \in Requests, NEW r \in Registrations, Finalize(u, r) PROVE IInv'
  <2>1. HandsAreCalled' /\ EntriesAreCalled' /\ ObjectsAreLinked' /\ SweepsAreLate'
        BY <1>7, <1>t DEF IInv, HandsAreCalled, EntriesAreCalled, ObjectsAreLinked,
            SweepsAreLate, Finalize, Unfinalized
  <2>2. ReplacedAreGone' /\ PurgesAreLate' /\ OneCallRecords' /\ PromptEntriesHaveBytes'
        BY <1>7, <1>t DEF IInv, ReplacedAreGone, PurgesAreLate, OneCallRecords,
            PromptEntriesHaveBytes, Finalize, Unfinalized
  <2>e. ErasuresTakeTheirOwn'
        BY <1>7, <1>t DEF IInv, ErasuresTakeTheirOwn, Finalize
  <2> QED BY <1>t, <2>e, <2>1, <2>2 DEF IInv
<1>8. ASSUME NEW p \in Purges, PurgeRead(p) PROVE IInv'
  <2> DEFINE D == {k \in bytes : \A r \in Registrations : entry[r].final # 0 => entry[r].key # k}
             S == {r \in Registrations : Unfinalized(r)}
             t == [Idle EXCEPT !.op = "purging", !.doomed = D, !.stale = S]
  <2>a. t.op = "purging" /\ t.doomed = D /\ t.stale = S /\ t.prev = None OBVIOUS
  <2>b. /\ tx' = [tx EXCEPT ![p] = t] /\ now >= PurgeFrom 
        /\ UNCHANGED <<now, link, put, bytes, entry, calls, account>>
        BY <1>8 DEF PurgeRead
  <2>c. /\ \A r \in S : entry[r].final = 0
        /\ \A r \in Registrations : entry[r].key \in D => entry[r].final = 0
        BY DEF Unfinalized
  <2> HIDE DEF t, D, S
  <2>1. HandsAreCalled' /\ EntriesAreCalled' /\ ObjectsAreLinked' /\ SweepsAreLate'
        BY <2>a, <2>b, <2>c, <1>t DEF IInv, HandsAreCalled, EntriesAreCalled,
            ObjectsAreLinked, SweepsAreLate
  <2>2. ReplacedAreGone' /\ PurgesAreLate' /\ PromptEntriesHaveBytes'
        BY <2>a, <2>b, <2>c, <1>t DEF IInv, ReplacedAreGone, PurgesAreLate,
            PromptEntriesHaveBytes
  <2>3. OneCallRecords' BY <2>a, <2>b, <2>c, <1>t DEF IInv, OneCallRecords, HandsAreCalled
  <2>e. ErasuresTakeTheirOwn'
        BY <2>a, <2>b, <2>c, <1>t DEF IInv, ErasuresTakeTheirOwn
  <2> QED BY <1>t, <2>e, <2>1, <2>2, <2>3 DEF IInv
<1>9. ASSUME NEW p \in Purges, PurgeRows(p) PROVE IInv'
  <2>1. HandsAreCalled' /\ EntriesAreCalled' /\ ObjectsAreLinked' /\ SweepsAreLate'
        BY <1>9, <1>t DEF IInv, HandsAreCalled, EntriesAreCalled, ObjectsAreLinked,
            SweepsAreLate, PurgeRows, NoEntry
  <2>2. ReplacedAreGone' /\ PurgesAreLate' /\ PromptEntriesHaveBytes'
        BY <1>9, <1>t DEF IInv, ReplacedAreGone, PurgesAreLate, PromptEntriesHaveBytes,
            PurgeRows, NoEntry
  <2>3. OneCallRecords'
        BY <1>9, <1>t DEF IInv, OneCallRecords, HandsAreCalled, PurgeRows, NoEntry
  <2>e. ErasuresTakeTheirOwn'
        BY <1>9, <1>t DEF IInv, ErasuresTakeTheirOwn, PurgeRows, NoEntry
  <2> QED BY <1>t, <2>e, <2>1, <2>2, <2>3 DEF IInv
<1>10. ASSUME NEW w \in Workers, Abort(w) PROVE IInv'
  <2>1. HandsAreCalled' /\ EntriesAreCalled' /\ ObjectsAreLinked' /\ SweepsAreLate'
        BY <1>10, <1>t DEF IInv, HandsAreCalled, EntriesAreCalled, ObjectsAreLinked,
            SweepsAreLate, Abort
  <2>2. ReplacedAreGone' /\ PurgesAreLate' /\ PromptEntriesHaveBytes'
        BY <1>10, <1>t DEF IInv, ReplacedAreGone, PurgesAreLate, PromptEntriesHaveBytes, Abort
  <2>3. OneCallRecords' BY <1>10, <1>t DEF IInv, OneCallRecords, HandsAreCalled, Abort
  <2>e. ErasuresTakeTheirOwn'
        BY <1>10, <1>t DEF IInv, ErasuresTakeTheirOwn, Abort
  <2> QED BY <1>t, <2>e, <2>1, <2>2, <2>3 DEF IInv
<1>11. ASSUME NEW w \in Workers, NEW k \in Keys, DeleteDoomed(w, k) PROVE IInv'
  <2>1. HandsAreCalled' /\ EntriesAreCalled' /\ ObjectsAreLinked' /\ SweepsAreLate'
        BY <1>11, <1>t DEF IInv, HandsAreCalled, EntriesAreCalled, ObjectsAreLinked,
            SweepsAreLate, DeleteDoomed
  <2>2. ReplacedAreGone' /\ PurgesAreLate'
        BY <1>11, <1>t DEF IInv, ReplacedAreGone, PurgesAreLate, DeleteDoomed
  <2>3. OneCallRecords'
        BY <1>11, <1>t DEF IInv, HandsAreCalled, ObjectsAreLinked, SweepsAreLate,
            PurgesAreLate, OneCallRecords, DeleteDoomed
  <2>4. PromptEntriesHaveBytes'
        BY <1>11, <1>t DEF IInv, HandsAreCalled, EntriesAreCalled, SweepsAreLate,
            ReplacedAreGone, ErasuresTakeTheirOwn, PurgesAreLate, PromptEntriesHaveBytes,
            DeleteDoomed
  <2>e. ErasuresTakeTheirOwn'
        BY <1>11, <1>t DEF IInv, ErasuresTakeTheirOwn, DeleteDoomed
  <2> QED BY <1>t, <2>e, <2>1, <2>2, <2>3, <2>4 DEF IInv
<1>12. ASSUME Tick PROVE IInv'
  <2>1. HandsAreCalled' /\ EntriesAreCalled' /\ ObjectsAreLinked' /\ SweepsAreLate'
        BY <1>12, <1>t DEF IInv, HandsAreCalled, EntriesAreCalled, ObjectsAreLinked,
            SweepsAreLate, Tick
  <2>2. ReplacedAreGone' /\ PurgesAreLate' /\ PromptEntriesHaveBytes'
        BY <1>12, <1>t DEF IInv, ReplacedAreGone, PurgesAreLate, PromptEntriesHaveBytes, Tick
  <2>3. OneCallRecords' BY <1>12, <1>t DEF IInv, OneCallRecords, HandsAreCalled, Tick
  <2>e. ErasuresTakeTheirOwn'
        BY <1>12, <1>t DEF IInv, ErasuresTakeTheirOwn, Tick
  <2> QED BY <1>t, <2>e, <2>1, <2>2, <2>3 DEF IInv
<1>13. ASSUME UNCHANGED vars PROVE IInv'
  <2>1. HandsAreCalled' /\ EntriesAreCalled' /\ ObjectsAreLinked' /\ SweepsAreLate'
        BY <1>13, <1>t DEF IInv, HandsAreCalled, EntriesAreCalled, ObjectsAreLinked,
            SweepsAreLate, vars
  <2>2. ReplacedAreGone' /\ PurgesAreLate' /\ OneCallRecords' /\ PromptEntriesHaveBytes'
        BY <1>13, <1>t DEF IInv, ReplacedAreGone, PurgesAreLate, OneCallRecords,
            PromptEntriesHaveBytes, vars
  <2>e. ErasuresTakeTheirOwn'
        BY <1>13, <1>t DEF IInv, ErasuresTakeTheirOwn, vars
  <2> QED BY <1>t, <2>e, <2>1, <2>2 DEF IInv
<1>14. ASSUME NEW e \in Erasures, NEW a \in Accounts, RehearseErasure(e, a) PROVE IInv'
  <2> DEFINE D == {k \in Keys : EntryOf(k).key = k /\ EntryOf(k).by = a}
             t == [Idle EXCEPT !.op = "erasing", !.of = a, !.doomed = D]
  <2>a. t.op = "erasing" /\ t.of = a /\ t.doomed = D /\ t.prev = None /\ t.stale = {}
        OBVIOUS
  <2>b. /\ tx' = [tx EXCEPT ![e] = t] /\ account' = [account EXCEPT ![a] = "leaving"]
        /\ account[a] # "deactivated" /\ UNCHANGED <<now, link, put, bytes, entry, calls>>
        BY <1>14 DEF RehearseErasure
  <2>c. \A k \in D : /\ k \in Keys /\ EntryOf(k).key = k /\ EntryOf(k).by = a
                    /\ calls[k] > 0
        BY DEF IInv, EntriesAreCalled
  <2> HIDE DEF t, D
  <2>1. HandsAreCalled' BY <2>a, <2>b, <2>c, <1>t DEF IInv, HandsAreCalled
  <2>2. EntriesAreCalled' /\ ObjectsAreLinked' /\ SweepsAreLate'
        BY <2>a, <2>b, <1>t DEF IInv, EntriesAreCalled, ObjectsAreLinked, SweepsAreLate
  <2>3. ReplacedAreGone' /\ PurgesAreLate'
        BY <2>a, <2>b, <1>t DEF IInv, ReplacedAreGone, PurgesAreLate
  <2>4. ErasuresTakeTheirOwn' BY <2>a, <2>b, <2>c, <1>t DEF IInv, ErasuresTakeTheirOwn
  <2>5. OneCallRecords'
    <3>1. \A v \in Workers :
            /\ tx'[v].op = "recording" => tx'[v] = tx[v]
            /\ tx'[v].op \in {"superseding", "erasing"} => tx'[v] = tx[v] \/ tx'[v].doomed = D
            /\ tx'[v].prev \in {tx[v].prev, None}
            /\ tx[v].op = "recording" => tx[v].key \in Keys
          BY <2>a, <2>b DEF IInv, HandsAreCalled
    <3>2. \A w \in Workers :
            tx[w].op = "recording" /\ calls[tx[w].key] = 1 => tx[w].key \notin D
          BY <2>c DEF IInv, OneCallRecords
    <3> QED BY <2>b, <3>1, <3>2 DEF IInv, OneCallRecords
  <2>6. PromptEntriesHaveBytes'
        BY <2>b, <1>t DEF IInv, EntriesAreCalled, PromptEntriesHaveBytes
  <2> QED BY <1>t, <2>1, <2>2, <2>3, <2>4, <2>5, <2>6 DEF IInv
<1>15. ASSUME NEW e \in Erasures, EraseRows(e) PROVE IInv'
  <2> DEFINE a == tx[e].of
  <2>a. /\ a \in Accounts /\ Erased \notin Keys /\ Erased # None
        BY <1>15 DEF IInv, ErasuresTakeTheirOwn, EraseRows
  <2>b. /\ tx' = [tx EXCEPT ![e] = Idle]
        /\ account' = [account EXCEPT ![a] = "deactivated"]
        /\ UNCHANGED <<now, link, put, bytes, calls>>
        BY <1>15 DEF EraseRows
  <2>c. \A r \in Registrations :
          /\ entry'[r].by = entry[r].by /\ entry'[r].recorded = entry[r].recorded
          /\ entry'[r].final = entry[r].final
          /\ entry[r].by = a => entry'[r].key = Erased
          /\ entry[r].by # a => entry'[r].key = entry[r].key
        BY <1>15 DEF EraseRows
  <2>d. \A k \in Keys : /\ EntryOf(k)'.key = k => EntryOf(k).key = k
                       /\ EntryOf(k)'.by = EntryOf(k).by
                       /\ EntryOf(k)'.recorded = EntryOf(k).recorded
        BY <2>a, <2>c
  <2> HIDE DEF a
  <2>1. HandsAreCalled' BY <2>b, <1>t DEF IInv, HandsAreCalled
  <2>2. EntriesAreCalled' BY <2>a, <2>b, <2>c, <1>t DEF IInv, EntriesAreCalled
  <2>3. ObjectsAreLinked' BY <2>b, <1>t DEF IInv, ObjectsAreLinked
  <2>4. SweepsAreLate' BY <2>b, <2>d, <1>t DEF IInv, SweepsAreLate
  <2>5. ReplacedAreGone' BY <2>b, <2>d, <1>t DEF IInv, ReplacedAreGone
  <2>6. PurgesAreLate'
    <3>1. \A r \in Registrations : InTime(r)' <=> InTime(r) BY <2>c
    <3>2. \A w \in Workers : /\ tx'[w].op = "purging" => tx'[w] = tx[w]
                             /\ tx[w].doomed \subseteq Keys
                             /\ tx[w].stale \subseteq Registrations
          BY <2>b DEF IInv
    <3>3. \A r \in Registrations : entry'[r].key \in Keys => entry'[r].key = entry[r].key
          BY <2>a, <2>c
    <3> QED BY <2>b, <3>1, <3>2, <3>3 DEF IInv, PurgesAreLate
  <2>7. ErasuresTakeTheirOwn' BY <2>b, <2>d, <1>t DEF IInv, ErasuresTakeTheirOwn
  <2>8. OneCallRecords'
    <3>1. \A v \in Workers : /\ tx'[v].op = "recording" => tx'[v] = tx[v]
                             /\ tx'[v].op \in {"superseding", "erasing"} => tx'[v] = tx[v]
                             /\ tx'[v].prev \in {tx[v].prev, None}
                             /\ tx[v].op = "recording" => tx[v].key \in Keys
          BY <2>b DEF IInv, HandsAreCalled
    <3> QED BY <2>b, <2>d, <3>1 DEF IInv, OneCallRecords
  <2>9. PromptEntriesHaveBytes'
        BY <2>a, <2>b, <2>c, <1>t DEF IInv, PromptEntriesHaveBytes
  <2> QED BY <1>t, <2>1, <2>2, <2>3, <2>4, <2>5, <2>6, <2>7, <2>8, <2>9 DEF IInv
<1> QED BY <1>1, <1>2, <1>3, <1>4, <1>5, <1>6, <1>7, <1>8, <1>9, <1>10, <1>11, <1>12, <1>13, <1>14,
           <1>15 DEF Next

LEMMA InvariantHolds == Spec => []IInv
<1>1. IInv /\ [Next]_vars => IInv' BY InvariantIsInductive
<1> QED BY InitIsSound, <1>1, PTL DEF Spec

\* The tables, the bucket and the handlers keep their types.
THEOREM SubmissionTypeCorrect == Spec => []TypeOK
<1>1. IInv => TypeOK BY DEF IInv
<1> QED BY InvariantHolds, <1>1, PTL

\* A file recorded in time by one call keeps its bytes while its entry may count.
THEOREM PromptUploadsKeepTheirBytes == Spec => []PromptEntriesHaveBytes
<1>1. IInv => PromptEntriesHaveBytes BY DEF IInv
<1> QED BY InvariantHolds, <1>1, PTL

\* No handler replaces or reopens a finalized entry.  The step that deactivates the
\* account that recorded it blanks it, and a purge takes one only if it was finalized in
\* the days of the purge.
THEOREM FinalizedEntriesAreLocked == Spec => FinalizedIsLocked
<1>1. IInv /\ [Next]_vars =>
        [\A r \in Registrations :
           entry[r].final # 0 =>
             \/ entry'[r] = entry[r]
             \/ /\ entry'[r] = [entry[r] EXCEPT !.key = Erased]
                /\ account[entry[r].by] # "deactivated"
                /\ account'[entry[r].by] = "deactivated"
             \/ entry[r].final >= PurgeFrom /\ entry'[r] = NoEntry]_vars
  <2> SUFFICES ASSUME IInv, Next, NEW r \in Registrations, entry[r].final # 0
               PROVE  \/ entry'[r] = entry[r]
                      \/ /\ entry'[r] = [entry[r] EXCEPT !.key = Erased]
                         /\ account[entry[r].by] # "deactivated"
                         /\ account'[entry[r].by] = "deactivated"
                      \/ entry[r].final >= PurgeFrom /\ entry'[r] = NoEntry
      OBVIOUS
  <2> USE SubmissionsAssumption DEF IInv, TypeOK, SubmissionRows, Transactions, Times, Workers
  <2>1. CASE \E u \in Requests : RecordCommit(u)
    <3> PICK u \in Requests : RecordCommit(u) BY <2>1
    <3>1. tx[u].key \in Keys BY DEF HandsAreCalled, RecordCommit
    <3>2. KeyRegistration[tx[u].key] # r BY <3>1 DEF RecordCommit, EntryOf
    <3> QED BY <3>1, <3>2 DEF RecordCommit
  <2>2. CASE \E u \in Requests, q \in Registrations : Finalize(u, q)
        BY <2>2 DEF Finalize, Unfinalized
  <2>3. CASE \E p \in Purges : PurgeRows(p)
    <3> PICK p \in Purges : PurgeRows(p) BY <2>3
    <3>1. CASE r \in tx[p].stale
      <4>1. entry[r].final \notin 1 .. PurgeFrom - 1
            BY <3>1 DEF PurgesAreLate, InTime, PurgeRows
      <4> QED BY <3>1, <4>1 DEF PurgeRows
    <3>2. CASE r \notin tx[p].stale BY <3>2 DEF PurgeRows
    <3> QED BY <3>1, <3>2
  <2>4. CASE \E e \in Erasures : EraseRows(e)
    <3> PICK e \in Erasures : EraseRows(e) BY <2>4
    <3>1. tx[e].of \in Accounts BY DEF ErasuresTakeTheirOwn, EraseRows
    <3>2. CASE entry[r].by = tx[e].of BY <3>1, <3>2 DEF EraseRows
    <3>3. CASE entry[r].by # tx[e].of BY <3>3 DEF EraseRows
    <3> QED BY <3>2, <3>3
  <2>5. CASE UNCHANGED entry BY <2>5
  <2> QED BY <2>1, <2>2, <2>3, <2>4, <2>5
      DEF Next, GrantLink, PutFile, RecordCheck, RefuseFile, AnswerRequest, PurgeRead,
          RehearseErasure, DeleteDoomed, Abort, Tick
<1> QED BY InvariantHolds, <1>1, PTL DEF Spec, FinalizedIsLocked

=============================================================================
