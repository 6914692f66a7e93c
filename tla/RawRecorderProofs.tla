------------------------- MODULE RawRecorderProofs -------------------------
(***************************************************************************)
(* Theorems about RawRecorder, for any sets of collectors, keys, payloads  *)
(* and ids, any faults and any bound on the files crashes leave.           *)
(***************************************************************************)
EXTENDS RawRecorder, TLAPS

\* Every reachable state is well typed.
THEOREM TypeCorrect == Spec => []TypeOK
<1>1. Init => TypeOK
  BY DEF Init, TypeOK, NoCall
<1>2. TypeOK /\ [Next]_vars => TypeOK'
  <2> SUFFICES ASSUME TypeOK, [Next]_vars PROVE TypeOK'
    OBVIOUS
  <2> USE SentinelAssumption
      DEF TypeOK, Calls, NoCall, Rows, Running, Ended, Goto, Unlink, Publish, history
  <2>1. CASE UNCHANGED vars
    BY <2>1 DEF vars
  <2>2. ASSUME NEW c \in Collectors, NEW k \in Keys, NEW p \in Payloads,
               NEW i \in Ids, Begin(c, k, p, i)
        PROVE  TypeOK'
    BY <2>2 DEF Begin
  <2>3. ASSUME NEW c \in Collectors, WriteFile(c) PROVE TypeOK'
    BY <2>3 DEF WriteFile
  <2>4. ASSUME NEW c \in Collectors, WriteFails(c) PROVE TypeOK'
    BY <2>4 DEF WriteFails
  <2>5. ASSUME NEW c \in Collectors, Insert(c) PROVE TypeOK'
    BY <2>5 DEF Insert
  <2>6. ASSUME NEW c \in Collectors, LoseInsert(c) PROVE TypeOK'
    <3>1. call[c] \in Calls /\ catalog[call[c].key] \in Rows
      BY <2>6 DEF LoseInsert
    <3>2. [call[c] EXCEPT !.pc = "losing", !.seen = catalog[call[c].key]] \in Calls
      BY <3>1
    <3>3. call' = [call EXCEPT ![c] =
                     [call[c] EXCEPT !.pc = "losing", !.seen = catalog[call[c].key]]]
      BY <2>6 DEF LoseInsert
    <3>4. QED
      BY <2>6, <3>2, <3>3 DEF LoseInsert
  <2>7. ASSUME NEW c \in Collectors, Commit(c) PROVE TypeOK'
    BY <2>7 DEF Commit
  <2>8. ASSUME NEW c \in Collectors, TxnFails(c) PROVE TypeOK'
    BY <2>8 DEF TxnFails
  <2>9. ASSUME NEW c \in Collectors, CommitAckLost(c) PROVE TypeOK'
    BY <2>9 DEF CommitAckLost
  <2>10. ASSUME NEW c \in Collectors, CleanUp(c) PROVE TypeOK'
    BY <2>10 DEF CleanUp
  <2>11. ASSUME NEW c \in Collectors, DropCandidate(c) PROVE TypeOK'
    BY <2>11 DEF DropCandidate
  <2>12. ASSUME NEW c \in Collectors, Verify(c) PROVE TypeOK'
    BY <2>12 DEF Verify
  <2>13. ASSUME NEW c \in Collectors, Crash(c) PROVE TypeOK'
    BY <2>13 DEF Crash, Busy
  <2>14. QED
    BY <2>1, <2>2, <2>3, <2>4, <2>5, <2>6, <2>7, <2>8, <2>9, <2>10, <2>11,
       <2>12, <2>13 DEF Next, Advance, Fault
<1>3. QED
  BY <1>1, <1>2, PTL DEF Spec

-----------------------------------------------------------------------------
(***************************************************************************)
(* What the unique constraint gives.  At most one open transaction holds a *)
(* row of a key, it does so only while the key has no committed row, and   *)
(* the row a loser read is the canonical one from then on.                 *)
(***************************************************************************)
OneWriterPerKey ==
    \A c, d \in Collectors :
        /\ call[c].pc = "inserted"
        /\ call[d].pc = "inserted"
        /\ call[c].key = call[d].key
        => c = d

WriterHasFreeKey ==
    \A c \in Collectors : call[c].pc = "inserted" => catalog[call[c].key] = None

LoserSawCanonical ==
    \A c \in Collectors :
        call[c].pc \in {"losing", "verifying"} =>
            call[c].seen # None /\ call[c].seen = catalog[call[c].key]

TxnInv == OneWriterPerKey /\ WriterHasFreeKey /\ LoserSawCanonical

\* TxnInv is an invariant, whatever faults occur.
THEOREM TxnCorrect == Spec => []TxnInv
<1>1. Init => TxnInv
  BY DEF Init, NoCall, TxnInv, OneWriterPerKey, WriterHasFreeKey, LoserSawCanonical
<1>2. TypeOK /\ TxnInv /\ [Next]_vars => TxnInv'
  <2> SUFFICES ASSUME TypeOK, TxnInv, [Next]_vars PROVE TxnInv'
    OBVIOUS
  <2> USE SentinelAssumption
      DEF TxnInv, OneWriterPerKey, WriterHasFreeKey, LoserSawCanonical,
          TypeOK, Calls, NoCall, Rows, Running, Ended, Goto, Unlink, Publish, Busy, history
  <2>1. CASE UNCHANGED vars
    BY <2>1 DEF vars
  <2>2. ASSUME NEW c \in Collectors, NEW k \in Keys, NEW p \in Payloads,
               NEW i \in Ids, Begin(c, k, p, i)
        PROVE  TxnInv'
    BY <2>2 DEF Begin
  <2>3. ASSUME NEW c \in Collectors, WriteFile(c) PROVE TxnInv'
    BY <2>3 DEF WriteFile
  <2>4. ASSUME NEW c \in Collectors, WriteFails(c) PROVE TxnInv'
    BY <2>4 DEF WriteFails
  <2>5. ASSUME NEW c \in Collectors, Insert(c) PROVE TxnInv'
    BY <2>5 DEF Insert, Blocked
  <2>6. ASSUME NEW c \in Collectors, LoseInsert(c) PROVE TxnInv'
    BY <2>6 DEF LoseInsert
  <2>7. ASSUME NEW c \in Collectors, Commit(c) PROVE TxnInv'
    BY <2>7 DEF Commit
  <2>8. ASSUME NEW c \in Collectors, TxnFails(c) PROVE TxnInv'
    BY <2>8 DEF TxnFails
  <2>9. ASSUME NEW c \in Collectors, CommitAckLost(c) PROVE TxnInv'
    BY <2>9 DEF CommitAckLost
  <2>10. ASSUME NEW c \in Collectors, CleanUp(c) PROVE TxnInv'
    BY <2>10 DEF CleanUp
  <2>11. ASSUME NEW c \in Collectors, DropCandidate(c) PROVE TxnInv'
    BY <2>11 DEF DropCandidate
  <2>12. ASSUME NEW c \in Collectors, Verify(c) PROVE TxnInv'
    BY <2>12 DEF Verify
  <2>13. ASSUME NEW c \in Collectors, Crash(c) PROVE TxnInv'
    BY <2>13 DEF Crash
  <2>14. QED
    BY <2>1, <2>2, <2>3, <2>4, <2>5, <2>6, <2>7, <2>8, <2>9, <2>10, <2>11,
       <2>12, <2>13 DEF Next, Advance, Fault
<1>3. QED
  BY <1>1, <1>2, TypeCorrect, PTL DEF Spec

-----------------------------------------------------------------------------
\* Two running calls never write to the same path, and a loser that verifies
\* has no file of its own any more.
RunningIdsDiffer ==
    \A c, d \in Collectors :
        Busy(c) /\ Busy(d) /\ call[c].id = call[d].id => c = d

DroppedFileGone ==
    \A c \in Collectors : call[c].pc = "verifying" => files[call[c].id] = None

IdInv == RunningIdsDiffer /\ DroppedFileGone

\* IdInv is an invariant, whatever faults occur.
THEOREM IdsCorrect == Spec => []IdInv
<1>1. Init => IdInv
  BY DEF Init, NoCall, IdInv, RunningIdsDiffer, DroppedFileGone, Busy, Running
<1>2. TypeOK /\ IdInv /\ [Next]_vars => IdInv'
  <2> SUFFICES ASSUME TypeOK, IdInv, [Next]_vars PROVE IdInv'
    OBVIOUS
  <2> USE SentinelAssumption
      DEF IdInv, RunningIdsDiffer, DroppedFileGone,
          TypeOK, Calls, NoCall, Rows, Running, Ended, Goto, Unlink, Publish, Busy, history
  <2>1. CASE UNCHANGED vars
    BY <2>1 DEF vars
  <2>2. ASSUME NEW c \in Collectors, NEW k \in Keys, NEW p \in Payloads,
               NEW i \in Ids, Begin(c, k, p, i)
        PROVE  IdInv'
    BY <2>2 DEF Begin, Fresh
  <2>3. ASSUME NEW c \in Collectors, WriteFile(c) PROVE IdInv'
    BY <2>3 DEF WriteFile
  <2>4. ASSUME NEW c \in Collectors, WriteFails(c) PROVE IdInv'
    BY <2>4 DEF WriteFails
  <2>5. ASSUME NEW c \in Collectors, Insert(c) PROVE IdInv'
    BY <2>5 DEF Insert
  <2>6. ASSUME NEW c \in Collectors, LoseInsert(c) PROVE IdInv'
    BY <2>6 DEF LoseInsert
  <2>7. ASSUME NEW c \in Collectors, Commit(c) PROVE IdInv'
    BY <2>7 DEF Commit
  <2>8. ASSUME NEW c \in Collectors, TxnFails(c) PROVE IdInv'
    BY <2>8 DEF TxnFails
  <2>9. ASSUME NEW c \in Collectors, CommitAckLost(c) PROVE IdInv'
    BY <2>9 DEF CommitAckLost
  <2>10. ASSUME NEW c \in Collectors, CleanUp(c) PROVE IdInv'
    BY <2>10 DEF CleanUp
  <2>11. ASSUME NEW c \in Collectors, DropCandidate(c) PROVE IdInv'
    BY <2>11 DEF DropCandidate
  <2>12. ASSUME NEW c \in Collectors, Verify(c) PROVE IdInv'
    BY <2>12 DEF Verify
  <2>13. ASSUME NEW c \in Collectors, Crash(c) PROVE IdInv'
    BY <2>13 DEF Crash
  <2>14. QED
    BY <2>1, <2>2, <2>3, <2>4, <2>5, <2>6, <2>7, <2>8, <2>9, <2>10, <2>11,
       <2>12, <2>13 DEF Next, Advance, Fault
<1>3. QED
  BY <1>1, <1>2, TypeCorrect, PTL DEF Spec

\* No payload file is left over by conflicts, duplicates, errors or lost
\* acknowledgements: only crashes leave one.
THEOREM FilesAccountedForTheorem == Spec => []FilesAccountedFor
<1>1. Init => FilesAccountedFor
  BY DEF Init, FilesAccountedFor
<1>2. TypeOK /\ TxnInv /\ IdInv /\ FilesAccountedFor /\ [Next]_vars
        => FilesAccountedFor'
  <2> SUFFICES ASSUME TypeOK, TxnInv, IdInv, FilesAccountedFor, [Next]_vars PROVE FilesAccountedFor'
    OBVIOUS
  <2> USE SentinelAssumption
      DEF FilesAccountedFor, Catalogued, TxnInv, WriterHasFreeKey,
          IdInv, DroppedFileGone,
          TypeOK, Calls, NoCall, Rows, Running, Ended, Goto, Unlink, Publish, Busy, history
  <2>1. CASE UNCHANGED vars
    BY <2>1 DEF vars
  <2>2. ASSUME NEW c \in Collectors, NEW k \in Keys, NEW p \in Payloads,
               NEW i \in Ids, Begin(c, k, p, i)
        PROVE  FilesAccountedFor'
    BY <2>2 DEF Begin
  <2>3. ASSUME NEW c \in Collectors, WriteFile(c) PROVE FilesAccountedFor'
    BY <2>3 DEF WriteFile
  <2>4. ASSUME NEW c \in Collectors, WriteFails(c) PROVE FilesAccountedFor'
    BY <2>4 DEF WriteFails
  <2>5. ASSUME NEW c \in Collectors, Insert(c) PROVE FilesAccountedFor'
    BY <2>5 DEF Insert
  <2>6. ASSUME NEW c \in Collectors, LoseInsert(c) PROVE FilesAccountedFor'
    BY <2>6 DEF LoseInsert
  <2>7. ASSUME NEW c \in Collectors, Commit(c) PROVE FilesAccountedFor'
    <3> SUFFICES ASSUME NEW i \in Ids, files[i] # None
                 PROVE  \/ Catalogued(i)'
                        \/ i \in orphans
                        \/ \E d \in Collectors : Busy(d)' /\ call'[d].id = i
      BY <2>7 DEF Commit
    <3>1. call[c].key \in Keys /\ catalog'[call[c].key] # None
            /\ catalog'[call[c].key].id = call[c].id
      BY <2>7 DEF Commit
    <3>2. CASE i = call[c].id
      BY <3>1, <3>2
    <3>3. ASSUME NEW k \in Keys, catalog[k] # None, catalog[k].id = i
          PROVE  Catalogued(i)'
      BY <2>7, <3>3 DEF Commit
    <3>4. ASSUME i # call[c].id, NEW d \in Collectors, Busy(d), call[d].id = i
          PROVE  Busy(d)' /\ call'[d].id = i
      BY <2>7, <3>4 DEF Commit
    <3>5. QED
      BY <3>2, <3>3, <3>4
  <2>8. ASSUME NEW c \in Collectors, TxnFails(c) PROVE FilesAccountedFor'
    BY <2>8 DEF TxnFails
  <2>9. ASSUME NEW c \in Collectors, CommitAckLost(c) PROVE FilesAccountedFor'
    BY <2>9 DEF CommitAckLost
  <2>10. ASSUME NEW c \in Collectors, CleanUp(c) PROVE FilesAccountedFor'
    BY <2>10 DEF CleanUp
  <2>11. ASSUME NEW c \in Collectors, DropCandidate(c) PROVE FilesAccountedFor'
    BY <2>11 DEF DropCandidate
  <2>12. ASSUME NEW c \in Collectors, Verify(c) PROVE FilesAccountedFor'
    BY <2>12 DEF Verify
  <2>13. ASSUME NEW c \in Collectors, Crash(c) PROVE FilesAccountedFor'
    BY <2>13 DEF Crash
  <2>14. QED
    BY <2>1, <2>2, <2>3, <2>4, <2>5, <2>6, <2>7, <2>8, <2>9, <2>10, <2>11,
       <2>12, <2>13 DEF Next, Advance, Fault
<1>3. QED
  BY <1>1, <1>2, TypeCorrect, TxnCorrect, IdsCorrect, PTL DEF Spec

\* A committed row stays as it is, whatever faults occur: the only writer of a
\* key found it free and has kept it from the others.
THEOREM CanonicalKeptTheorem == Spec => CanonicalKept
<1>1. TypeOK /\ TxnInv /\ [Next]_vars
        => [\A k \in Keys : catalog[k] # None => catalog'[k] = catalog[k]]_vars
  <2> SUFFICES ASSUME TypeOK, TxnInv, [Next]_vars, NEW k \in Keys, catalog[k] # None
               PROVE  catalog'[k] = catalog[k]
    BY DEF vars
  <2>1. ASSUME NEW c \in Collectors, call[c].pc = "inserted", Publish(c)
        PROVE  catalog'[k] = catalog[k]
    BY <2>1 DEF Publish, TypeOK, TxnInv, WriterHasFreeKey
  <2>2. QED
    BY <2>1 DEF Next, vars, Advance, Fault, Begin, WriteFile, WriteFails, Insert,
       LoseInsert, Commit, TxnFails, CommitAckLost, CleanUp, DropCandidate, Verify, Crash
<1>2. QED
  BY <1>1, TypeCorrect, TxnCorrect, PTL DEF Spec, CanonicalKept

-----------------------------------------------------------------------------
(***************************************************************************)
(* The files.  A candidate is complete before its row is inserted, and a   *)
(* path that some call may still unlink is in the catalog only if the      *)
(* commit of that call was not acknowledged.                               *)
(***************************************************************************)
CandidateComplete ==
    \A c \in Collectors :
        call[c].pc \in {"written", "inserted"} => files[call[c].id] = call[c].payload

RunningNotCatalogued ==
    \A c \in Collectors : Busy(c) /\ call[c].id \notin unacked => ~Catalogued(call[c].id)

FileInv ==
    CanonicalReadable /\ CandidateComplete /\ RunningNotCatalogued
        /\ AckedRedeliveryNeverFails

\* FileInv is an invariant, whatever faults occur.
THEOREM FilesCorrect == Spec => []FileInv
<1>1. Init => FileInv
  BY DEF Init, NoCall, FileInv, CanonicalReadable, CandidateComplete,
         RunningNotCatalogued, AckedRedeliveryNeverFails, Busy, Running
<1>2. TypeOK /\ TxnInv /\ IdInv /\ FileInv /\ [Next]_vars => FileInv'
  <2> SUFFICES ASSUME TypeOK, TxnInv, IdInv, FileInv, [Next]_vars PROVE FileInv'
    OBVIOUS
  <2> USE SentinelAssumption
      DEF FileInv, CanonicalReadable, CandidateComplete, RunningNotCatalogued,
          AckedRedeliveryNeverFails, Catalogued, TxnInv, WriterHasFreeKey, LoserSawCanonical,
          IdInv, RunningIdsDiffer,
          TypeOK, Calls, NoCall, Rows, Running, Ended, Goto, Unlink, Publish, Busy, history
  <2>1. CASE UNCHANGED vars
    BY <2>1 DEF vars
  <2>2. ASSUME NEW c \in Collectors, NEW k \in Keys, NEW p \in Payloads,
               NEW i \in Ids, Begin(c, k, p, i)
        PROVE  FileInv'
    BY <2>2 DEF Begin, Fresh
  <2>3. ASSUME NEW c \in Collectors, WriteFile(c) PROVE FileInv'
    BY <2>3 DEF WriteFile
  <2>4. ASSUME NEW c \in Collectors, WriteFails(c) PROVE FileInv'
    BY <2>4 DEF WriteFails
  <2>5. ASSUME NEW c \in Collectors, Insert(c) PROVE FileInv'
    BY <2>5 DEF Insert
  <2>6. ASSUME NEW c \in Collectors, LoseInsert(c) PROVE FileInv'
    BY <2>6 DEF LoseInsert
  <2>7. ASSUME NEW c \in Collectors, Commit(c) PROVE FileInv'
    BY <2>7 DEF Commit
  <2>8. ASSUME NEW c \in Collectors, TxnFails(c) PROVE FileInv'
    BY <2>8 DEF TxnFails
  <2>9. ASSUME NEW c \in Collectors, CommitAckLost(c) PROVE FileInv'
    BY <2>9 DEF CommitAckLost
  <2>10. ASSUME NEW c \in Collectors, CleanUp(c) PROVE FileInv'
    BY <2>10 DEF CleanUp
  <2>11. ASSUME NEW c \in Collectors, DropCandidate(c) PROVE FileInv'
    BY <2>11 DEF DropCandidate
  <2>12. ASSUME NEW c \in Collectors, Verify(c) PROVE FileInv'
    BY <2>12 DEF Verify
  <2>13. ASSUME NEW c \in Collectors, Crash(c) PROVE FileInv'
    BY <2>13 DEF Crash
  <2>14. QED
    BY <2>1, <2>2, <2>3, <2>4, <2>5, <2>6, <2>7, <2>8, <2>9, <2>10, <2>11,
       <2>12, <2>13 DEF Next, Advance, Fault
<1>3. QED
  BY <1>1, <1>2, TypeCorrect, TxnCorrect, IdsCorrect, PTL DEF Spec

\* A row whose commit was acknowledged always has its complete, matching payload
\* file, across crashes, errors and any interleaving of collectors.
THEOREM CanonicalReadableTheorem == Spec => []CanonicalReadable
BY FilesCorrect, PTL DEF FileInv

\* No call that repeats or contradicts such a row finds its payload unreadable.
THEOREM AckedRedeliveryTheorem == Spec => []AckedRedeliveryNeverFails
BY FilesCorrect, PTL DEF FileInv

\* Without lost acknowledgements no call ever does.
THEOREM RedeliveryTheorem ==
    ASSUME "ack" \notin Faults PROVE Spec => []RedeliveryNeverFails
<1>1. Init => unacked = {}
  BY DEF Init
<1>2. unacked = {} /\ [Next]_vars => (unacked = {})'
  BY DEF Next, vars, history, Advance, Fault, Begin, WriteFile, WriteFails, Insert,
     LoseInsert, Commit, TxnFails, CommitAckLost, CleanUp, DropCandidate, Verify, Crash
<1>3. unacked = {} /\ AckedRedeliveryNeverFails => RedeliveryNeverFails
  BY DEF AckedRedeliveryNeverFails, RedeliveryNeverFails
<1>4. QED
  BY <1>1, <1>2, <1>3, AckedRedeliveryTheorem, PTL DEF Spec

-----------------------------------------------------------------------------
(***************************************************************************)
(* Refinement.  A step of the recorder is a step of CanonicalStore, or it  *)
(* leaves the canonical table and the requests as they are.                *)
(***************************************************************************)
CanonUnchanged == CanonOf' = CanonOf /\ RequestOf' = RequestOf

\* What the next request of c must be for each kind of step.
LEMMA RequestStep ==
    ASSUME TypeOK, NEW c \in Collectors, NEW r,
           call' = [call EXCEPT ![c] = r]
    PROVE  RequestOf' = [RequestOf EXCEPT ![c] =
              [status |-> StatusOf(r.pc), key |-> r.key, payload |-> r.payload]]
BY DEF RequestOf, TypeOK, StatusOf

\* The row that becomes visible is what the abstract store puts for the request.
LEMMA PublishStep ==
    ASSUME TypeOK, NEW c \in Collectors, call[c] \in Calls,
           catalog[call[c].key] = None, Publish(c)
    PROVE  CanonOf' = Canon!Put(CanonOf, RequestOf[c].key, RequestOf[c].payload)
<1> USE SentinelAssumption
<1> DEFINE k == call[c].key
           row == [id |-> call[c].id, payload |-> call[c].payload]
<1>1. k \in Keys /\ row \in Rows /\ row # None
  BY DEF Calls, Rows
<1>2. catalog' = [catalog EXCEPT ![k] = row]
  BY DEF Publish
<1>3. CanonOf' = [CanonOf EXCEPT ![k] = call[c].payload]
  BY <1>1, <1>2 DEF CanonOf, TypeOK
<1>4. RequestOf[c].key = k /\ RequestOf[c].payload = call[c].payload
  BY DEF RequestOf
<1>5. CanonOf[k] = None
  BY <1>1 DEF CanonOf
<1>6. QED
  BY <1>3, <1>4, <1>5 DEF Canon!Put

\* Goto changes the status of the abstract request and nothing else of it.
LEMMA GotoStep ==
    ASSUME TypeOK, NEW c \in Collectors, call[c] \in Calls, NEW pc, Goto(c, pc)
    PROVE  RequestOf' = [RequestOf EXCEPT ![c].status = StatusOf(pc)]
<1>1. call' = [call EXCEPT ![c] = [call[c] EXCEPT !.pc = pc]]
  BY DEF Goto
<1>2. [call[c] EXCEPT !.pc = pc].pc = pc
        /\ [call[c] EXCEPT !.pc = pc].key = call[c].key
        /\ [call[c] EXCEPT !.pc = pc].payload = call[c].payload
  BY DEF Calls
<1>3. RequestOf' = [RequestOf EXCEPT ![c] =
         [status |-> StatusOf(pc), key |-> call[c].key, payload |-> call[c].payload]]
  BY <1>1, <1>2, RequestStep
<1>4. QED
  BY <1>3 DEF RequestOf

\* RequestOf is the function of its own values.
LEMMA RequestsAreAFunction == RequestOf = [c \in Collectors |-> RequestOf[c]]
BY DEF RequestOf

\* A step that moves a call on without ending it is invisible to the store.
LEMMA SilentStep ==
    ASSUME TypeOK, NEW c \in Collectors, call[c] \in Calls, NEW pc, Goto(c, pc),
           StatusOf(pc) = StatusOf(call[c].pc), catalog' = catalog
    PROVE  CanonUnchanged
<1>1. RequestOf' = [RequestOf EXCEPT ![c].status = StatusOf(pc)]
  BY GotoStep
<1>2. RequestOf[c] = [RequestOf[c] EXCEPT !.status = StatusOf(pc)]
  BY DEF RequestOf
<1>3. RequestOf' = [RequestOf EXCEPT ![c] = RequestOf[c]]
  BY <1>1, <1>2
<1>4. RequestOf' = RequestOf
  BY <1>3, RequestsAreAFunction
<1>5. CanonOf' = CanonOf
  BY DEF CanonOf
<1>6. QED
  BY <1>4, <1>5 DEF CanonUnchanged

\* RawRecorder implements CanonicalStore under every fault of FaultKinds.
THEOREM ImplementsCanonicalStoreTheorem == Spec => ImplementsCanonicalStore
<1>1. Init => Canon!Init
  BY DEF Init, NoCall, Canon!Init, Canon!NoRequest, CanonOf, RequestOf, StatusOf, Running
<1>2. TypeOK /\ TxnInv /\ [Next]_vars => [Canon!Next]_(Canon!vars)
  <2> SUFFICES ASSUME TypeOK, TxnInv, [Next]_vars
               PROVE  Canon!Next \/ CanonUnchanged
    BY DEF CanonUnchanged, Canon!vars
  <2> USE DEF Running, Ended
  <2>a. ASSUME NEW c \in Collectors, call[c].pc \in Running
        PROVE  /\ call[c] \in Calls
               /\ RequestOf[c].key = call[c].key
               /\ RequestOf[c].payload = call[c].payload
               /\ RequestOf[c].status = StatusOf(call[c].pc)
    BY <2>a DEF TypeOK, NoCall, RequestOf
  <2>1. CASE UNCHANGED vars
    BY <2>1 DEF vars, CanonUnchanged, CanonOf, RequestOf
  <2>2. ASSUME NEW c \in Collectors, NEW k \in Keys, NEW p \in Payloads,
               NEW i \in Ids, Begin(c, k, p, i)
        PROVE  Canon!Ask(c, k, p)
    <3>1. RequestOf' = [RequestOf EXCEPT ![c] = [status |-> "open", key |-> k, payload |-> p]]
      BY <2>2, RequestStep DEF Begin, StatusOf
    <3>2. RequestOf[c].status # "open"
      BY <2>2 DEF Begin, Busy, RequestOf, StatusOf, TypeOK, NoCall, Calls
    <3>3. CanonOf' = CanonOf
      BY <2>2 DEF Begin, CanonOf
    <3>4. QED
      BY <3>1, <3>2, <3>3 DEF Canon!Ask
  <2>3. ASSUME NEW c \in Collectors, WriteFile(c) PROVE CanonUnchanged
    BY <2>3, <2>a, SilentStep DEF WriteFile, StatusOf
  <2>4. ASSUME NEW c \in Collectors, Insert(c) PROVE CanonUnchanged
    BY <2>4, <2>a, SilentStep DEF Insert, StatusOf
  <2>5. ASSUME NEW c \in Collectors, CleanUp(c) PROVE CanonUnchanged
    BY <2>5, <2>a, SilentStep DEF CleanUp, StatusOf
  <2>6. ASSUME NEW c \in Collectors, DropCandidate(c) PROVE CanonUnchanged
    BY <2>6, <2>a, SilentStep DEF DropCandidate, StatusOf
  <2>7. ASSUME NEW c \in Collectors, LoseInsert(c) PROVE CanonUnchanged
    <3> DEFINE r == [call[c] EXCEPT !.pc = "losing", !.seen = catalog[call[c].key]]
    <3>1. call[c] \in Calls /\ RequestOf[c] = [status |-> "open", key |-> call[c].key,
                                              payload |-> call[c].payload]
      BY <2>7, <2>a DEF LoseInsert, StatusOf, RequestOf
    <3>2. call' = [call EXCEPT ![c] = r] /\ r.pc = "losing"
            /\ r.key = call[c].key /\ r.payload = call[c].payload
      BY <2>7, <3>1 DEF LoseInsert, Calls
    <3> HIDE DEF r
    <3>3. RequestOf' = [RequestOf EXCEPT ![c] =
             [status |-> StatusOf(r.pc), key |-> r.key, payload |-> r.payload]]
      BY <3>2, RequestStep
    <3>4. StatusOf(r.pc) = "open"
      BY <3>2 DEF StatusOf
    <3>5. RequestOf' = [RequestOf EXCEPT ![c] = RequestOf[c]]
      BY <3>1, <3>2, <3>3, <3>4
    <3>6. QED
      BY <2>7, <3>5, RequestsAreAFunction DEF LoseInsert, CanonUnchanged, CanonOf
  <2>8. ASSUME NEW c \in Collectors, WriteFails(c) PROVE Canon!Fail(c)
    <3>1. RequestOf' = [RequestOf EXCEPT ![c].status = "failed"] /\ RequestOf[c].status = "open"
      BY <2>8, <2>a, GotoStep DEF WriteFails, StatusOf
    <3>2. QED
      BY <2>8, <3>1 DEF WriteFails, Canon!Fail, CanonOf
  <2>9. ASSUME NEW c \in Collectors, TxnFails(c) PROVE Canon!Fail(c)
    <3>1. RequestOf' = [RequestOf EXCEPT ![c].status = "failed"] /\ RequestOf[c].status = "open"
      BY <2>9, <2>a, GotoStep DEF TxnFails, StatusOf
    <3>2. QED
      BY <2>9, <3>1 DEF TxnFails, Canon!Fail, CanonOf
  <2>10. ASSUME NEW c \in Collectors, CommitAckLost(c) PROVE Canon!Fail(c)
    <3>1. RequestOf' = [RequestOf EXCEPT ![c].status = "failed"] /\ RequestOf[c].status = "open"
      BY <2>10, <2>a, GotoStep DEF CommitAckLost, StatusOf
    <3>2. CanonOf' = Canon!Put(CanonOf, RequestOf[c].key, RequestOf[c].payload)
      BY <2>10, <2>a, PublishStep DEF CommitAckLost, TxnInv, WriterHasFreeKey
    <3>3. QED
      BY <3>1, <3>2 DEF Canon!Fail
  <2>11. ASSUME NEW c \in Collectors, Commit(c) PROVE Canon!Settle(c)
    <3>1. RequestOf' = [RequestOf EXCEPT ![c].status = "stored"] /\ RequestOf[c].status = "open"
      BY <2>11, <2>a, GotoStep DEF Commit, StatusOf
    <3>2. CanonOf' = Canon!Put(CanonOf, RequestOf[c].key, RequestOf[c].payload)
      BY <2>11, <2>a, PublishStep DEF Commit, TxnInv, WriterHasFreeKey
    <3>3. CanonOf[RequestOf[c].key] = None
      BY <2>11, <2>a DEF Commit, TxnInv, WriterHasFreeKey, CanonOf, Calls
    <3>4. QED
      BY <3>1, <3>2, <3>3 DEF Canon!Settle, Canon!Verdict
  <2>12. ASSUME NEW c \in Collectors, Verify(c) PROVE Canon!Settle(c) \/ Canon!Fail(c)
    <3> DEFINE k == call[c].key
               row == call[c].seen
    <3>1. call[c] \in Calls /\ RequestOf[c].status = "open"
      BY <2>12, <2>a DEF Verify, StatusOf
    <3>2. k \in Keys /\ row = catalog[k] /\ row \in Rows /\ row # None
      BY <2>12, <3>1 DEF Verify, TxnInv, LoserSawCanonical, Calls
    <3>3. CanonOf[k] = row.payload /\ row.payload # None /\ CanonOf' = CanonOf
      BY <2>12, <3>2, SentinelAssumption DEF Verify, CanonOf, Rows
    <3>4. Canon!Put(CanonOf, k, call[c].payload) = CanonOf
      BY <3>3 DEF Canon!Put
    <3>5. Canon!Verdict(CanonOf, k, call[c].payload) =
            IF row.payload = call[c].payload THEN "duplicate" ELSE "conflict"
      BY <3>3 DEF Canon!Verdict
    <3>6. CASE files[row.id] # row.payload
      <4>1. RequestOf' = [RequestOf EXCEPT ![c].status = "failed"]
        BY <2>12, <3>1, <3>6, GotoStep DEF Verify, StatusOf
      <4>2. QED
        BY <3>1, <3>3, <4>1 DEF Canon!Fail
    <3>7. CASE files[row.id] = row.payload
      <4>1. Goto(c, IF row.payload = call[c].payload THEN "duplicate" ELSE "conflict")
        BY <2>12, <3>7 DEF Verify
      <4>2. RequestOf' = [RequestOf EXCEPT ![c].status =
              IF row.payload = call[c].payload THEN "duplicate" ELSE "conflict"]
        BY <3>1, <4>1, GotoStep DEF StatusOf
      <4>3. QED
        BY <2>12, <2>a, <3>1, <3>3, <3>4, <3>5, <4>2 DEF Verify, Canon!Settle
    <3>8. QED
      BY <3>6, <3>7
  <2>13. ASSUME NEW c \in Collectors, Crash(c) PROVE Canon!Vanish(c)
    <3>1. RequestOf' = [RequestOf EXCEPT ![c] = Canon!NoRequest]
      BY <2>13, RequestStep DEF Crash, NoCall, StatusOf, Canon!NoRequest
    <3>2. RequestOf[c] # Canon!NoRequest
      BY <2>13, <2>a DEF Crash, Busy, StatusOf, Canon!NoRequest
    <3>3. QED
      BY <2>13, <3>1, <3>2 DEF Crash, Canon!Vanish, CanonOf
  <2>14. QED
    BY <2>1, <2>2, <2>3, <2>4, <2>5, <2>6, <2>7, <2>8, <2>9, <2>10, <2>11, <2>12, <2>13
       DEF Next, Advance, Fault, Canon!Next
<1>3. QED
  BY <1>1, <1>2, TypeCorrect, TxnCorrect, PTL
     DEF Spec, ImplementsCanonicalStore, Canon!Spec

\* So every verdict a collector got stays true (CanonicalStoreProofs).
CanonProofs == INSTANCE CanonicalStoreProofs WITH canon <- CanonOf, request <- RequestOf

THEOREM VerdictsStandTheorem == Spec => []VerdictsStand
<1>1. CanonProofs!NoneIsApart
  BY SentinelAssumption DEF CanonProofs!NoneIsApart
<1>2. CanonProofs!Spec => []CanonProofs!VerdictsHold
  BY <1>1, CanonProofs!VerdictsHoldTheorem
<1>3. Canon!Init <=> CanonProofs!Init
  BY DEF Canon!Init, Canon!NoRequest, CanonProofs!Init, CanonProofs!NoRequest
<1>4. [Canon!Next]_(Canon!vars) <=> [CanonProofs!Next]_(CanonProofs!vars)
  BY DEF Canon!Next, Canon!vars, Canon!Ask, Canon!Settle, Canon!Fail, Canon!Vanish,
         Canon!NoRequest, Canon!Put, Canon!Verdict,
         CanonProofs!Next, CanonProofs!vars, CanonProofs!Ask, CanonProofs!Settle,
         CanonProofs!Fail, CanonProofs!Vanish,
         CanonProofs!NoRequest, CanonProofs!Put, CanonProofs!Verdict
<1>5. Canon!VerdictsHold <=> CanonProofs!VerdictsHold
  BY DEF Canon!VerdictsHold, CanonProofs!VerdictsHold
<1>6. QED
  BY <1>2, <1>3, <1>4, <1>5, ImplementsCanonicalStoreTheorem, PTL
     DEF ImplementsCanonicalStore, VerdictsStand, Canon!Spec, CanonProofs!Spec

=============================================================================
