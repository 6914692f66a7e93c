---------------------------- MODULE RawRecorder ----------------------------
(***************************************************************************)
(* RawRecorder.store as run by several collector processes that share one  *)
(* PostgreSQL catalog and one data directory.  A call writes its payload   *)
(* file first and inserts the catalog row second; the unique constraint on *)
(* (source, dataset, dedupe_key) decides which call is canonical, and the  *)
(* loser removes its own file and checks the canonical one.                *)
(*                                                                         *)
(* A payload stands for its sha256 checksum (no collisions).  A file is    *)
(* named by the uuid4 record id of its call, so no two calls share one.    *)
(* The row's other columns are functions of the call and are left out.     *)
(***************************************************************************)
EXTENDS FiniteSets, Naturals

CONSTANTS
    Collectors, Keys, Payloads,
    Ids,          \* raw_record_id values, and so storage paths
    None,         \* no row, no file, no value
    Partial,      \* content of a gzip file that is not closed yet
    Faults,       \* the failures that can happen, from FaultKinds
    MaxOrphans    \* bound: files that crashes may leave behind

\* "crash"  : a collector process dies.
\* "disk"   : mkdir, open or write of the payload file raises.
\* "db"     : a statement or the commit raises and the server rolled back.
\* "ack"    : the commit raises although the server committed.
FaultKinds == {"crash", "disk", "db", "ack"}

\* A row of raw_record_catalog.
Rows == [id : Ids, payload : Payloads]

ASSUME SentinelAssumption ==
    /\ None \notin Keys \cup Payloads \cup Ids \cup Rows
    /\ Partial \notin Payloads \cup {None}
ASSUME FaultsAssumption == Faults \subseteq FaultKinds
ASSUME MaxOrphansAssumption == MaxOrphans \in Nat

VARIABLES
    catalog,      \* committed rows of raw_record_catalog, by key
    files,        \* content of <id>.json.gz, or None
    call,         \* the current or last store() call of each collector
    orphans,      \* history: ids whose file a crash left behind
    unacked       \* history: ids of rows whose commit was not acknowledged

history == <<orphans, unacked>>
vars == <<catalog, files, call, history>>

\* Where a call stands between the statements of store(), and how it ended.
Running == {"writing", "written", "inserted", "losing", "verifying", "aborting"}
Ended   == {"stored", "duplicate", "conflict", "unreadable", "failed"}

NoCall == [pc |-> "idle", key |-> None, payload |-> None, id |-> None, seen |-> None]

Calls == [pc : Running \cup Ended, key : Keys, payload : Payloads, id : Ids,
          seen : Rows \cup {None}]

TypeOK ==
    /\ catalog \in [Keys -> Rows \cup {None}]
    /\ files \in [Ids -> Payloads \cup {None, Partial}]
    /\ call \in [Collectors -> Calls \cup {NoCall}]
    /\ {orphans, unacked} \subseteq SUBSET Ids

Init ==
    /\ catalog = [k \in Keys |-> None]
    /\ files = [i \in Ids |-> None]
    /\ call = [c \in Collectors |-> NoCall]
    /\ orphans = {}
    /\ unacked = {}

-----------------------------------------------------------------------------

Busy(c) == call[c].pc \in Running

Catalogued(i) == \E k \in Keys : catalog[k] # None /\ catalog[k].id = i

\* uuid4 never returns an id that is still in use anywhere.
Fresh(i) ==
    /\ files[i] = None
    /\ ~Catalogued(i)
    /\ \A c \in Collectors : Busy(c) => call[c].id # i

\* Call c moves on to pc; Unlink removes its file (missing_ok=True).
Goto(c, pc) == call' = [call EXCEPT ![c].pc = pc]
Unlink(c) == files' = [files EXCEPT ![call[c].id] = None]

\* Mutant: the call goes on without its payload.
BeginWithoutPayload(c, k, p, i) ==
    /\ ~Busy(c)
    /\ Fresh(i)
    /\ files' = [files EXCEPT ![i] = Partial]
    /\ call' = [call EXCEPT ![c] =
                  [pc |-> "writing", key |-> k, payload |-> None, id |-> i, seen |-> None]]
    /\ UNCHANGED <<catalog, history>>

\* store() up to gzip.open(path, "xb"), which creates an empty file.
Begin(c, k, p, i) ==
    /\ ~Busy(c)
    /\ Fresh(i)
    /\ files' = [files EXCEPT ![i] = Partial]
    /\ call' = [call EXCEPT ![c] =
                  [pc |-> "writing", key |-> k, payload |-> p, id |-> i, seen |-> None]]
    /\ UNCHANGED <<catalog, history>>

\* Mutant: the row is inserted before the gzip stream is closed.
WriteFileUnflushed(c) ==
    /\ call[c].pc = "writing"
    /\ Goto(c, "written")
    /\ UNCHANGED <<catalog, files, history>>

\* fh.write(payload) and the close that completes the gzip stream.
WriteFile(c) ==
    /\ call[c].pc = "writing"
    /\ files' = [files EXCEPT ![call[c].id] = call[c].payload]
    /\ Goto(c, "written")
    /\ UNCHANGED <<catalog, history>>

\* _write_payload_file: whatever raises, the file is unlinked and the call fails.
WriteFails(c) ==
    /\ "disk" \in Faults
    /\ call[c].pc = "writing"
    /\ Unlink(c)
    /\ Goto(c, "failed")
    /\ UNCHANGED <<catalog, history>>

\* Mutant: no unique constraint, as before migration 0002.
NeverBlocked(c) == FALSE

\* Another transaction holds an uncommitted row of the same key: INSERT waits.
Blocked(c) ==
    \E d \in Collectors : call[d].pc = "inserted" /\ call[d].key = call[c].key

\* INSERT ... ON CONFLICT DO NOTHING returned the new id.
Insert(c) ==
    /\ call[c].pc = "written"
    /\ ~Blocked(c)
    /\ catalog[call[c].key] = None
    /\ Goto(c, "inserted")
    /\ UNCHANGED <<catalog, files, history>>

\* It returned nothing; the SELECT reads the committed row, which is never
\* deleted, and the read-only transaction ends.
LoseInsert(c) ==
    /\ call[c].pc = "written"
    /\ catalog[call[c].key] # None
    /\ call' = [call EXCEPT ![c].pc = "losing", ![c].seen = catalog[call[c].key]]
    /\ UNCHANGED <<catalog, files, history>>

\* The row that the open transaction of c makes visible when it commits.
Publish(c) ==
    catalog' = [catalog EXCEPT ![call[c].key] =
                  [id |-> call[c].id, payload |-> call[c].payload]]

Commit(c) ==
    /\ call[c].pc = "inserted"
    /\ Publish(c)
    /\ Goto(c, "stored")
    /\ UNCHANGED <<files, history>>

\* A statement or the commit raises: nothing was committed.
TxnFails(c) ==
    /\ "db" \in Faults
    /\ call[c].pc \in {"written", "inserted"}
    /\ Goto(c, "aborting")
    /\ UNCHANGED <<catalog, files, history>>

\* The server commits and the connection breaks before the answer arrives:
\* for the code this is the same exception as TxnFails.
CommitAckLost(c) ==
    /\ "ack" \in Faults
    /\ call[c].pc = "inserted"
    /\ Publish(c)
    /\ unacked' = unacked \cup {call[c].id}
    /\ Goto(c, "aborting")
    /\ UNCHANGED <<files, orphans>>

\* Mutant: the exception is re-raised without the unlink.
CleanUpKeepsFile(c) ==
    /\ call[c].pc = "aborting"
    /\ Goto(c, "failed")
    /\ UNCHANGED <<catalog, files, history>>

\* except Exception: unlink the candidate file and re-raise.
CleanUp(c) ==
    /\ call[c].pc = "aborting"
    /\ Unlink(c)
    /\ Goto(c, "failed")
    /\ UNCHANGED <<catalog, history>>

\* Mutant: the path of the canonical record is unlinked instead.
DropCanonical(c) ==
    /\ call[c].pc = "losing"
    /\ files' = [files EXCEPT ![call[c].seen.id] = None]
    /\ Goto(c, "verifying")
    /\ UNCHANGED <<catalog, history>>

\* The candidate that lost is not in the catalog: its file goes at once.
DropCandidate(c) ==
    /\ call[c].pc = "losing"
    /\ Unlink(c)
    /\ Goto(c, "verifying")
    /\ UNCHANGED <<catalog, history>>

\* Mutant: every loser is told that it repeated the canonical payload.
VerifyWithoutComparing(c) ==
    /\ call[c].pc = "verifying"
    /\ Goto(c, IF files[call[c].seen.id] # call[c].seen.payload THEN "unreadable"
               ELSE "duplicate")
    /\ UNCHANGED <<catalog, files, history>>

\* Mutant: an unreadable canonical file is read again until it is there.
VerifyRetrying(c) ==
    /\ call[c].pc = "verifying"
    /\ files[call[c].seen.id] = call[c].seen.payload
    /\ Goto(c, IF call[c].seen.payload = call[c].payload THEN "duplicate" ELSE "conflict")
    /\ UNCHANGED <<catalog, files, history>>

\* _verify_stored_payload, then the outcome by comparing checksums.
Verify(c) ==
    /\ call[c].pc = "verifying"
    /\ LET canonical == call[c].seen
       IN  Goto(c, IF files[canonical.id] # canonical.payload THEN "unreadable"
                   ELSE IF canonical.payload = call[c].payload THEN "duplicate"
                   ELSE "conflict")
    /\ UNCHANGED <<catalog, files, history>>

\* The process dies; the server rolls back its open transaction, and no code
\* removes the file it had written.  A restarted process calls Begin again.
Crash(c) ==
    /\ "crash" \in Faults
    /\ Busy(c)
    /\ orphans' = orphans \cup {i \in {call[c].id} : files[i] # None /\ ~Catalogued(i)}
    /\ Cardinality(orphans') <= MaxOrphans
    /\ call' = [call EXCEPT ![c] = NoCall]
    /\ UNCHANGED <<catalog, files, unacked>>

-----------------------------------------------------------------------------

\* The steps of store() itself, without its failures.
Advance(c) ==
    \/ WriteFile(c)
    \/ Insert(c)
    \/ LoseInsert(c)
    \/ Commit(c)
    \/ CleanUp(c)
    \/ DropCandidate(c)
    \/ Verify(c)

Fault(c) == WriteFails(c) \/ TxnFails(c) \/ CommitAckLost(c) \/ Crash(c)

Next ==
    \E c \in Collectors :
        \/ \E k \in Keys, p \in Payloads, i \in Ids : Begin(c, k, p, i)
        \/ Advance(c)
        \/ Fault(c)

Spec == Init /\ [][Next]_vars

\* A process that runs keeps running, and PostgreSQL wakes the waiters of a
\* transaction that ended, so an INSERT is not passed over for ever.
Fairness ==
    \A c \in Collectors : WF_vars(Advance(c)) /\ SF_vars(Insert(c))

FairSpec == Spec /\ Fairness

-----------------------------------------------------------------------------

\* Every row whose commit was acknowledged has its payload file, complete and with
\* the content whose checksum the row holds: a file is linked from the catalog
\* only after it is complete, and no failing or losing call removes it.
CanonicalReadable ==
    \A k \in Keys :
        catalog[k] # None /\ catalog[k].id \notin unacked =>
            files[catalog[k].id] = catalog[k].payload

\* The catalog is append-only: a committed row is never replaced, whoever else
\* inserts the same key at the same time.
CanonicalKept ==
    [][\A k \in Keys : catalog[k] # None => catalog'[k] = catalog[k]]_vars

\* A payload file is canonical, or belongs to a call that is still running, or
\* was left by a crash: conflicts and errors leave no duplicate files behind.
FilesAccountedFor ==
    \A i \in Ids :
        files[i] # None =>
            \/ Catalogued(i)
            \/ i \in orphans
            \/ \E c \in Collectors : Busy(c) /\ call[c].id = i

\* Storing what is already there is a silent idempotent skip: no call finds the
\* canonical file of its key missing or different from its row.
RedeliveryNeverFails == \A c \in Collectors : call[c].pc # "unreadable"

\* It is one whenever the commit of the canonical row was acknowledged.
AckedRedeliveryNeverFails ==
    \A c \in Collectors : call[c].pc = "unreadable" => call[c].seen.id \in unacked

\* Every call of store() returns or raises, also one that waits for the
\* transaction of another collector, unless its process crashes.
EveryCallReturns == \A c \in Collectors : Busy(c) ~> ~Busy(c)

(***************************************************************************)
(* RawRecorder implements CanonicalStore.  The canonical payload of a key  *)
(* is the one of its committed row; a call is settled when it commits or,  *)
(* for a loser, when it has verified the canonical file; a call that is    *)
(* cleaning up has already failed.                                         *)
(***************************************************************************)
StatusOf(pc) ==
    IF pc \in {"aborting", "unreadable"} THEN "failed"
    ELSE IF pc \in Running THEN "open" ELSE pc

CanonOf ==
    [k \in Keys |-> IF catalog[k] = None THEN None ELSE catalog[k].payload]

RequestOf ==
    [c \in Collectors |->
        [status |-> StatusOf(call[c].pc), key |-> call[c].key, payload |-> call[c].payload]]

Canon == INSTANCE CanonicalStore WITH canon <- CanonOf, request <- RequestOf

\* store() is CanonicalStore for its collectors, under every fault.
ImplementsCanonicalStore == Canon!Spec

\* What a collector was told stays true: "stored" and "duplicate" of the payload
\* that is canonical, "conflict" of another one, whatever the others do later.
VerdictsStand == Canon!VerdictsHold

=============================================================================
