--------------------------- MODULE CanonicalStore ---------------------------
(***************************************************************************)
(* What the raw catalog promises to the collectors that write to it: for a *)
(* dedupe key the first payload settled is the canonical one for good, and *)
(* every later request for the key is told whether it repeated that        *)
(* payload (a duplicate) or contradicted it (a conflict).  A request may   *)
(* fail, and one that fails may still have taken effect.  A collector may  *)
(* vanish at any time.                                                     *)
(*                                                                         *)
(* RawRecorder implements this module; H1Collection uses its operators for *)
(* the calls it makes.                                                     *)
(***************************************************************************)

CONSTANTS
    Collectors,   \* processes that store raw records
    Keys,         \* (source, dataset, dedupe_key) triples
    Payloads,     \* payloads, told apart by their checksums
    None          \* no payload, no key

\* What the users of this module assume of their constants.
NoneIsApart == None \notin Keys \cup Payloads

VARIABLES
    canon,        \* canon[k]: the canonical payload of key k, or None
    request       \* request[c]: the last request of collector c and its verdict

vars == <<canon, request>>

Verdicts == {"stored", "duplicate", "conflict", "failed"}

NoRequest == [status |-> "idle", key |-> None, payload |-> None]

Requests == [status : {"open"} \cup Verdicts, key : Keys, payload : Payloads]

TypeOK ==
    /\ canon \in [Keys -> Payloads \cup {None}]
    /\ request \in [Collectors -> Requests \cup {NoRequest}]

\* Storing payload p under key k: the table afterwards, and the verdict.

Put(table, k, p) == IF table[k] = None THEN [table EXCEPT ![k] = p] ELSE table

Verdict(table, k, p) ==
    IF table[k] = None THEN "stored"
    ELSE IF table[k] = p THEN "duplicate" ELSE "conflict"

-----------------------------------------------------------------------------

Init ==
    /\ canon = [k \in Keys |-> None]
    /\ request = [c \in Collectors |-> NoRequest]

Ask(c, k, p) ==
    /\ request[c].status # "open"
    /\ request' = [request EXCEPT ![c] = [status |-> "open", key |-> k, payload |-> p]]
    /\ UNCHANGED canon

Settle(c) ==
    /\ request[c].status = "open"
    /\ canon' = Put(canon, request[c].key, request[c].payload)
    /\ request' = [request EXCEPT ![c].status =
                        Verdict(canon, request[c].key, request[c].payload)]

\* A failure does not tell the collector whether its payload was settled.
Fail(c) ==
    /\ request[c].status = "open"
    /\ request' = [request EXCEPT ![c].status = "failed"]
    /\ \/ UNCHANGED canon
       \/ canon' = Put(canon, request[c].key, request[c].payload)

Vanish(c) ==
    /\ request[c] # NoRequest
    /\ request' = [request EXCEPT ![c] = NoRequest]
    /\ UNCHANGED canon

Next ==
    \E c \in Collectors :
        \/ \E k \in Keys, p \in Payloads : Ask(c, k, p)
        \/ Settle(c)
        \/ Fail(c)
        \/ Vanish(c)

Spec == Init /\ [][Next]_vars

-----------------------------------------------------------------------------

\* The payload settled first under a key stays its canonical payload.
FirstWriterWins ==
    [][\A k \in Keys : canon[k] # None => canon'[k] = canon[k]]_vars

\* A verdict stays true after it is given, whatever the other collectors do.
VerdictsHold ==
    \A c \in Collectors :
        LET r == request[c]
        IN  /\ r.status \in {"stored", "duplicate"} => canon[r.key] = r.payload
            /\ r.status = "conflict" => canon[r.key] \notin {None, r.payload}

=============================================================================
