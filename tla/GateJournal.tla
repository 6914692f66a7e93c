----------------------------- MODULE GateJournal -----------------------------
(***************************************************************************)
(* The journal of gate decisions: reviewers record decisions, the command  *)
(* "gate seed" adds the confirmations shipped with the code, the backfills *)
(* read the latest decision of each gate.  Decisions are only added, each  *)
(* in a transaction of its own, and each carries the time its writer took  *)
(* before it was saved, so that the order of the times is not that of the  *)
(* inserts.                                                                *)
(*                                                                         *)
(* The content of a decision is its evidence, a member of a small set, and *)
(* its two times.  What the command prints after seeding is left out.      *)
(***************************************************************************)
EXTENDS Integers, Sequences, SequencesExt

CONSTANTS
    KnownGates,    \* GATE_DEFINITIONS
    SeedOrder,     \* _CONFIRMED_GATES in their order
    SeedUntil,     \* valid_until_utc of each
    Seeders,       \* processes that run "gate seed"
    Reviews,       \* bound: decisions a reviewer may take
    MaxReviews,    \* bound: decisions they take
    LastTick,      \* bound on the clock
    NoEvidence     \* a url, checksum, provider or conclusion that lacks

ASSUME SeedAssumption ==
    /\ SeedOrder \in Seq(KnownGates) /\ SeedUntil \in [ToSet(SeedOrder) -> Int]
    /\ {LastTick, MaxReviews} \subseteq Nat

VARIABLES
    journal,       \* gate_decision, in the order of the inserts
    gateClock,
    reviewed,      \* decisions taken by reviewers
    seeder         \* seeder[s]: where process s is

gateVars == <<journal, gateClock, reviewed, seeder>>

IdleSeeder == [phase |-> "off", stamp |-> 0, began |-> 0, existing |-> {}, at |-> 1]

GateInit ==
    /\ journal = <<>> /\ gateClock = 0 /\ reviewed = 0
    /\ seeder = [s \in Seeders |-> IdleSeeder]

-----------------------------------------------------------------------------

\* Mutant: the latest decision is the last one inserted.
LatestInserted(rows) ==
    {rows[i] : i \in {i \in DOMAIN rows :
        \A k \in DOMAIN rows : rows[k].gate = rows[i].gate => k <= i}}

\* load_all_decisions: of each gate the decision with the greatest time.
Latest(rows) ==
    {d \in ToSet(rows) : \A e \in ToSet(rows) : e.gate = d.gate => e.recorded <= d.recorded}

\* save_decision: the primary key refuses a second one of a gate and time.
Refused(rows, d) == \E e \in ToSet(rows) : e.gate = d.gate /\ e.recorded = d.recorded

\* _validate_confirmed_decision
ValidConfirmation(d) ==
    /\ d.evidence # NoEvidence
    /\ d.confirmed <= d.recorded
    /\ d.confirmed < d.until

\* load_gate_registry raises for an unknown gate or an invalid confirmation, of
\* whichever gate.
Loadable(rows) ==
    \A d \in Latest(rows) :
        d.gate \in KnownGates /\ (d.status = "CONFIRMED" => ValidConfirmation(d))

\* effective_status: a gate without a decision is unknown, and a confirmation
\* expires.
IsResolved(rows, gate, now) ==
    \E d \in Latest(rows) : d.gate = gate /\ d.status = "CONFIRMED" /\ now < d.until

\* assert_backfill_gates
BackfillGates == {"G-04", "G-06"}

GatesOpen(rows, now) == \A gate \in BackfillGates : IsResolved(rows, gate, now)

-----------------------------------------------------------------------------

Seeded(gate, stamp) ==
    [gate |-> gate, status |-> "CONFIRMED", evidence |-> "shipped", confirmed |-> 0,
     until |-> SeedUntil[gate], recorded |-> stamp]

\* Mutant: any confirmation is good enough.
SameStatus(d, e) == d.status = e.status

\* _same_confirmed_content: all but the time it was recorded.
SameContent(d, e) == [d EXCEPT !.recorded = 0] = [e EXCEPT !.recorded = 0]

\* The command starts and takes its time.
StartSeed(s) ==
    /\ seeder[s].phase = "off"
    /\ seeder' = [seeder EXCEPT ![s] = [@ EXCEPT !.phase = "load", !.stamp = gateClock,
                                                 !.began = Len(journal)]]
    /\ UNCHANGED <<journal, gateClock, reviewed>>

LoadExisting(s) ==
    /\ seeder[s].phase = "load"
    /\ seeder' = [seeder EXCEPT ![s].phase = "save", ![s].existing = Latest(journal)]
    /\ UNCHANGED <<journal, gateClock, reviewed>>

Current(s, d) == \E e \in seeder[s].existing : SameContent(e, d)

Ended(s, phase) ==
    seeder' = [seeder EXCEPT ![s] = [IdleSeeder EXCEPT !.phase = phase, !.began = seeder[s].began]]

\* One gate after the other: already current, inserted, or refused by the key.
SeedGate(s) ==
    /\ seeder[s].phase = "save" /\ seeder[s].at <= Len(SeedOrder)
    /\ LET d == Seeded(SeedOrder[seeder[s].at], seeder[s].stamp)
       IN  IF Current(s, d)
           THEN seeder' = [seeder EXCEPT ![s].at = @ + 1] /\ UNCHANGED journal
           ELSE IF Refused(journal, d)
           THEN Ended(s, "failed") /\ UNCHANGED journal
           ELSE seeder' = [seeder EXCEPT ![s].at = @ + 1] /\ journal' = Append(journal, d)
    /\ UNCHANGED <<gateClock, reviewed>>

EndSeed(s) ==
    /\ seeder[s].phase = "save" /\ seeder[s].at > Len(SeedOrder)
    /\ Ended(s, "done")
    /\ UNCHANGED <<journal, gateClock, reviewed>>

\* A process dies between two steps, or a command is given again.
RestartSeed(s) ==
    /\ seeder[s].phase # "off"
    /\ seeder' = [seeder EXCEPT ![s] = IdleSeeder]
    /\ UNCHANGED <<journal, gateClock, reviewed>>

Reviewed(review, stamp) ==
    [gate |-> review.gate, status |-> review.status, evidence |-> review.evidence,
     confirmed |-> review.confirmed, until |-> review.until, recorded |-> stamp]

\* A reviewer saves a decision, now or a moment after its time was taken.
RecordReview ==
    /\ reviewed < MaxReviews
    /\ \E review \in Reviews, stamp \in {gateClock, gateClock - 1} \cap Nat :
        /\ ~Refused(journal, Reviewed(review, stamp))
        /\ journal' = Append(journal, Reviewed(review, stamp))
    /\ reviewed' = reviewed + 1
    /\ UNCHANGED <<gateClock, seeder>>

GateTick ==
    /\ gateClock < LastTick
    /\ gateClock' = gateClock + 1
    /\ UNCHANGED <<journal, reviewed, seeder>>

GateNext ==
    \/ RecordReview
    \/ GateTick
    \/ \E s \in Seeders :
        StartSeed(s) \/ LoadExisting(s) \/ SeedGate(s) \/ EndSeed(s) \/ RestartSeed(s)

GateSpec == GateInit /\ [][GateNext]_gateVars

-----------------------------------------------------------------------------

\* When a seed command ends well, the latest decision of each of its gates is
\* the confirmation it ships, or one saved after the command took its time:
\* whatever it found, however often it or another one died halfway before.
SeedSettlesGates ==
    \A s \in Seeders : seeder[s].phase = "done" =>
        \A gate \in ToSet(SeedOrder) : \E d \in Latest(journal) :
            /\ d.gate = gate
            /\ \/ SameContent(d, Seeded(gate, 0))
               \/ \E i \in DOMAIN journal : i > seeder[s].began /\ journal[i] = d

=============================================================================
