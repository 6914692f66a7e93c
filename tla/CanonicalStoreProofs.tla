------------------------ MODULE CanonicalStoreProofs ------------------------
\* Theorems about the abstract store, for any sets of collectors, keys and
\* payloads.
EXTENDS CanonicalStore, TLAPS

\* Every reachable state of the abstract store is well typed.
THEOREM TypeCorrect == Spec => []TypeOK
<1>1. Init => TypeOK
  BY DEF Init, TypeOK, NoRequest
<1>2. TypeOK /\ [Next]_vars => TypeOK'
  <2> SUFFICES ASSUME TypeOK, [Next]_vars PROVE TypeOK'
    OBVIOUS
  <2> USE DEF TypeOK, Requests, Verdicts, NoRequest
  <2>1. CASE UNCHANGED vars
    BY <2>1 DEF vars
  <2>2. ASSUME NEW c \in Collectors, NEW k \in Keys, NEW p \in Payloads, Ask(c, k, p)
        PROVE  TypeOK'
    BY <2>2 DEF Ask
  <2>3. ASSUME NEW c \in Collectors, Settle(c) PROVE TypeOK'
    BY <2>3 DEF Settle, Put, Verdict
  <2>4. ASSUME NEW c \in Collectors, Fail(c) PROVE TypeOK'
    BY <2>4 DEF Fail, Put
  <2>5. ASSUME NEW c \in Collectors, Vanish(c) PROVE TypeOK'
    BY <2>5 DEF Vanish
  <2>6. QED
    BY <2>1, <2>2, <2>3, <2>4, <2>5 DEF Next
<1>3. QED
  BY <1>1, <1>2, PTL DEF Spec

\* A canonical payload is never replaced: no step of the store changes it.
THEOREM FirstWriterWinsTheorem == Spec => FirstWriterWins
<1>1. TypeOK /\ [Next]_vars
        => [\A k \in Keys : canon[k] # None => canon'[k] = canon[k]]_vars
  <2> SUFFICES ASSUME TypeOK, [Next]_vars, NEW k \in Keys, canon[k] # None
               PROVE  canon'[k] = canon[k]
    BY DEF vars
  <2>1. ASSUME NEW c \in Collectors, request[c].status = "open",
               canon' = Put(canon, request[c].key, request[c].payload)
        PROVE  canon'[k] = canon[k]
    BY <2>1 DEF TypeOK, Put, Requests, NoRequest
  <2>2. QED
    BY <2>1 DEF Next, vars, Ask, Settle, Fail, Vanish
<1>2. QED
  BY <1>1, TypeCorrect, PTL DEF Spec, FirstWriterWins

\* A verdict given to a collector stays true.
THEOREM VerdictsHoldTheorem == NoneIsApart => (Spec => []VerdictsHold)
<1> SUFFICES ASSUME NoneIsApart PROVE Spec => []VerdictsHold
  OBVIOUS
<1>1. Init => VerdictsHold
  <2> SUFFICES ASSUME Init, NEW c \in Collectors PROVE request[c].status = "idle"
    BY DEF VerdictsHold
  <2> QED
    BY DEF Init, NoRequest
<1>2. TypeOK /\ VerdictsHold /\ [Next]_vars => VerdictsHold'
  <2> SUFFICES ASSUME TypeOK, VerdictsHold, [Next]_vars PROVE VerdictsHold'
    OBVIOUS
  <2> USE NoneIsApart DEF NoneIsApart, TypeOK, VerdictsHold, Requests, Verdicts, NoRequest
  <2>1. CASE UNCHANGED vars
    BY <2>1 DEF vars
  <2>2. ASSUME NEW c \in Collectors, NEW k \in Keys, NEW p \in Payloads, Ask(c, k, p)
        PROVE  VerdictsHold'
    BY <2>2 DEF Ask
  <2>3. ASSUME NEW c \in Collectors, Settle(c) PROVE VerdictsHold'
    BY <2>3 DEF Settle, Put, Verdict
  <2>4. ASSUME NEW c \in Collectors, Fail(c) PROVE VerdictsHold'
    BY <2>4 DEF Fail, Put
  <2>5. ASSUME NEW c \in Collectors, Vanish(c) PROVE VerdictsHold'
    BY <2>5 DEF Vanish
  <2>6. QED
    BY <2>1, <2>2, <2>3, <2>4, <2>5 DEF Next
<1>3. QED
  BY <1>1, <1>2, TypeCorrect, PTL DEF Spec

=============================================================================
