------------------------- MODULE RetryClientProofs -------------------------
(***************************************************************************)
(* Proofs about the retry loop for every set of callers and every retry   *)
(* budget: a retry never stores a mutation twice, and a call that reports *)
(* success had its mutation stored.                                       *)
(***************************************************************************)
EXTENDS RetryClient, FiniteSetTheorems, TLAPS

USE RetryAssumption

\* Where a caller's one stored mutation is: nowhere yet, or in the "ok"
\* response it is decoding, or in the "ok" it has returned.
Stored(c) ==
    \/ cpc[c] = "Decode" /\ resp[c] = "ok"
    \/ cpc[c] = "Returned" /\ result[c] = "ok"

\* The caller and the server goroutine serving it move in lock step, and
\* a result is set only when the call has returned.
InFlight(c) ==
    /\ (spc[c] # "None") <=> (cpc[c] = "Wait")
    /\ (result[c] # "none") <=> (cpc[c] = "Returned")
    /\ cpc[c] = "Decode" => resp[c] \in {"ok", "ise"}

\* The inductive invariant: a caller's mutation is stored once exactly
\* when the success is on its way back, never before and never again.
AppliedInv ==
    /\ TypeOK
    /\ \A c \in Clients :
          /\ InFlight(c)
          /\ applied[c] \in {0, 1}
          /\ (applied[c] = 1) <=> Stored(c)

LEMMA AppliedInit == Init => AppliedInv
BY DEF Init, AppliedInv, TypeOK, InFlight, Stored

LEMMA AppliedStep == AppliedInv /\ [Next]_vars => AppliedInv'
<1> SUFFICES ASSUME AppliedInv, [Next]_vars PROVE AppliedInv'
    OBVIOUS
<1>1. ASSUME NEW c \in Clients, ClientDo(c) PROVE AppliedInv'
    <2>1. applied[c] = 0 /\ spc[c] = "None" /\ result[c] = "none"
        BY <1>1 DEF ClientDo, AppliedInv, InFlight, Stored
    <2>2. CASE consumed[c] /\ ~ReplayBody
        BY <1>1, <2>1, <2>2 DEF ClientDo, AppliedInv, TypeOK, InFlight, Stored
    <2>3. CASE ~(consumed[c] /\ ~ReplayBody)
        <3>1. /\ cpc' = [cpc EXCEPT ![c] = "Wait"]
              /\ consumed' = [consumed EXCEPT ![c] = TRUE]
              /\ spc' = [spc EXCEPT ![c] = "Get"]
              /\ UNCHANGED <<stamp, applied, attempt, snap, resp, result>>
            BY <1>1, <2>3 DEF ClientDo
        <3>2. TypeOK'
            BY <3>1 DEF AppliedInv, TypeOK
        <3>3. ASSUME NEW d \in Clients
              PROVE  /\ InFlight(d)'
                     /\ applied'[d] \in {0, 1}
                     /\ (applied'[d] = 1) <=> Stored(d)'
            BY <2>1, <3>1 DEF AppliedInv, TypeOK, InFlight, Stored
        <3>. QED BY <3>2, <3>3 DEF AppliedInv
    <2>. QED BY <2>2, <2>3
<1>2. ASSUME NEW c \in Clients, ServerGet(c) PROVE AppliedInv'
    BY <1>2 DEF ServerGet, AppliedInv, TypeOK, InFlight, Stored
<1>3. ASSUME NEW c \in Clients, ServerUpdate(c) PROVE AppliedInv'
    <2>1. applied[c] = 0
        BY <1>3 DEF ServerUpdate, AppliedInv, InFlight, Stored
    <2>. QED
        BY <1>3, <2>1 DEF ServerUpdate, AppliedInv, TypeOK, InFlight, Stored
<1>4. ASSUME NEW c \in Clients, ClientDecode(c) PROVE AppliedInv'
    <2>1. attempt[c] \in 1..MaxRetryAttempts
        BY DEF AppliedInv, TypeOK
    <2>2. ~GiveUp(attempt[c]) => attempt[c] + 1 \in 1..MaxRetryAttempts
        BY <2>1 DEF GiveUp
    <2>. QED
        BY <1>4, <2>2 DEF ClientDecode, AppliedInv, TypeOK, InFlight, Stored
<1>5. CASE UNCHANGED vars
    BY <1>5 DEF vars, AppliedInv, TypeOK, InFlight, Stored
<1>. QED
    BY <1>1, <1>2, <1>3, <1>4, <1>5 DEF Next

\* Every state of getHTTPData's loop against the server is well typed: in
\* particular the attempt counter never leaves 1..maxRetryAttempts.
THEOREM RetryTypeOK == Spec => []TypeOK
<1>1. Init => AppliedInv
    BY AppliedInit
<1>2. AppliedInv /\ [Next]_vars => AppliedInv'
    BY AppliedStep
<1>3. AppliedInv => TypeOK
    BY DEF AppliedInv
<1>. QED BY <1>1, <1>2, <1>3, PTL DEF Spec

\* The retry loop retries only what the server refused: no mutation is
\* stored twice, and a call that returns nil had its mutation stored
\* (getHTTPData's break on "ok" against db.Update's token check).
THEOREM AppliedAtMostOnce == Spec => []OkMeansAppliedOnce
<1>1. Init => AppliedInv
    BY AppliedInit
<1>2. AppliedInv /\ [Next]_vars => AppliedInv'
    BY AppliedStep
<1>3. AppliedInv => OkMeansAppliedOnce
    <2> SUFFICES ASSUME AppliedInv, NEW c \in Clients
                 PROVE  /\ applied[c] <= 1
                        /\ result[c] = "ok" => applied[c] = 1
        BY DEF OkMeansAppliedOnce
    <2>1. applied[c] \in {0, 1}
        BY DEF AppliedInv
    <2>2. applied[c] <= 1
        BY <2>1
    <2>3. result[c] = "ok" => Stored(c)
        BY DEF AppliedInv, InFlight, Stored
    <2>. QED BY <2>2, <2>3 DEF AppliedInv
<1>. QED BY <1>1, <1>2, <1>3, PTL DEF Spec

-----------------------------------------------------------------------------
(* Refusals are real conflicts.  Each refused attempt of a caller saw the  *)
(* token move between its Get and its Update, that is, another caller's   *)
(* mutation stored in between; the token counts the stored mutations.    *)

\* The callers whose mutation has been stored.
StoredBy == {d \in Clients : applied[d] = 1}

\* Lower bounds on the token along one call: after i - 1 refusals the
\* token has moved at least i - 1 times.
RaceBound(c) ==
    /\ cpc[c] = "Do" => attempt[c] - 1 <= stamp
    /\ spc[c] = "Get" => attempt[c] - 1 <= stamp
    /\ spc[c] = "Update" => attempt[c] - 1 <= snap[c] /\ snap[c] <= stamp
    /\ cpc[c] = "Decode" /\ resp[c] = "ise" => attempt[c] <= stamp
    /\ result[c] = "err" => MaxRetryAttempts <= stamp

\* The inductive invariant behind FailsOnlyAfterLostRaces.
RacesInv ==
    /\ AppliedInv
    /\ stamp = Cardinality(StoredBy)
    /\ \A c \in Clients : RaceBound(c)

LEMMA RacesInit == Init => RacesInv
<1> SUFFICES ASSUME Init PROVE RacesInv
    OBVIOUS
<1>1. AppliedInv
    BY AppliedInit
<1>2. StoredBy = {}
    BY DEF Init, StoredBy
<1>3. stamp = Cardinality(StoredBy)
    BY <1>2, FS_EmptySet DEF Init
<1>4. \A c \in Clients : RaceBound(c)
    BY DEF Init, RaceBound
<1>. QED BY <1>1, <1>3, <1>4 DEF RacesInv

\* A step that stores no mutation keeps the count of stored mutations.
LEMMA StoredByFrame ==
    ASSUME UNCHANGED <<stamp, applied>>, stamp = Cardinality(StoredBy)
    PROVE  stamp' = Cardinality(StoredBy')
BY DEF StoredBy

LEMMA RacesStep ==
    ASSUME ReplayBody
    PROVE  RacesInv /\ [Next]_vars => RacesInv'
<1> SUFFICES ASSUME RacesInv, [Next]_vars PROVE RacesInv'
    OBVIOUS
<1>0. /\ AppliedInv'
      /\ stamp \in Nat
      /\ attempt \in [Clients -> 1..MaxRetryAttempts]
      /\ snap \in [Clients -> Nat]
      /\ cpc \in [Clients -> {"Do", "Wait", "Decode", "Returned"}]
      /\ spc \in [Clients -> {"None", "Get", "Update"}]
      /\ resp \in [Clients -> {"none", "ok", "ise"}]
      /\ result \in [Clients -> {"none", "ok", "err"}]
    BY AppliedStep DEF RacesInv, AppliedInv, TypeOK
<1>1. ASSUME NEW c \in Clients, ClientDo(c) PROVE RacesInv'
    <2>1. /\ cpc' = [cpc EXCEPT ![c] = "Wait"]
          /\ spc' = [spc EXCEPT ![c] = "Get"]
          /\ UNCHANGED <<stamp, applied, attempt, snap, resp, result>>
        BY <1>1 DEF ClientDo
    <2>2. stamp' = Cardinality(StoredBy')
        BY <2>1, StoredByFrame DEF RacesInv
    <2>3. ASSUME NEW d \in Clients PROVE RaceBound(d)'
        BY <1>1, <2>1 DEF ClientDo, RacesInv, RaceBound
    <2>. QED BY <1>0, <2>2, <2>3 DEF RacesInv
<1>2. ASSUME NEW c \in Clients, ServerGet(c) PROVE RacesInv'
    <2>1. stamp' = Cardinality(StoredBy')
        BY <1>2, StoredByFrame DEF ServerGet, RacesInv
    <2>2. ASSUME NEW d \in Clients PROVE RaceBound(d)'
        BY <1>0, <1>2 DEF ServerGet, RacesInv, RaceBound, AppliedInv, InFlight
    <2>. QED BY <1>0, <2>1, <2>2 DEF RacesInv
<1>3. ASSUME NEW c \in Clients, ServerUpdate(c) PROVE RacesInv'
    <2>1. applied[c] = 0 /\ spc[c] = "Update"
        BY <1>3 DEF ServerUpdate, RacesInv, AppliedInv, InFlight, Stored
    <2>2. CASE snap[c] = stamp
        <3>1. /\ stamp' = stamp + 1
              /\ applied' = [applied EXCEPT ![c] = 1]
            BY <1>3, <2>1, <2>2 DEF ServerUpdate
        <3>2. StoredBy' = StoredBy \cup {c}
            <4>1. applied \in [Clients -> Nat]
                BY DEF RacesInv, AppliedInv, TypeOK
            <4>. QED BY <3>1, <4>1 DEF StoredBy
        <3>3. c \notin StoredBy /\ IsFiniteSet(StoredBy)
            BY <2>1, FS_Subset DEF StoredBy
        <3>4. stamp' = Cardinality(StoredBy')
            BY <3>1, <3>2, <3>3, FS_AddElement DEF RacesInv
        <3>5. ASSUME NEW d \in Clients PROVE RaceBound(d)'
            <4>1. CASE d = c
                BY <1>0, <1>3, <2>1, <3>1, <4>1
                   DEF ServerUpdate, RacesInv, RaceBound, AppliedInv, InFlight
            <4>2. CASE d # c
                BY <1>0, <1>3, <3>1, <4>2 DEF ServerUpdate, RacesInv, RaceBound
            <4>. QED BY <4>1, <4>2
        <3>. QED BY <1>0, <3>4, <3>5 DEF RacesInv
    <2>3. CASE snap[c] # stamp
        <3>1. UNCHANGED <<stamp, applied>> /\ resp' = [resp EXCEPT ![c] = "ise"]
            BY <1>3, <2>3 DEF ServerUpdate
        <3>2. stamp' = Cardinality(StoredBy')
            BY <3>1, StoredByFrame DEF RacesInv
        <3>3. attempt[c] <= stamp
            BY <1>0, <2>1, <2>3 DEF RacesInv, RaceBound
        <3>4. ASSUME NEW d \in Clients PROVE RaceBound(d)'
            BY <1>0, <1>3, <3>1, <3>3 DEF ServerUpdate, RacesInv, RaceBound
        <3>. QED BY <1>0, <3>2, <3>4 DEF RacesInv
    <2>. QED BY <2>2, <2>3
<1>4. ASSUME NEW c \in Clients, ClientDecode(c) PROVE RacesInv'
    <2>1. UNCHANGED <<stamp, applied, spc, snap, resp>>
        BY <1>4 DEF ClientDecode
    <2>2. stamp' = Cardinality(StoredBy')
        BY <2>1, StoredByFrame DEF RacesInv
    <2>3. ASSUME NEW d \in Clients PROVE RaceBound(d)'
        <3>1. CASE d # c
            BY <1>0, <1>4, <2>1, <3>1 DEF ClientDecode, RacesInv, RaceBound
        <3>2. CASE d = c
            <4>1. /\ cpc[c] = "Decode" /\ spc[c] = "None"
                  /\ attempt[c] \in 1..MaxRetryAttempts
                BY <1>0, <1>4 DEF ClientDecode, RacesInv, AppliedInv, InFlight
            <4>2. resp[c] = "ise" => attempt[c] <= stamp
                BY <4>1 DEF RacesInv, RaceBound
            <4>3. CASE resp[c] = "ok"
                BY <1>0, <1>4, <2>1, <4>1, <4>3, <3>2 DEF ClientDecode, RaceBound
            <4>4. CASE resp[c] = "ise" /\ GiveUp(attempt[c])
                <5>1. /\ cpc'[c] = "Returned" /\ result'[c] = "err"
                      /\ attempt' = attempt
                    BY <1>0, <1>4, <4>4 DEF ClientDecode
                <5>2. MaxRetryAttempts <= stamp
                    BY <4>2, <4>4 DEF GiveUp
                <5>. QED BY <2>1, <4>1, <5>1, <5>2, <3>2 DEF RaceBound
            <4>5. CASE resp[c] = "ise" /\ ~GiveUp(attempt[c])
                <5>1. /\ cpc'[c] = "Do" /\ result'[c] = result[c]
                      /\ attempt'[c] = attempt[c] + 1
                    BY <1>0, <1>4, <4>5 DEF ClientDecode
                <5>2. result[c] = "none"
                    BY <4>1 DEF RacesInv, AppliedInv, InFlight
                <5>. QED BY <2>1, <4>1, <4>2, <4>5, <5>1, <5>2, <3>2
                         DEF RaceBound
            <4>. QED BY <1>4, <4>3, <4>4, <4>5 DEF ClientDecode
        <3>. QED BY <3>1, <3>2
    <2>. QED BY <1>0, <2>2, <2>3 DEF RacesInv
<1>5. CASE UNCHANGED vars
    BY <1>0, <1>5 DEF vars, RacesInv, RaceBound, StoredBy
<1>. QED
    BY <1>1, <1>2, <1>3, <1>4, <1>5 DEF Next

\* On a connection that carries the retried body, getHTTPData fails only
\* after losing maxRetryAttempts token races, each to another caller whose
\* mutation db.Update stored (the loop's give-up at i == maxRetryAttempts
\* against the token check of TempDB.Update).
THEOREM FailsOnlyAfterRaces ==
    ASSUME ReplayBody PROVE Spec => []FailsOnlyAfterLostRaces
<1>1. Init => RacesInv
    BY RacesInit
<1>2. RacesInv /\ [Next]_vars => RacesInv'
    BY RacesStep
<1>3. RacesInv => FailsOnlyAfterLostRaces
    <2> SUFFICES ASSUME RacesInv, NEW c \in Clients, result[c] = "err"
                 PROVE  Cardinality({d \in Clients \ {c} : applied[d] = 1})
                            >= MaxRetryAttempts
        BY DEF FailsOnlyAfterLostRaces
    <2>1. applied[c] = 0
        BY DEF RacesInv, AppliedInv, InFlight, Stored
    <2>2. {d \in Clients \ {c} : applied[d] = 1} = StoredBy
        BY <2>1 DEF StoredBy
    <2>3. MaxRetryAttempts <= stamp
        BY DEF RacesInv, RaceBound
    <2>. QED BY <2>2, <2>3 DEF RacesInv
<1>. QED BY <1>1, <1>2, <1>3, PTL DEF Spec

=============================================================================
