---------------------------- MODULE RetryClient ----------------------------
(***************************************************************************)
(* The client's retry loop (HTTPClient.getHTTPData, src/unnamed/part_016) *)
(* sending a mutation to the server, whose key manager reads the key,     *)
(* and writes it back with db.Update guarded by the DBVersion token; a   *)
(* token mismatch comes back as InternalServerError (spec: "conflicts    *)
(* surface as InternalServerError and are retried by the client's        *)
(* backoff").  Each client sends one UpdateVersion of the same key.       *)
(*                                                                         *)
(* getHTTPData builds the *http.Request once, with its body in a          *)
(* bytes.Buffer, and passes that same request to every cli.Do.  The first *)
(* Do drains the buffer; a later Do of a request with ContentLength > 0   *)
(* and nothing left to read fails in the transport ("ContentLength=N with *)
(* Body length 0") and getHTTPData returns that error.  ReplayBody = TRUE *)
(* models a request that re-reads its body on each attempt instead.      *)
(* The backoff sleep changes no state and is folded into the retry.       *)
(***************************************************************************)
EXTENDS Naturals, FiniteSets

CONSTANTS
    Clients,            \* concurrent callers, one UpdateVersion each
    MaxRetryAttempts,   \* maxRetryAttempts (part_016 line 24)
    ReplayBody          \* whether a retried request carries its body

ASSUME RetryAssumption ==
    /\ IsFiniteSet(Clients)
    /\ MaxRetryAttempts \in Nat \ {0}
    /\ ReplayBody \in BOOLEAN

VARIABLES
    stamp,     \* the stored key's DBVersion token, counted in writes
    applied,   \* how many times each client's mutation was stored
    cpc,       \* where each client's getHTTPData is
    attempt,   \* the loop counter i
    consumed,  \* whether the request's body buffer has been read
    spc,       \* the server goroutine serving the client's attempt
    snap,      \* the token the manager's db.Get returned
    resp,      \* the decoded response status of the last attempt
    result     \* what getHTTPData returned

vars == <<stamp, applied, cpc, attempt, consumed, spc, snap, resp, result>>

Init ==
    /\ stamp = 0
    /\ applied = [c \in Clients |-> 0]
    /\ cpc = [c \in Clients |-> "Do"]
    /\ attempt = [c \in Clients |-> 1]
    /\ consumed = [c \in Clients |-> FALSE]
    /\ spc = [c \in Clients |-> "None"]
    /\ snap = [c \in Clients |-> 0]
    /\ resp = [c \in Clients |-> "none"]
    /\ result = [c \in Clients |-> "none"]

(* cli.Do(r).  A drained body makes the transport fail before a request   *)
(* reaches a handler, and `if err != nil { return err }` ends the call.   *)
ClientDo(c) ==
    /\ cpc[c] = "Do"
    /\ IF consumed[c] /\ ~ReplayBody
          THEN /\ cpc' = [cpc EXCEPT ![c] = "Returned"]
               /\ result' = [result EXCEPT ![c] = "err"]
               /\ UNCHANGED <<consumed, spc>>
          ELSE /\ cpc' = [cpc EXCEPT ![c] = "Wait"]
               /\ consumed' = [consumed EXCEPT ![c] = TRUE]
               /\ spc' = [spc EXCEPT ![c] = "Get"]
               /\ UNCHANGED result
    /\ UNCHANGED <<stamp, applied, attempt, snap, resp>>

(* The handler's GetKey and the manager's db.Get: the snapshot's token.   *)
ServerGet(c) ==
    /\ spc[c] = "Get"
    /\ snap' = [snap EXCEPT ![c] = stamp]
    /\ spc' = [spc EXCEPT ![c] = "Update"]
    /\ UNCHANGED <<stamp, applied, cpc, attempt, consumed, resp, result>>

(* db.Update: the write succeeds and stamps a new token only if the       *)
(* stored token is still the snapshot's; ErrDBVersion is written back as  *)
(* InternalServerErrorCode by writeErr.                                   *)
ServerUpdate(c) ==
    /\ spc[c] = "Update"
    /\ IF snap[c] = stamp
          THEN /\ stamp' = stamp + 1
               /\ applied' = [applied EXCEPT ![c] = @ + 1]
               /\ resp' = [resp EXCEPT ![c] = "ok"]
          ELSE /\ resp' = [resp EXCEPT ![c] = "ise"]
               /\ UNCHANGED <<stamp, applied>>
    /\ spc' = [spc EXCEPT ![c] = "None"]
    /\ cpc' = [cpc EXCEPT ![c] = "Decode"]
    /\ UNCHANGED <<attempt, consumed, snap, result>>

(* Mutant: gives up one attempt early.                                     *)
GiveUpEarly(i) == i + 1 >= MaxRetryAttempts

(* `(resp.Code != InternalServerErrorCode) || (i == maxRetryAttempts)`,   *)
(* for a response that is an InternalServerError.                         *)
GiveUp(i) == i = MaxRetryAttempts

(* Mutant: the loop's `else { break }` is lost, so an ok response is      *)
(* retried like an error until the budget runs out.                       *)
ClientDecodeNoBreak(c) ==
    /\ cpc[c] = "Decode"
    /\ IF GiveUp(attempt[c])
          THEN /\ cpc' = [cpc EXCEPT ![c] = "Returned"]
               /\ result' = [result EXCEPT ![c] =
                                IF resp[c] = "ok" THEN "ok" ELSE "err"]
               /\ UNCHANGED attempt
          ELSE /\ cpc' = [cpc EXCEPT ![c] = "Do"]
               /\ attempt' = [attempt EXCEPT ![c] = @ + 1]
               /\ UNCHANGED result
    /\ UNCHANGED <<stamp, applied, consumed, spc, snap, resp>>

(* Decode the response: "ok" breaks out of the loop and returns nil; an   *)
(* InternalServerError on the last attempt returns its message; any other *)
(* sleeps GetBackoffDuration(i) and goes round again.                     *)
ClientDecode(c) ==
    /\ cpc[c] = "Decode"
    /\ \/ /\ resp[c] = "ok"
          /\ cpc' = [cpc EXCEPT ![c] = "Returned"]
          /\ result' = [result EXCEPT ![c] = "ok"]
          /\ UNCHANGED attempt
       \/ /\ resp[c] = "ise"
          /\ GiveUp(attempt[c])
          /\ cpc' = [cpc EXCEPT ![c] = "Returned"]
          /\ result' = [result EXCEPT ![c] = "err"]
          /\ UNCHANGED attempt
       \/ /\ resp[c] = "ise"
          /\ ~GiveUp(attempt[c])
          /\ cpc' = [cpc EXCEPT ![c] = "Do"]
          /\ attempt' = [attempt EXCEPT ![c] = @ + 1]
          /\ UNCHANGED result
    /\ UNCHANGED <<stamp, applied, consumed, spc, snap, resp>>

Next ==
    \E c \in Clients :
        \/ ClientDo(c) \/ ServerGet(c) \/ ServerUpdate(c) \/ ClientDecode(c)

(* Every client goroutine and every server goroutine keeps running: none  *)
(* of them waits on anything but its own network round trip.              *)
Fairness ==
    \A c \in Clients :
        /\ WF_vars(ClientDo(c)) /\ WF_vars(ServerGet(c))
        /\ WF_vars(ServerUpdate(c)) /\ WF_vars(ClientDecode(c))

Spec == Init /\ [][Next]_vars /\ Fairness

-----------------------------------------------------------------------------
TypeOK ==
    /\ stamp \in Nat
    /\ applied \in [Clients -> Nat]
    /\ cpc \in [Clients -> {"Do", "Wait", "Decode", "Returned"}]
    /\ attempt \in [Clients -> 1..MaxRetryAttempts]
    /\ consumed \in [Clients -> BOOLEAN]
    /\ spc \in [Clients -> {"None", "Get", "Update"}]
    /\ snap \in [Clients -> Nat]
    /\ resp \in [Clients -> {"none", "ok", "ise"}]
    /\ result \in [Clients -> {"none", "ok", "err"}]

(* A call that returns nil had its mutation stored exactly once, and no   *)
(* retry ever stores a mutation twice: the loop retries only what the    *)
(* server refused.                                                         *)
OkMeansAppliedOnce ==
    \A c \in Clients :
        /\ applied[c] <= 1
        /\ result[c] = "ok" => applied[c] = 1

(* A call fails only after it lost maxRetryAttempts token races, each to  *)
(* a different caller whose own mutation was stored: the refused attempts *)
(* of getHTTPData's loop are real conflicts, never spurious ones.  So with *)
(* no more concurrent writers than attempts (spec scenario 6), every call  *)
(* succeeds.                                                               *)
FailsOnlyAfterLostRaces ==
    \A c \in Clients :
        result[c] = "err" =>
            Cardinality({d \in Clients \ {c} : applied[d] = 1}) >= MaxRetryAttempts

(* Spec section 5: optimistic-concurrency conflicts are retried by the   *)
(* client's backoff, and "repeated conflicts surface as 500s after the    *)
(* client's budget".  So every call returns, and one that fails has used  *)
(* all maxRetryAttempts attempts; with no more concurrent writers than    *)
(* attempts (spec scenario 6) every call succeeds.                        *)
FailsOnlyAfterBudget ==
    <>(\A c \in Clients :
          \/ result[c] = "ok"
          \/ result[c] = "err" /\ attempt[c] = MaxRetryAttempts)

=============================================================================
