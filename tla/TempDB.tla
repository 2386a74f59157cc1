------------------------------- MODULE TempDB -------------------------------
(***************************************************************************)
(* The in-memory key DB of the server (TempDB, src/server/keydb/keydb.go)  *)
(* as Go lays it out: a slice header (length, capacity) over a backing    *)
(* array that Add and Remove change in place under the RWMutex, and the   *)
(* listing of every key id (keyManager.GetAllKeyIDs, and the same loop in *)
(* GetUpdatedKeyIDs) that GetAll hands the slice to.  GetAll returns the  *)
(* slice itself and releases the read lock, so the caller walks the array *)
(* while later writers change it.                                         *)
(*                                                                         *)
(* A stored key is its id; its ACL, versions and token do not bear on the *)
(* listing.  Update writes one element in place without changing its id  *)
(* and Get copies one element under the lock, so neither is modelled      *)
(* here (KeyManager models both).  Copying one element is taken to be     *)
(* atomic.                                                                 *)
(***************************************************************************)
EXTENDS Naturals, Sequences

CONSTANTS
    IDs,       \* key ids
    Readers,   \* goroutines listing the keys
    Empty,     \* a zeroed array element
    Shared,    \* a reader whose slice still points at the DB's array
    MaxOps     \* bound on Add and Remove calls

ASSUME TempDBAssumption ==
    /\ Empty \notin IDs
    /\ Shared \notin Seq(IDs \cup {Empty})
    /\ MaxOps \in Nat

VARIABLES
    arr,     \* the backing array of db.keys: its cap elements
    len,     \* len(db.keys)
    ops,     \* Add and Remove calls so far
    rpc,     \* where each reader is
    rlen,    \* the length of the slice GetAll returned
    ri,      \* the next index the reader's range loop reads
    rview,   \* Shared, or the old array a reallocation left the reader with
    out,     \* the ids the reader has appended to its output
    seen,    \* history: ids stored at some time since the reader's GetAll
    stable   \* history: ids stored from the reader's GetAll until now

vars == <<arr, len, ops, rpc, rlen, ri, rview, out, seen, stable>>

(* The ids db.keys holds: the first len elements of the array.            *)
Stored == {arr[j] : j \in 1..len}

(* The array a reader's range loop reads.                                  *)
View(r) == IF rview[r] = Shared THEN arr ELSE rview[r]

(* Go's append growth for small slices: double the capacity, or 1.        *)
GrownCap == IF Len(arr) = 0 THEN 1 ELSE 2 * Len(arr)

Init ==
    /\ arr = <<>>
    /\ len = 0
    /\ ops = 0
    /\ rpc = [r \in Readers |-> "Idle"]
    /\ rlen = [r \in Readers |-> 0]
    /\ ri = [r \in Readers |-> 1]
    /\ rview = [r \in Readers |-> Shared]
    /\ out = [r \in Readers |-> <<>>]
    /\ seen = [r \in Readers |-> {}]
    /\ stable = [r \in Readers |-> {}]

(* Readers in their range loop.                                            *)
Reading == {r \in Readers : rpc[r] = "Read"}

(* TempDB.Add of one new key: append(db.keys, *k).  With room left, the   *)
(* element is written into the shared array; otherwise append moves the   *)
(* slice to a new array, and a reader still walking the old one keeps it. *)
(* An id already stored returns ErrKeyExists and changes nothing.         *)
DBAdd(id) ==
    /\ ops < MaxOps
    /\ id \notin Stored
    /\ IF len < Len(arr)
          THEN /\ arr' = [arr EXCEPT ![len + 1] = id]
               /\ UNCHANGED rview
          ELSE /\ arr' = [j \in 1..GrownCap |->
                             IF j <= len THEN arr[j]
                             ELSE IF j = len + 1 THEN id ELSE Empty]
               /\ rview' = [r \in Readers |->
                             IF r \in Reading /\ rview[r] = Shared
                             THEN arr ELSE rview[r]]
    /\ len' = len + 1
    /\ ops' = ops + 1
    /\ seen' = [r \in Readers |-> IF r \in Reading THEN seen[r] \cup {id}
                                                   ELSE seen[r]]
    /\ UNCHANGED <<rpc, rlen, ri, out, stable>>

(* TempDB.Remove: append(db.keys[:i], db.keys[i+1:]...) shifts the tail  *)
(* of the same array one place left; the old last element stays behind    *)
(* the new length.  An id not stored returns ErrKeyIDNotFound.            *)
DBRemove(id) ==
    /\ ops < MaxOps
    /\ \E i \in 1..len :
          /\ arr[i] = id
          /\ arr' = [j \in DOMAIN arr |->
                        IF i <= j /\ j < len THEN arr[j + 1] ELSE arr[j]]
    /\ len' = len - 1
    /\ ops' = ops + 1
    /\ stable' = [r \in Readers |-> stable[r] \ {id}]
    /\ UNCHANGED <<rpc, rlen, ri, rview, out, seen>>

(* Mutant: GetAll hands out one element past the slice's length.          *)
GetAllLenPastEnd == IF len < Len(arr) THEN len + 1 ELSE len

(* The length of the slice GetAll returns.                                 *)
GetAllLen == len

(* GetAllKeyIDs: db.GetAll() under RLock returns db.keys; the lock is     *)
(* released on return.                                                     *)
GetAll(r) ==
    /\ rpc[r] = "Idle"
    /\ rpc' = [rpc EXCEPT ![r] = "Read"]
    /\ rlen' = [rlen EXCEPT ![r] = GetAllLen]
    /\ rview' = [rview EXCEPT ![r] = Shared]
    /\ seen' = [seen EXCEPT ![r] = Stored]
    /\ stable' = [stable EXCEPT ![r] = Stored]
    /\ UNCHANGED <<arr, len, ops, ri, out>>

(* One turn of `for _, k := range keys { output = append(output, k.ID) }`. *)
ListNext(r) ==
    /\ rpc[r] = "Read"
    /\ ri[r] <= rlen[r]
    /\ out' = [out EXCEPT ![r] = Append(@, View(r)[ri[r]])]
    /\ ri' = [ri EXCEPT ![r] = @ + 1]
    /\ UNCHANGED <<arr, len, ops, rpc, rlen, rview, seen, stable>>

(* The loop ends and GetAllKeyIDs returns its output.                      *)
ListDone(r) ==
    /\ rpc[r] = "Read"
    /\ ri[r] > rlen[r]
    /\ rpc' = [rpc EXCEPT ![r] = "Done"]
    /\ UNCHANGED <<arr, len, ops, rlen, ri, rview, out, seen, stable>>

Next ==
    \/ \E id \in IDs : DBAdd(id) \/ DBRemove(id)
    \/ \E r \in Readers : GetAll(r) \/ ListNext(r) \/ ListDone(r)

Spec == Init /\ [][Next]_vars

-----------------------------------------------------------------------------
\* The ids a sequence holds, and a sequence that holds none twice.
Elems(s) == {s[i] : i \in DOMAIN s}

Distinct(s) == \A i, j \in DOMAIN s : s[i] = s[j] => i = j

TypeOK ==
    /\ arr \in Seq(IDs \cup {Empty})
    /\ len \in 0..Len(arr)
    /\ ops \in 0..MaxOps
    /\ rpc \in [Readers -> {"Idle", "Read", "Done"}]
    /\ rlen \in [Readers -> Nat]
    /\ ri \in [Readers -> Nat \ {0}]
    /\ rview \in [Readers -> Seq(IDs \cup {Empty}) \cup {Shared}]
    /\ out \in [Readers -> Seq(IDs \cup {Empty})]
    /\ seen \in [Readers -> SUBSET IDs]
    /\ stable \in [Readers -> SUBSET IDs]

(* The listing never invents an id: every id GetAllKeyIDs returns was     *)
(* stored at some moment of the call, although GetAll's slice is read     *)
(* after the lock is released while Add and Remove rewrite its array.     *)
ListingSound ==
    \A r \in Readers : rpc[r] # "Idle" => Elems(out[r]) \subseteq seen[r]

(* The listing is a snapshot: when GetAllKeyIDs returns, every id stored  *)
(* throughout the call is in its output, and no id is there twice.        *)
ListingComplete ==
    \A r \in Readers :
        rpc[r] = "Done" => /\ stable[r] \subseteq Elems(out[r])
                           /\ Distinct(out[r])

=============================================================================
