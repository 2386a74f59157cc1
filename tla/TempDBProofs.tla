---------------------------- MODULE TempDBProofs ----------------------------
(***************************************************************************)
(* Proof that the key listing never invents an id, for every set of ids,  *)
(* of readers and every bound on Add and Remove calls, although GetAll's   *)
(* slice is read after the lock is released.                               *)
(***************************************************************************)
EXTENDS TempDB, SequenceTheorems, TLAPS

USE TempDBAssumption

\* What a reader in its range loop can still read: the slice's first rlen
\* elements of the array it walks hold ids stored since its GetAll.  The
\* shared array is only written at len + 1 (Add) or shifted left from
\* positions below len (Remove), and an append that reallocates leaves the
\* reader with the old array.
ReaderInv(r) ==
    /\ rpc[r] = "Idle" => out[r] = <<>>
    /\ rpc[r] # "Idle" => Elems(out[r]) \subseteq seen[r]
    /\ rpc[r] = "Read" =>
          /\ Stored \subseteq seen[r]
          /\ rlen[r] <= Len(View(r))
          /\ \A j \in 1..rlen[r] : View(r)[j] \in seen[r]

\* The inductive invariant: the slice's elements are ids, and every reader
\* keeps ReaderInv.
SoundInv ==
    /\ TypeOK
    /\ \A j \in 1..len : arr[j] \in IDs
    /\ \A r \in Readers : ReaderInv(r)

LEMMA SoundInit == Init => SoundInv
BY DEF Init, SoundInv, TypeOK, ReaderInv, Elems

\* Add with room left writes the new id just past the slice.
LEMMA AddInPlace ==
    ASSUME SoundInv, NEW id \in IDs, DBAdd(id), len < Len(arr)
    PROVE  SoundInv'
<1>1. /\ arr' = [arr EXCEPT ![len + 1] = id] /\ rview' = rview
      /\ len' = len + 1 /\ ops' = ops + 1
      /\ seen' = [r \in Readers |-> IF r \in Reading THEN seen[r] \cup {id} ELSE seen[r]]
      /\ UNCHANGED <<rpc, rlen, ri, out, stable>>
    BY DEF DBAdd
<1>2. /\ arr' \in Seq(IDs \cup {Empty}) /\ Len(arr') = Len(arr)
      /\ \A j \in 1..Len(arr) : arr'[j] = IF j = len + 1 THEN id ELSE arr[j]
    BY <1>1 DEF SoundInv, TypeOK
<1>3. TypeOK'
    BY <1>1, <1>2 DEF DBAdd, SoundInv, TypeOK
<1>4. \A j \in 1..len' : arr'[j] \in IDs
    BY <1>1, <1>2 DEF SoundInv, TypeOK
<1>5. Stored' = Stored \cup {id}
    BY <1>1, <1>2 DEF Stored, SoundInv, TypeOK
<1>6. ASSUME NEW r \in Readers PROVE ReaderInv(r)'
    <2>1. CASE rpc[r] = "Read"
        <3>1. seen'[r] = seen[r] \cup {id}
            BY <1>1, <2>1 DEF Reading
        <3>2. View(r)' = IF rview[r] = Shared THEN arr' ELSE View(r)
            BY <1>1 DEF View
        <3>3. rlen[r] <= Len(View(r)) /\ \A j \in 1..rlen[r] : View(r)[j] \in seen[r]
            BY <2>1 DEF SoundInv, ReaderInv
        <3>4. rlen'[r] <= Len(View(r)') /\ \A j \in 1..rlen'[r] : View(r)'[j] \in seen'[r]
            BY <1>1, <1>2, <3>1, <3>2, <3>3 DEF View, SoundInv, TypeOK
        <3>. QED BY <1>1, <1>5, <2>1, <3>1, <3>4 DEF SoundInv, ReaderInv, Elems
    <2>2. CASE rpc[r] # "Read"
        <3>1. seen'[r] = seen[r]
            BY <1>1, <2>2 DEF Reading
        <3>. QED BY <1>1, <2>2, <3>1 DEF SoundInv, ReaderInv
    <2>. QED BY <2>1, <2>2
<1>. QED BY <1>3, <1>4, <1>6 DEF SoundInv

\* Add with no room moves the slice to a new array; a reader walking the
\* shared array keeps the old one, whose contents it already vouched for.
LEMMA AddGrow ==
    ASSUME SoundInv, NEW id \in IDs, DBAdd(id), ~(len < Len(arr))
    PROVE  SoundInv'
<1>1. /\ arr' = [j \in 1..GrownCap |->
                   IF j <= len THEN arr[j] ELSE IF j = len + 1 THEN id ELSE Empty]
      /\ rview' = [r \in Readers |->
                     IF r \in Reading /\ rview[r] = Shared THEN arr ELSE rview[r]]
      /\ len' = len + 1 /\ ops' = ops + 1
      /\ seen' = [r \in Readers |-> IF r \in Reading THEN seen[r] \cup {id} ELSE seen[r]]
      /\ UNCHANGED <<rpc, rlen, ri, out, stable>>
    BY DEF DBAdd
<1>0. len \in Nat
    BY DEF SoundInv, TypeOK
<1>2. len = Len(arr) /\ len + 1 <= GrownCap /\ GrownCap \in Nat
    BY DEF SoundInv, TypeOK, GrownCap
<1>3. /\ arr' \in Seq(IDs \cup {Empty}) /\ Len(arr') = GrownCap
      /\ \A j \in 1..len + 1 : arr'[j] = IF j <= len THEN arr[j] ELSE id
    BY <1>1, <1>2 DEF SoundInv, TypeOK
<1>4. arr \in Seq(IDs \cup {Empty}) /\ arr # Shared
    BY DEF SoundInv, TypeOK
<1>5. TypeOK'
    BY <1>1, <1>2, <1>3, <1>4 DEF DBAdd, SoundInv, TypeOK
<1>6. \A j \in 1..len' : arr'[j] \in IDs
    <2> SUFFICES ASSUME NEW j \in 1..len + 1 PROVE arr'[j] \in IDs
        BY <1>1
    <2>1. CASE j <= len
        BY <1>0, <1>3, <2>1 DEF SoundInv
    <2>2. CASE j = len + 1
        BY <1>0, <1>3, <2>2
    <2>. QED BY <1>0, <2>1, <2>2
<1>7. Stored' = Stored \cup {id}
    <2>1. Stored' = {arr'[j] : j \in 1..len + 1}
        BY <1>1 DEF Stored
    <2>2. {arr'[j] : j \in 1..len + 1} = {arr[j] : j \in 1..len} \cup {arr'[len + 1]}
        BY <1>0, <1>3
    <2>3. arr'[len + 1] = id
        BY <1>0, <1>3
    <2>. QED BY <2>1, <2>2, <2>3 DEF Stored
<1>8. ASSUME NEW r \in Readers PROVE ReaderInv(r)'
    <2>1. CASE rpc[r] = "Read"
        <3>1. seen'[r] = seen[r] \cup {id}
            BY <1>1, <2>1 DEF Reading
        <3>2. View(r)' = View(r)
            BY <1>1, <1>4, <2>1 DEF View, Reading
        <3>. QED BY <1>1, <1>7, <2>1, <3>1, <3>2 DEF SoundInv, ReaderInv, Elems
    <2>2. CASE rpc[r] # "Read"
        <3>1. seen'[r] = seen[r]
            BY <1>1, <2>2 DEF Reading
        <3>. QED BY <1>1, <2>2, <3>1 DEF SoundInv, ReaderInv
    <2>. QED BY <2>1, <2>2
<1>. QED BY <1>5, <1>6, <1>8 DEF SoundInv

\* Remove shifts the tail of the shared array left: every element it
\* writes below len comes from a stored position, and nothing beyond len
\* changes, so what a reader can still read was stored since its GetAll.
LEMMA RemoveSound ==
    ASSUME SoundInv, NEW id \in IDs, DBRemove(id)
    PROVE  SoundInv'
<1>0. len \in Nat /\ arr \in Seq(IDs \cup {Empty}) /\ len <= Len(arr)
    BY DEF SoundInv, TypeOK
<1>1. PICK i \in 1..len :
         /\ arr[i] = id
         /\ arr' = [j \in DOMAIN arr |-> IF i <= j /\ j < len THEN arr[j + 1] ELSE arr[j]]
    BY DEF DBRemove
<1>2. /\ len' = len - 1 /\ ops' = ops + 1
      /\ stable' = [r \in Readers |-> stable[r] \ {id}]
      /\ UNCHANGED <<rpc, rlen, ri, rview, out, seen>>
    BY DEF DBRemove
<1>3. /\ arr' \in Seq(IDs \cup {Empty}) /\ Len(arr') = Len(arr)
      /\ \A j \in 1..Len(arr) :
            \/ arr'[j] = arr[j]
            \/ j + 1 <= len /\ arr'[j] = arr[j + 1]
      /\ \A j \in 1..len - 1 : arr'[j] \in Stored
    <2>1. arr' = [j \in 1..Len(arr) |-> IF i <= j /\ j < len THEN arr[j + 1] ELSE arr[j]]
        BY <1>0, <1>1
    <2>2. \A j \in 1..Len(arr) :
             \/ arr'[j] = arr[j]
             \/ j + 1 <= len /\ arr'[j] = arr[j + 1]
        BY <1>0, <2>1
    <2>3. \A j \in 1..Len(arr) : arr'[j] \in IDs \cup {Empty}
        BY <1>0, <2>2
    <2>4. arr' \in Seq(IDs \cup {Empty}) /\ Len(arr') = Len(arr)
        BY <1>0, <2>1, <2>3
    <2>5. \A j \in 1..len - 1 : arr'[j] \in Stored
        BY <1>0, <2>2 DEF Stored
    <2>. QED BY <2>2, <2>4, <2>5
<1>4. TypeOK'
    BY <1>0, <1>1, <1>2, <1>3 DEF DBRemove, SoundInv, TypeOK
<1>5. Stored' \subseteq Stored
    BY <1>2, <1>3 DEF Stored
<1>6. \A j \in 1..len' : arr'[j] \in IDs
    BY <1>2, <1>3 DEF Stored, SoundInv
<1>7. ASSUME NEW r \in Readers PROVE ReaderInv(r)'
    <2>1. CASE rpc[r] = "Read" /\ rview[r] = Shared
        <3>1. View(r) = arr /\ View(r)' = arr'
            BY <1>2, <2>1 DEF View
        <3>2. /\ Stored \subseteq seen[r] /\ rlen[r] <= Len(arr)
              /\ \A j \in 1..rlen[r] : arr[j] \in seen[r]
            BY <2>1, <3>1 DEF SoundInv, ReaderInv
        <3>3. \A j \in 1..rlen[r] : arr'[j] \in seen[r]
            <4> SUFFICES ASSUME NEW j \in 1..rlen[r] PROVE arr'[j] \in seen[r]
                OBVIOUS
            <4>1. rlen[r] \in Nat /\ j \in 1..Len(arr)
                BY <3>2 DEF SoundInv, TypeOK
            <4>2. CASE arr'[j] = arr[j]
                BY <3>2, <4>2
            <4>3. CASE j + 1 <= len /\ arr'[j] = arr[j + 1]
                <5>1. arr[j + 1] \in Stored
                    BY <4>1, <4>3 DEF Stored
                <5>. QED BY <3>2, <4>3, <5>1
            <4>. QED BY <1>3, <4>1, <4>2, <4>3
        <3>. QED BY <1>2, <1>3, <1>5, <2>1, <3>1, <3>2, <3>3 DEF SoundInv, ReaderInv
    <2>2. CASE rpc[r] = "Read" /\ rview[r] # Shared
        <3>1. View(r)' = View(r)
            BY <1>2, <2>2 DEF View
        <3>. QED BY <1>2, <1>5, <2>2, <3>1 DEF SoundInv, ReaderInv
    <2>3. CASE rpc[r] # "Read"
        BY <1>2, <2>3 DEF SoundInv, ReaderInv
    <2>. QED BY <2>1, <2>2, <2>3
<1>. QED BY <1>4, <1>6, <1>7 DEF SoundInv

\* GetAll hands the reader the slice over the shared array: its first len
\* elements are the stored ids, which become the reader's seen set.
LEMMA GetAllSound ==
    ASSUME SoundInv, NEW r \in Readers, GetAll(r)
    PROVE  SoundInv'
<1>1. /\ rpc' = [rpc EXCEPT ![r] = "Read"] /\ rlen' = [rlen EXCEPT ![r] = len]
      /\ rview' = [rview EXCEPT ![r] = Shared] /\ seen' = [seen EXCEPT ![r] = Stored]
      /\ stable' = [stable EXCEPT ![r] = Stored]
      /\ UNCHANGED <<arr, len, ops, ri, out>>
    BY DEF GetAll, GetAllLen
<1>2. Stored \subseteq IDs /\ out[r] = <<>>
    BY DEF GetAll, Stored, SoundInv, ReaderInv
<1>3. TypeOK'
    BY <1>1, <1>2 DEF SoundInv, TypeOK
<1>4. ASSUME NEW u \in Readers PROVE ReaderInv(u)'
    <2>1. CASE u = r
        <3>1. View(u)' = arr
            BY <1>1, <2>1 DEF View, SoundInv, TypeOK
        <3>2. Elems(out[u]) = {}
            BY <1>2, <2>1 DEF Elems
        <3>. QED BY <1>1, <2>1, <3>1, <3>2 DEF ReaderInv, Stored, SoundInv, TypeOK
    <2>2. CASE u # r
        <3>1. View(u)' = View(u)
            BY <1>1, <2>2 DEF View
        <3>. QED BY <1>1, <2>2, <3>1 DEF ReaderInv, Stored, SoundInv
    <2>. QED BY <2>1, <2>2
<1>. QED BY <1>1, <1>3, <1>4 DEF SoundInv

\* One turn of the range loop appends an element of the slice, which the
\* reader's invariant vouches for.
LEMMA ListNextSound ==
    ASSUME SoundInv, NEW r \in Readers, ListNext(r)
    PROVE  SoundInv'
<1> DEFINE x == View(r)[ri[r]]
<1>1. /\ out' = [out EXCEPT ![r] = Append(out[r], x)]
      /\ ri' = [ri EXCEPT ![r] = ri[r] + 1]
      /\ UNCHANGED <<arr, len, ops, rpc, rlen, rview, seen, stable>>
    BY DEF ListNext
<1>2. rpc[r] = "Read" /\ ri[r] \in 1..rlen[r]
    BY DEF ListNext, SoundInv, TypeOK
<1>3. x \in seen[r] /\ seen[r] \subseteq IDs
    BY <1>2 DEF SoundInv, ReaderInv, TypeOK
<1>4. out[r] \in Seq(IDs \cup {Empty}) /\ Elems(out[r]) \subseteq seen[r]
    BY <1>2 DEF SoundInv, ReaderInv, TypeOK
<1>5. Append(out[r], x) \in Seq(IDs \cup {Empty})
      /\ Elems(Append(out[r], x)) = Elems(out[r]) \cup {x}
    <2>1. x \in IDs \cup {Empty}
        BY <1>3
    <2>2. /\ Append(out[r], x) \in Seq(IDs \cup {Empty})
          /\ Len(Append(out[r], x)) = Len(out[r]) + 1
          /\ \A i \in 1..Len(out[r]) : Append(out[r], x)[i] = out[r][i]
          /\ Append(out[r], x)[Len(out[r]) + 1] = x
        BY <1>4, <2>1, AppendProperties
    <2>3. DOMAIN Append(out[r], x) = 1..Len(out[r]) + 1 /\ DOMAIN out[r] = 1..Len(out[r])
        BY <1>4, <2>2, LenProperties
    <2>. QED BY <2>2, <2>3, <1>4 DEF Elems
<1>6. TypeOK'
    BY <1>1, <1>5 DEF SoundInv, TypeOK
<1>7. ASSUME NEW u \in Readers PROVE ReaderInv(u)'
    <2>1. View(u)' = View(u)
        BY <1>1 DEF View
    <2>. QED BY <1>1, <1>2, <1>3, <1>4, <1>5, <2>1 DEF ReaderInv, Stored, SoundInv, TypeOK
<1>. QED BY <1>1, <1>6, <1>7 DEF SoundInv

LEMMA ListDoneSound ==
    ASSUME SoundInv, NEW r \in Readers, ListDone(r)
    PROVE  SoundInv'
<1>1. ASSUME NEW u \in Readers PROVE ReaderInv(u)'
    BY DEF ListDone, ReaderInv, Stored, View, SoundInv, TypeOK
<1>. QED BY <1>1 DEF ListDone, SoundInv, TypeOK

LEMMA SoundStep == SoundInv /\ [Next]_vars => SoundInv'
<1> SUFFICES ASSUME SoundInv, [Next]_vars PROVE SoundInv'
    OBVIOUS
<1>1. ASSUME NEW id \in IDs, DBAdd(id) PROVE SoundInv'
    BY <1>1, AddInPlace, AddGrow
<1>2. ASSUME NEW id \in IDs, DBRemove(id) PROVE SoundInv'
    BY <1>2, RemoveSound
<1>3. ASSUME NEW r \in Readers, GetAll(r) \/ ListNext(r) \/ ListDone(r)
      PROVE  SoundInv'
    BY <1>3, GetAllSound, ListNextSound, ListDoneSound
<1>4. CASE UNCHANGED vars
    BY <1>4 DEF vars, SoundInv, TypeOK, ReaderInv, Stored, View
<1>. QED BY <1>1, <1>2, <1>3, <1>4 DEF Next

\* GetAllKeyIDs never returns an id that was not stored at some moment of
\* the call, whatever Add and Remove do to the array GetAll's slice points
\* at after the read lock is released.
THEOREM ListingNeverInvents == Spec => []ListingSound
<1>1. Init => SoundInv
    BY SoundInit
<1>2. SoundInv /\ [Next]_vars => SoundInv'
    BY SoundStep
<1>3. SoundInv => ListingSound
    BY DEF SoundInv, ReaderInv, ListingSound
<1>. QED BY <1>1, <1>2, <1>3, PTL DEF Spec

=============================================================================
