------------------------------ MODULE KnoxKey ------------------------------
(***************************************************************************)
(* The Knox key model (package knox, src/unnamed/part_000): access types,  *)
(* ACLs, key version lists, the rotation state machine, the version hash   *)
(* and key validation.  These are pure operators; the server modules       *)
(* (KeyManager, KeyStore) build their state from them.                     *)
(*                                                                         *)
(* Abstractions.  Key data, creation times and principal types are left    *)
(* out: no property tells them apart.  Principals are users named by model *)
(* values.  An ACL is a function from principals to an access type, the    *)
(* access type None standing for "no entry": ACL.Add never leaves a None   *)
(* entry or a duplicate in a list, so a valid ACL list and this function   *)
(* determine each other.  A version list is a function from version ids to *)
(* a status or NotPresent; an id can be present at most once, and adding   *)
(* an id that is present is the ErrSameVersionID case of Validate.  The    *)
(* version hash is the byte buffer that KeyVersionList.Hash feeds to       *)
(* SHA-256, kept as the sequence of the 8-byte words it is made of;        *)
(* SHA-256 is taken to be collision free, so the hash is identified with   *)
(* its input.                                                              *)
(***************************************************************************)
EXTENDS Integers, FiniteSets, Sequences

CONSTANTS
    Principals,     \* users that can appear in ACLs and make requests
    VersionIDs      \* the (random, 63-bit) version ids a run may draw

ASSUME KnoxKeyAssumption ==
    /\ Principals # {}
    /\ VersionIDs \subseteq Nat

-----------------------------------------------------------------------------
(* AccessType: None < Read < Write < Admin (iota order).                   *)
None  == 0
Read  == 1
Write == 2
Admin == 3
AccessTypes == {None, Read, Write, Admin}

\* AccessType.CanAccess: a held access grants every lower one.
CanAccess(held, required) == held >= required

\* ACLs as functions from principals to access types (None = no entry).
ACLs == [Principals -> AccessTypes]

\* ACL.Add: replace the principal's entry, remove it when the new access is
\* None, append it when absent and not None, ignore None for an absent one.
ACLAdd(acl, p, a) == [acl EXCEPT ![p] = a]

\* user.CanAccess: some User entry with the principal's id grants the access.
UserCanAccess(acl, p, required) == CanAccess(acl[p], required)

-----------------------------------------------------------------------------
(* VersionStatus: Primary < Active < Inactive (iota order).                *)
Primary  == 0
Active   == 1
Inactive == 2
NotPresent == -1
Statuses == {Primary, Active, Inactive}

VersionLists == [VersionIDs -> Statuses \cup {NotPresent}]

IDsWith(vl, s) == {v \in VersionIDs : vl[v] = s}

\* The ids of a finite set of naturals in increasing order (sort.Sort with
\* KeyVersionList.Less among versions of one status).
SortedIDs(S) ==
    [i \in 1 .. Cardinality(S) |->
        CHOOSE x \in S : Cardinality({y \in S : y < x}) = i - 1]

\* KeyVersionList.Hash: sort by (status, id), write the id of every version
\* that is not Inactive into a buffer of 8 bytes per version; the words
\* reserved for Inactive versions stay zero at the end of the buffer.
Hash(vl) ==
    SortedIDs(IDsWith(vl, Primary))
      \o SortedIDs(IDsWith(vl, Active))
      \o [i \in 1 .. Cardinality(IDsWith(vl, Inactive)) |-> 0]

HashValues == {Hash(vl) : vl \in VersionLists}

\* KeyVersionList.Validate: exactly one Primary (ids are unique by the
\* representation).
OnePrimary(vl) ==
    \E p \in VersionIDs : /\ vl[p] = Primary
                          /\ \A v \in VersionIDs : vl[v] = Primary => v = p

\* Key.Validate on the parts of a key this model keeps: the ACL is valid by
\* its representation, the version list must validate and the stored hash
\* must be the hash of the version list.
KeyValid(key) ==
    /\ OnePrimary(key.versions)
    /\ key.hash = Hash(key.versions)

-----------------------------------------------------------------------------
(* KeyVersionList.Update: the rotation state machine.  The status a version *)
(* must have to move to status s.                                          *)
UpdateSource == [s \in Statuses |-> IF s = Active THEN Inactive ELSE Active]

\* The transition is legal: the version exists and has the required status
\* (otherwise ErrKeyVersionNotFound, ErrInactiveToPrimary, ErrPrimaryToActive
\* or ErrPrimaryToInactive).
UpdateAllowed(vl, v, s) ==
    /\ vl[v] # NotPresent
    /\ vl[v] = UpdateSource[s]

\* The list after the transition: promoting to Primary demotes the old
\* Primary to Active.
Updated(vl, v, s) ==
    [x \in VersionIDs |->
        IF x = v THEN s
        ELSE IF s = Primary /\ vl[x] = Primary THEN Active
        ELSE vl[x]]

\* append(k.VersionList, *v) for a new version v with status s.
Appended(vl, v, s) == [vl EXCEPT ![v] = s]

-----------------------------------------------------------------------------
(* newKey: the creator gets Admin, then every default access entry is      *)
(* added in turn.  DefaultAccess maps a principal to the access of its last *)
(* entry in the default list, or to NoDefault when it has none.            *)
NoDefault == -1

NewKeyACL(reqACL, creator, defaults) ==
    [p \in Principals |->
        IF defaults[p] # NoDefault THEN defaults[p]
        ELSE IF p = creator THEN Admin
        ELSE reqACL[p]]

\* newKey: a single Primary version with a fresh random id.
NewVersionList(v) == [x \in VersionIDs |-> IF x = v THEN Primary ELSE NotPresent]

=============================================================================
