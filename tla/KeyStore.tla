------------------------------ MODULE KeyStore ------------------------------
(***************************************************************************)
(* What the key manager promises its callers (the KeyManager interface of  *)
(* src/server/key_manager.go, spec section 4.4): a map from key ids to     *)
(* keys in which every mutation takes effect atomically on the current    *)
(* key.  A mutation that fails leaves the map unchanged, so only the       *)
(* successful ones are actions.  KeyManager refines this module: its       *)
(* read-modify-write steps, interleaved with other requests, must look as *)
(* if each successful request had run alone at one instant.               *)
(***************************************************************************)
EXTENDS KnoxKey

CONSTANTS
    KeyIDs,         \* key identifiers (valid under the id regexp)
    DefaultAccess,  \* [Principals -> AccessTypes \cup {NoDefault}]
    Nil             \* "no key stored under this id"

VARIABLE store

Keys == [acl : ACLs, versions : VersionLists, hash : HashValues]

StoreTypeOK == store \in [KeyIDs -> Keys \cup {Nil}]

Init == store = [k \in KeyIDs |-> Nil]

AddNewKey(k, p, reqACL, v) ==
    /\ store[k] = Nil
    /\ store' = [store EXCEPT ![k] =
                    [acl      |-> NewKeyACL(reqACL, p, DefaultAccess),
                     versions |-> NewVersionList(v),
                     hash     |-> Hash(NewVersionList(v))]]

UpdateAccess(k, g, a) ==
    /\ store[k] # Nil
    /\ store' = [store EXCEPT ![k].acl = ACLAdd(@, g, a)]

AddVersion(k, v) ==
    /\ store[k] # Nil
    /\ store[k].versions[v] = NotPresent
    /\ LET vl == Appended(store[k].versions, v, Active)
       IN  store' = [store EXCEPT ![k].versions = vl, ![k].hash = Hash(vl)]

UpdateVersion(k, v, s) ==
    /\ store[k] # Nil
    /\ UpdateAllowed(store[k].versions, v, s)
    /\ LET vl == Updated(store[k].versions, v, s)
       IN  store' = [store EXCEPT ![k].versions = vl, ![k].hash = Hash(vl)]

DeleteKey(k) ==
    /\ store[k] # Nil
    /\ store' = [store EXCEPT ![k] = Nil]

Next ==
    \E k \in KeyIDs :
        \/ \E p \in Principals, acl \in ACLs, v \in VersionIDs :
              AddNewKey(k, p, acl, v)
        \/ \E g \in Principals, a \in AccessTypes : UpdateAccess(k, g, a)
        \/ \E v \in VersionIDs : AddVersion(k, v)
        \/ \E v \in VersionIDs, s \in Statuses : UpdateVersion(k, v, s)
        \/ DeleteKey(k)

Spec == Init /\ [][Next]_store

=============================================================================
