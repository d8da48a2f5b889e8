-------------------------- MODULE KeymanagerProofs --------------------------
(***************************************************************************)
(* Theorems about Keymanager, for any keys, URLs (refused ones included),  *)
(* settings and values, and any bound MaxGeneration.                       *)
(***************************************************************************)
EXTENDS Keymanager, TLAPS

-----------------------------------------------------------------------------
(* The mapping *)

\* The signer a row gets has the row's URL; it is one that is in use or a new one.
LEMMA SignerForUrl ==
    ASSUME NEW k \in Keys, NEW url, NEW mapping
    PROVE  \/ SignerFor(k, url, mapping) = NewSigner(url)
           \/ \E j \in Keys : /\ SignerFor(k, url, mapping) = mapping[j]
                              /\ mapping[j] # NoSigner /\ mapping[j].url = url
  <1>1. CASE mapping[k] # NoSigner /\ mapping[k].url = url
    BY <1>1 DEF SignerFor
  <1>2. CASE ~(mapping[k] # NoSigner /\ mapping[k].url = url) /\ SignersByUrl(url, mapping) = {}
    BY <1>2 DEF SignerFor, SharedSigner
  <1>3. CASE ~(mapping[k] # NoSigner /\ mapping[k].url = url) /\ SignersByUrl(url, mapping) # {}
    <2>1. SignerFor(k, url, mapping) \in SignersByUrl(url, mapping)
      BY <1>3 DEF SignerFor, SharedSigner
    <2> QED
      BY <2>1 DEF SignersByUrl
  <1> QED
    BY <1>1, <1>2, <1>3

\* The signers a rebuild gives are signers, and have the URLs of their rows.
LEMMA RebuiltSigners ==
    ASSUME TypeOK, NEW table \in [Keys -> Row \cup {NoRow}], ~Refused(table),
           UpdateMapping(table, signers)
    PROVE  /\ signers' \in [Keys -> Signer \cup {NoSigner}]
           /\ generation' \in 0..MaxGeneration
           /\ \A k \in Keys : IF table[k] = NoRow THEN signers'[k] = NoSigner
                              ELSE signers'[k] \in Signer /\ signers'[k].url = table[k].url
  <1>1. generation \in 0..MaxGeneration /\ MaxGeneration \in Nat
    BY MaxGenerationAssumption DEF TypeOK
  <1>2. generation' \in 0..MaxGeneration
    BY <1>1 DEF UpdateMapping
  <1>3. ASSUME NEW k \in Keys, table[k] = NoRow PROVE signers'[k] = NoSigner
    BY <1>3 DEF UpdateMapping, Rebuilt
  <1>4. ASSUME NEW k \in Keys, table[k] # NoRow
        PROVE  signers'[k] \in Signer /\ signers'[k].url = table[k].url
    <2> DEFINE url == table[k].url
    <2>1. url \in Urls \ BadUrls
      BY <1>4 DEF Row, Refused
    <2>2. signers'[k] = SignerFor(k, url, signers)
      BY <1>4 DEF UpdateMapping, Rebuilt
    <2>3. CASE signers'[k] = NewSigner(url)
      BY <1>1, <2>1, <2>3 DEF NewSigner, Signer
    <2>4. ASSUME NEW j \in Keys, signers'[k] = signers[j], signers[j] # NoSigner, signers[j].url = url
          PROVE  signers'[k] \in Signer /\ signers'[k].url = url
      BY <2>4 DEF TypeOK
    <2> QED
      BY <2>2, <2>3, <2>4, SignerForUrl
  <1>5. signers' \in [Keys -> Signer \cup {NoSigner}]
    <2>1. signers' = [k \in Keys |-> signers'[k]]
      BY DEF UpdateMapping, Rebuilt
    <2> QED
      BY <1>3, <1>4, <2>1
  <1> QED
    BY <1>2, <1>3, <1>4, <1>5

-----------------------------------------------------------------------------
(* Type correctness *)

\* What the SQL statements leave in the table.
LEMMA TableType ==
    ASSUME TypeOK
    PROVE  /\ \A keys \in SUBSET Keys : \A urlOf \in [keys -> Urls] :
                 Inserted(keys, urlOf) \in [Keys -> Row \cup {NoRow}]
           /\ \A keys : Removed(keys) \in [Keys -> Row \cup {NoRow}]
           /\ \A k \in Keys, s \in Settings, value \in Values \cup {NoValue} :
                 Updated(k, s, value) \in [Keys -> Row \cup {NoRow}]
  <1>1. ASSUME NEW keys \in SUBSET Keys, NEW urlOf \in [keys -> Urls]
        PROVE  Inserted(keys, urlOf) \in [Keys -> Row \cup {NoRow}]
    <2>1. \A k \in keys : NewRow(urlOf[k]) \in Row
      BY DEF NewRow, Row
    <2> QED
      BY <2>1 DEF Inserted, TypeOK
  <1>2. \A keys : Removed(keys) \in [Keys -> Row \cup {NoRow}]
    BY DEF Removed, TypeOK
  <1>3. ASSUME NEW k \in Keys, NEW s \in Settings, NEW value \in Values \cup {NoValue}
        PROVE  Updated(k, s, value) \in [Keys -> Row \cup {NoRow}]
    <2>1. CASE db[k] = NoRow
      BY <2>1 DEF Updated, TypeOK
    <2>2. CASE db[k] # NoRow
      <3>1. db[k] \in Row
        BY <2>2 DEF TypeOK
      <3>2. [db[k] EXCEPT !.override[s] = value] \in Row
        BY <3>1 DEF Row
      <3> QED
        BY <2>2, <3>2 DEF Updated, TypeOK
    <2> QED
      BY <2>1, <2>2
  <1> QED
    BY <1>1, <1>2, <1>3

LEMMA InitType == Init => TypeOK
  BY MaxGenerationAssumption DEF Init, TypeOK

LEMMA ImportType ==
    ASSUME TypeOK, NEW keys \in SUBSET Keys, NEW urlOf \in [keys -> Urls],
           ImportRemoteKeys(keys, urlOf)
    PROVE  TypeOK'
  <1>1. db' \in [Keys -> Row \cup {NoRow}]
    BY TableType DEF ImportRemoteKeys
  <1>2. signers' \in [Keys -> Signer \cup {NoSigner}] /\ generation' \in 0..MaxGeneration
    BY <1>1, RebuiltSigners DEF ImportRemoteKeys, TypeOK
  <1> QED
    BY <1>1, <1>2 DEF ImportRemoteKeys, TypeOK

LEMMA DeleteType ==
    ASSUME TypeOK, NEW keys \in SUBSET Keys, DeleteRemoteKeys(keys)
    PROVE  TypeOK'
  <1>1. db' \in [Keys -> Row \cup {NoRow}]
    BY TableType DEF DeleteRemoteKeys, Delete
  <1>2. signers' \in [Keys -> Signer \cup {NoSigner}] /\ generation' \in 0..MaxGeneration
    BY <1>1, RebuiltSigners DEF DeleteRemoteKeys, Delete, TypeOK
  <1>3. deleted' \in SUBSET Keys
    BY DEF DeleteRemoteKeys, TypeOK
  <1> QED
    BY <1>1, <1>2, <1>3 DEF DeleteRemoteKeys, Delete, TypeOK

LEMMA OverrideType ==
    ASSUME TypeOK, NEW k \in Keys, NEW s \in Settings, NEW value \in Values \cup {NoValue},
           SetOverride(k, s, value)
    PROVE  TypeOK'
  <1>1. db' \in [Keys -> Row \cup {NoRow}]
    BY TableType DEF SetOverride
  <1>2. overrides' \in [Settings -> [Keys -> Values \cup {NoValue}]]
    BY DEF SetOverride, TypeOK
  <1> QED
    BY <1>1, <1>2 DEF SetOverride, TypeOK

LEMMA CrashType == TypeOK /\ Crash => TypeOK'
  <1> SUFFICES ASSUME TypeOK, Crash PROVE TypeOK'
    OBVIOUS
  <1>1. db' \in [Keys -> Row \cup {NoRow}] /\ deleted' \in SUBSET Keys
    <2>1. CASE UNCHANGED <<db, deleted>>
      BY <2>1 DEF TypeOK
    <2>2. ASSUME NEW keys \in SUBSET Keys, NEW urlOf \in [keys -> Urls],
                 db' = Inserted(keys, urlOf) /\ deleted' = deleted \ keys
          PROVE  db' \in [Keys -> Row \cup {NoRow}] /\ deleted' \in SUBSET Keys
      BY <2>2, TableType DEF TypeOK
    <2>3. ASSUME NEW keys \in SUBSET Keys, db' = Removed(keys) /\ UNCHANGED deleted
          PROVE  db' \in [Keys -> Row \cup {NoRow}] /\ deleted' \in SUBSET Keys
      BY <2>3, TableType DEF TypeOK
    <2>4. ASSUME NEW k \in Keys, NEW s \in Settings, NEW value \in Values \cup {NoValue},
                 db' = Updated(k, s, value) /\ UNCHANGED deleted
          PROVE  db' \in [Keys -> Row \cup {NoRow}] /\ deleted' \in SUBSET Keys
      BY <2>4, TableType DEF TypeOK
    <2> QED
      BY <2>1, <2>2, <2>3, <2>4 DEF Crash
  <1>2. /\ generation' = 0 /\ running' = FALSE /\ requests' = {}
        /\ signers' = [k \in Keys |-> NoSigner]
        /\ overrides' = [s \in Settings |-> [k \in Keys |-> NoValue]]
    BY DEF Crash
  <1>3. 0 \in 0..MaxGeneration
    BY MaxGenerationAssumption
  <1> QED
    BY <1>1, <1>2, <1>3 DEF TypeOK

LEMMA RestartType == TypeOK /\ Restart => TypeOK'
  <1> SUFFICES ASSUME TypeOK, Restart PROVE TypeOK'
    OBVIOUS
  <1>1. signers' \in [Keys -> Signer \cup {NoSigner}] /\ generation' \in 0..MaxGeneration
    BY RebuiltSigners DEF Restart, TypeOK
  <1>2. overrides' \in [Settings -> [Keys -> Values \cup {NoValue}]]
    <2>1. ASSUME NEW s \in Settings, NEW k \in Keys, db[k] # NoRow
          PROVE  db[k].override[s] \in Values \cup {NoValue}
      BY <2>1 DEF TypeOK, Row
    <2> QED
      BY <2>1 DEF Restart, Loaded
  <1> QED
    BY <1>1, <1>2 DEF Restart, TypeOK

LEMMA SignType == TypeOK /\ SignStep => TypeOK'
  BY DEF SignStep, Sign, EndSign, TypeOK, memoryVars

LEMMA NextType == TypeOK /\ [Next]_vars => TypeOK'
  <1> SUFFICES ASSUME TypeOK, [Next]_vars PROVE TypeOK'
    OBVIOUS
  <1>1. CASE ApiCall
    BY <1>1, ImportType, DeleteType, OverrideType DEF ApiCall
  <1>2. CASE UNCHANGED vars
    BY <1>2 DEF vars, memoryVars, TypeOK
  <1> QED
    BY <1>1, <1>2, SignType, CrashType, RestartType DEF Next

\* The variables have their types, with any URLs imported.
THEOREM TypeCorrect == Spec => []TypeOK
  BY InitType, NextType, PTL DEF Spec

-----------------------------------------------------------------------------
(* Memory follows the database *)

\* An update of a setting touches one row's setting, and no URL.
LEMMA UpdatedRows ==
    ASSUME TypeOK, NEW k \in Keys, NEW s \in Settings, NEW value \in Values \cup {NoValue},
           NEW j \in Keys
    PROVE  /\ Updated(k, s, value)[j] = NoRow <=> db[j] = NoRow
           /\ db[j] # NoRow => Updated(k, s, value)[j].url = db[j].url
           /\ db[j] # NoRow => \A t \in Settings :
                 Updated(k, s, value)[j].override[t] =
                     IF j = k /\ t = s THEN value ELSE db[j].override[t]
  <1>1. CASE db[k] = NoRow \/ j # k
    BY <1>1 DEF Updated, TypeOK
  <1>2. CASE db[k] # NoRow /\ j = k
    <2> DEFINE row == [db[k] EXCEPT !.override[s] = value]
    <2>1. db[k] \in Row
      BY <1>2 DEF TypeOK
    <2>2. Updated(k, s, value)[j] = row
      BY <1>2 DEF Updated, TypeOK
    <2>3. row.url = db[k].url /\ row \in Row
      BY <2>1 DEF Row
    <2>4. \A t \in Settings : row.override[t] = IF t = s THEN value ELSE db[k].override[t]
      BY <2>1 DEF Row
    <2> QED
      BY <1>2, <2>2, <2>3, <2>4, NoRowAssumption
  <1> QED
    BY <1>1, <1>2

LEMMA FollowNext == TypeOK /\ SignersFollowDatabase /\ [Next]_vars => SignersFollowDatabase'
  <1> SUFFICES ASSUME TypeOK, SignersFollowDatabase, [Next]_vars PROVE SignersFollowDatabase'
    OBVIOUS
  <1>1. CASE ~running' \/ Refused(db')
    BY <1>1 DEF SignersFollowDatabase, Refused
  <1>2. CASE UNCHANGED <<db, running, signers>>
    BY <1>2 DEF SignersFollowDatabase, Refused
  <1>3. CASE UpdateMapping(db', signers) /\ ~Refused(db')
    <2>1. TypeOK'
      BY NextType
    <2>2. \A k \in Keys : IF db'[k] = NoRow THEN signers'[k] = NoSigner
                           ELSE signers'[k] \in Signer /\ signers'[k].url = db'[k].url
      BY <1>3, <2>1, RebuiltSigners DEF TypeOK
    <2> QED
      BY <2>2, NoSignerAssumption DEF SignersFollowDatabase
  <1>4. ASSUME NEW k \in Keys, NEW s \in Settings, NEW value \in Values \cup {NoValue},
               SetOverride(k, s, value)
        PROVE  SignersFollowDatabase'
    <2>1. /\ db' = Updated(k, s, value) /\ running /\ signers' = signers
      BY <1>4 DEF SetOverride
    <2>2. \A j \in Keys : /\ db'[j] = NoRow <=> db[j] = NoRow
                          /\ db[j] # NoRow => db'[j].url = db[j].url
      BY <2>1, UpdatedRows
    <2>3. Refused(db) => Refused(db')
      BY <2>2 DEF Refused
    <2> QED
      BY <1>1, <2>1, <2>2, <2>3 DEF SignersFollowDatabase
  <1>5. CASE ApiCall
    BY <1>1, <1>3, <1>4, <1>5 DEF ApiCall, ImportRemoteKeys, DeleteRemoteKeys, Delete
  <1>6. CASE Restart
    BY <1>3, <1>6 DEF Restart
  <1>7. CASE SignStep \/ UNCHANGED vars
    BY <1>2, <1>7 DEF SignStep, Sign, EndSign, vars, memoryVars
  <1>8. CASE Crash
    BY <1>1, <1>8 DEF Crash
  <1> QED
    BY <1>5, <1>6, <1>7, <1>8 DEF Next

LEMMA FollowInit == Init => SignersFollowDatabase
  BY DEF Init, SignersFollowDatabase

\* While the program runs and no URL is refused, exactly the keys in the database have a
\* signer, and it is that of their row.
THEOREM SignersCorrect == Spec => []SignersFollowDatabase
  BY InitType, NextType, FollowInit, FollowNext, PTL DEF Spec

-----------------------------------------------------------------------------
(* One signer for a URL *)

\* If the keys of a URL share a signer, what a row gets depends on its URL alone.
LEMMA SharedOnly ==
    ASSUME OneSignerPerUrl, NEW k \in Keys, NEW url
    PROVE  SignerFor(k, url, signers) = SharedSigner(url, signers)
  <1>1. CASE signers[k] # NoSigner /\ signers[k].url = url
    <2>1. signers[k] \in SignersByUrl(url, signers)
      BY <1>1 DEF SignersByUrl
    <2>2. \A s \in SignersByUrl(url, signers) : s = signers[k]
      BY <1>1 DEF SignersByUrl, OneSignerPerUrl
    <2>3. SharedSigner(url, signers) = signers[k]
      BY <2>1, <2>2 DEF SharedSigner
    <2> QED
      BY <1>1, <2>3 DEF SignerFor
  <1>2. CASE ~(signers[k] # NoSigner /\ signers[k].url = url)
    BY <1>2 DEF SignerFor
  <1> QED
    BY <1>1, <1>2

LEMMA SharedNext == TypeOK /\ OneSignerPerUrl /\ [Next]_vars => OneSignerPerUrl'
  <1> SUFFICES ASSUME TypeOK, OneSignerPerUrl, [Next]_vars PROVE OneSignerPerUrl'
    OBVIOUS
  <1>1. CASE signers' = signers
    BY <1>1 DEF OneSignerPerUrl
  <1>2. CASE UpdateMapping(db', signers) /\ ~Refused(db')
    <2>1. TypeOK'
      BY NextType
    <2>2. \A k \in Keys : signers'[k] # NoSigner => /\ db'[k] # NoRow
                                                    /\ signers'[k].url = db'[k].url
      BY <1>2, <2>1, RebuiltSigners DEF TypeOK
    <2>3. \A k \in Keys : signers'[k] # NoSigner =>
             signers'[k] = SharedSigner(signers'[k].url, signers)
      BY <1>2, <2>2, SharedOnly DEF UpdateMapping, Rebuilt
    <2> QED
      BY <2>3 DEF OneSignerPerUrl
  <1>3. CASE signers' = [k \in Keys |-> NoSigner]
    BY <1>3 DEF OneSignerPerUrl
  <1>4. CASE ApiCall
    BY <1>1, <1>2, <1>4 DEF ApiCall, ImportRemoteKeys, DeleteRemoteKeys, Delete, SetOverride
  <1>5. CASE Restart
    BY <1>2, <1>5 DEF Restart
  <1>6. CASE SignStep \/ UNCHANGED vars
    BY <1>1, <1>6 DEF SignStep, Sign, EndSign, vars, memoryVars
  <1>7. CASE Crash
    BY <1>3, <1>7 DEF Crash
  <1> QED
    BY <1>4, <1>5, <1>6, <1>7 DEF Next

LEMMA SharedInit == Init => OneSignerPerUrl
  BY DEF Init, OneSignerPerUrl

\* Keys of one URL share one RemoteSigner, also after updates that were refused.
THEOREM SignersShared == Spec => []OneSignerPerUrl
  BY InitType, NextType, SharedInit, SharedNext, PTL DEF Spec

-----------------------------------------------------------------------------
(* Overrides *)

LEMMA OverridesNext == TypeOK /\ OverridesInEffect /\ [Next]_vars => OverridesInEffect'
  <1> SUFFICES ASSUME TypeOK, OverridesInEffect, [Next]_vars, running'
      PROVE  \A k \in Keys, s \in Settings :
                db'[k] # NoRow /\ db'[k].override[s] # NoValue =>
                    overrides'[s][k] = db'[k].override[s]
    BY DEF OverridesInEffect
  <1>1. CASE UNCHANGED <<db, running, overrides>>
    BY <1>1 DEF OverridesInEffect
  <1>2. ASSUME NEW keys \in SUBSET Keys, NEW urlOf \in [keys -> Urls],
               ImportRemoteKeys(keys, urlOf), NEW k \in Keys, NEW s \in Settings,
               db'[k] # NoRow, db'[k].override[s] # NoValue
        PROVE  overrides'[s][k] = db'[k].override[s]
    <2>1. db'[k] = db[k] \/ db'[k] = NewRow(urlOf[k])
      BY <1>2 DEF ImportRemoteKeys, Inserted
    <2>2. db'[k] # NewRow(urlOf[k])
      BY <1>2 DEF NewRow
    <2> QED
      BY <1>2, <2>1, <2>2 DEF ImportRemoteKeys, OverridesInEffect
  <1>3. ASSUME NEW keys \in SUBSET Keys, DeleteRemoteKeys(keys), NEW k \in Keys,
               NEW s \in Settings, db'[k] # NoRow, db'[k].override[s] # NoValue
        PROVE  overrides'[s][k] = db'[k].override[s]
    BY <1>3 DEF DeleteRemoteKeys, Delete, Removed, OverridesInEffect
  <1>4. ASSUME NEW j \in Keys, NEW t \in Settings, NEW value \in Values \cup {NoValue},
               SetOverride(j, t, value), NEW k \in Keys, NEW s \in Settings,
               db'[k] # NoRow, db'[k].override[s] # NoValue
        PROVE  overrides'[s][k] = db'[k].override[s]
    <2>1. /\ db' = Updated(j, t, value) /\ running
          /\ overrides' = [overrides EXCEPT ![t][j] = value]
      BY <1>4 DEF SetOverride
    <2>2. /\ db[k] # NoRow
          /\ db'[k].override[s] = IF k = j /\ s = t THEN value ELSE db[k].override[s]
      BY <1>4, <2>1, UpdatedRows
    <2>3. overrides'[s][k] = IF k = j /\ s = t THEN value ELSE overrides[s][k]
      BY <2>1 DEF TypeOK
    <2> QED
      BY <1>4, <2>1, <2>2, <2>3 DEF OverridesInEffect
  <1>5. CASE ApiCall
    BY <1>2, <1>3, <1>4, <1>5 DEF ApiCall
  <1>6. CASE Restart
    BY <1>6 DEF Restart, Loaded
  <1>7. CASE SignStep \/ UNCHANGED vars
    BY <1>1, <1>7 DEF SignStep, Sign, EndSign, vars, memoryVars
  <1>8. CASE Crash
    BY <1>8 DEF Crash
  <1> QED
    BY <1>5, <1>6, <1>7, <1>8 DEF Next

LEMMA OverridesInit == Init => OverridesInEffect
  BY DEF Init, OverridesInEffect

\* Overrides in the database are in effect, through crashes and restarts.
THEOREM OverridesCorrect == Spec => []OverridesInEffect
  BY InitType, NextType, OverridesInit, OverridesNext, PTL DEF Spec

-----------------------------------------------------------------------------
(* Deleted keys *)

\* A key whose deletion was reported is in neither place.
DeletedInv == \A k \in deleted : k \in Keys => db[k] = NoRow /\ signers[k] = NoSigner

LEMMA DeletedNext == TypeOK /\ DeletedInv /\ [Next]_vars => DeletedInv'
  <1> SUFFICES ASSUME TypeOK, DeletedInv, [Next]_vars, NEW k \in deleted', k \in Keys
      PROVE  db'[k] = NoRow /\ signers'[k] = NoSigner
    BY DEF DeletedInv
  <1>1. CASE UNCHANGED <<db, signers, deleted>>
    BY <1>1 DEF DeletedInv
  <1>2. ASSUME NEW keys \in SUBSET Keys, NEW urlOf \in [keys -> Urls],
               ImportRemoteKeys(keys, urlOf)
        PROVE  db'[k] = NoRow /\ signers'[k] = NoSigner
    <2>1. k \in deleted /\ k \notin keys
      BY <1>2 DEF ImportRemoteKeys
    <2>2. db'[k] = NoRow
      BY <1>2, <2>1 DEF ImportRemoteKeys, Inserted, DeletedInv
    <2> QED
      BY <1>2, <2>1, <2>2 DEF ImportRemoteKeys, UpdateMapping, Rebuilt, DeletedInv
  <1>3. ASSUME NEW keys \in SUBSET Keys, DeleteRemoteKeys(keys)
        PROVE  db'[k] = NoRow /\ signers'[k] = NoSigner
    <2>1. db'[k] = NoRow
      BY <1>3 DEF DeleteRemoteKeys, Delete, Removed, DeletedInv
    <2>2. CASE Refused(db')
      BY <1>3, <2>1, <2>2 DEF DeleteRemoteKeys, Delete, DeletedInv
    <2>3. CASE ~Refused(db')
      BY <1>3, <2>1, <2>3 DEF DeleteRemoteKeys, Delete, UpdateMapping, Rebuilt
    <2> QED
      BY <2>1, <2>2, <2>3
  <1>4. ASSUME NEW j \in Keys, NEW s \in Settings, NEW value \in Values \cup {NoValue},
               SetOverride(j, s, value)
        PROVE  db'[k] = NoRow /\ signers'[k] = NoSigner
    BY <1>4, UpdatedRows DEF SetOverride, DeletedInv
  <1>5. CASE ApiCall
    BY <1>2, <1>3, <1>4, <1>5 DEF ApiCall
  <1>6. CASE Restart
    BY <1>6 DEF Restart, UpdateMapping, Rebuilt, DeletedInv
  <1>7. CASE SignStep \/ UNCHANGED vars
    BY <1>1, <1>7 DEF SignStep, Sign, EndSign, vars, memoryVars
  <1>8. CASE Crash
    <2>1. signers'[k] = NoSigner
      BY <1>8 DEF Crash
    <2>2. CASE UNCHANGED <<db, deleted>>
      BY <2>1, <2>2 DEF DeletedInv
    <2>3. ASSUME NEW keys \in SUBSET Keys, NEW urlOf \in [keys -> Urls],
                 db' = Inserted(keys, urlOf) /\ deleted' = deleted \ keys
          PROVE  db'[k] = NoRow
      BY <2>3 DEF Inserted, DeletedInv
    <2>4. ASSUME NEW keys \in SUBSET Keys, db' = Removed(keys) /\ UNCHANGED deleted
          PROVE  db'[k] = NoRow
      BY <2>4 DEF Removed, DeletedInv
    <2>5. ASSUME NEW j \in Keys, NEW s \in Settings, NEW value \in Values \cup {NoValue},
                 db' = Updated(j, s, value) /\ UNCHANGED deleted
          PROVE  db'[k] = NoRow
      BY <2>5, UpdatedRows DEF DeletedInv
    <2> QED
      BY <1>8, <2>1, <2>2, <2>3, <2>4, <2>5 DEF Crash
  <1> QED
    BY <1>5, <1>6, <1>7, <1>8 DEF Next

LEMMA DeletedInit == Init => DeletedInv
  BY DEF Init, DeletedInv

\* No signature is requested for a key whose deletion was reported, until it is imported
\* again: at that moment it was in neither the database nor the mapping, and only an
\* import puts it back.
THEOREM DeletionsCount == Spec => DeletedKeysAreNotSigned
  <1>1. ASSUME TypeOK, DeletedInv, [Next]_vars, NEW k \in requests' \ requests
        PROVE  k \notin deleted
    <2>1. CASE ApiCall
      BY <1>1, <2>1 DEF ApiCall, ImportRemoteKeys, DeleteRemoteKeys, Delete, SetOverride
    <2>2. CASE Crash \/ Restart \/ UNCHANGED vars
      BY <1>1, <2>2 DEF Crash, Restart, vars
    <2>3. CASE SignStep
      BY <1>1, <2>3 DEF SignStep, Sign, EndSign, DeletedInv, TypeOK
    <2> QED
      BY <1>1, <2>1, <2>2, <2>3 DEF Next
  <1>2. TypeOK /\ DeletedInv /\ [Next]_vars =>
           [\A k \in requests' \ requests : k \notin deleted]_vars
    BY <1>1
  <1> QED
    BY <1>2, InitType, NextType, DeletedInit, DeletedNext, PTL
       DEF Spec, DeletedKeysAreNotSigned

-----------------------------------------------------------------------------
(* The key store *)

\* The rows of keys in both tables have the same URLs, and only keys come or only keys go.
KeysCome == \A k \in Keys : db[k] # NoRow => db'[k] # NoRow /\ db'[k].url = db[k].url
KeysGo == \A k \in Keys : db'[k] # NoRow => db[k] # NoRow /\ db'[k].url = db[k].url

LEMMA StoredIsList == TypeOK => Store!IsList(StoredUrls)
  BY DEF TypeOK, StoredUrls, Row, Store!IsList

LEMMA ListChanges == TypeOK /\ TypeOK' /\ (KeysCome \/ KeysGo) => Store!ChangeList
  <1> SUFFICES ASSUME TypeOK, TypeOK', KeysCome \/ KeysGo PROVE Store!ChangeList
    OBVIOUS
  <1>1. Store!IsList(StoredUrls')
    BY DEF TypeOK, StoredUrls, Row, Store!IsList
  <1>2. CASE KeysCome
    <2>1. Store!IsPart(StoredUrls, StoredUrls')
      BY <1>2 DEF KeysCome, StoredUrls, Store!IsPart
    <2> QED
      BY <1>1, <2>1 DEF Store!ChangeList
  <1>3. CASE KeysGo
    <2>1. Store!IsPart(StoredUrls', StoredUrls)
      BY <1>3 DEF KeysGo, StoredUrls, Store!IsPart
    <2> QED
      BY <1>1, <2>1 DEF Store!ChangeList
  <1> QED
    BY <1>2, <1>3

\* Each statement, or several of one kind, only adds rows or only deletes some.
LEMMA StatementsChange ==
    ASSUME TypeOK
    PROVE  /\ \A keys \in SUBSET Keys : \A urlOf \in [keys -> Urls] :
                 db' = Inserted(keys, urlOf) => KeysCome
           /\ \A keys \in SUBSET Keys : db' = Removed(keys) => KeysGo
           /\ \A k \in Keys, s \in Settings, value \in Values \cup {NoValue} :
                 db' = Updated(k, s, value) => KeysCome
           /\ db' = db => KeysCome
  <1>1. ASSUME NEW keys \in SUBSET Keys, NEW urlOf \in [keys -> Urls],
               db' = Inserted(keys, urlOf)
        PROVE  KeysCome
    BY <1>1 DEF Inserted, KeysCome
  <1>2. ASSUME NEW keys \in SUBSET Keys, db' = Removed(keys) PROVE KeysGo
    BY <1>2 DEF Removed, KeysGo
  <1>3. ASSUME NEW k \in Keys, NEW s \in Settings, NEW value \in Values \cup {NoValue},
               db' = Updated(k, s, value)
        PROVE  KeysCome
    BY <1>3, UpdatedRows DEF KeysCome
  <1>4. ASSUME db' = db PROVE KeysCome
    BY <1>4 DEF KeysCome
  <1> QED
    BY <1>1, <1>2, <1>3, <1>4

\* A refused row is an unusable URL of the list.
LEMMA RefusedUnusable ==
    /\ Refused(db) <=> Store!Unusable(StoredUrls)
    /\ Refused(db') <=> Store!Unusable(StoredUrls')
  BY DEF Refused, StoredUrls, Store!Unusable

\* After an update of the mapping the client serves the list.
LEMMA ServedIsStored ==
    ASSUME TypeOK, TypeOK', ~Refused(db'), UpdateMapping(db', signers)
    PROVE  ServedUrls' = StoredUrls'
  <1>1. \A k \in Keys : IF db'[k] = NoRow THEN signers'[k] = NoSigner
                        ELSE signers'[k] \in Signer /\ signers'[k].url = db'[k].url
    BY RebuiltSigners DEF TypeOK
  <1>2. \A k \in Keys : signers'[k] # NoSigner <=> db'[k] # NoRow
    BY <1>1, NoSignerAssumption
  <1>3. {j \in Keys : signers'[j] # NoSigner} = {j \in Keys : db'[j] # NoRow}
    BY <1>2
  <1> QED
    BY <1>1, <1>3 DEF ServedUrls, StoredUrls

LEMMA ImportOrDeleteIsCall ==
    ASSUME TypeOK, TypeOK', running, KeysCome \/ KeysGo,
           IF Refused(db') THEN UNCHANGED <<signers, generation>> ELSE UpdateMapping(db', signers),
           UNCHANGED <<running, requests>>
    PROVE  Store!Call
  <1>1. Store!ChangeList
    BY ListChanges
  <1>2. CASE Refused(db')
    <2>1. ServedUrls' = ServedUrls
      BY <1>2 DEF ServedUrls
    <2> QED
      BY <1>1, <1>2, <2>1, RefusedUnusable DEF Store!Call
  <1>3. CASE ~Refused(db')
    BY <1>1, <1>3, ServedIsStored, RefusedUnusable DEF Store!Call
  <1> QED
    BY <1>2, <1>3

LEMMA OverrideStutters ==
    ASSUME TypeOK, NEW k \in Keys, NEW s \in Settings, NEW value \in Values \cup {NoValue},
           SetOverride(k, s, value)
    PROVE  UNCHANGED Store!storeVars
  <1>1. \A j \in Keys : /\ db'[j] # NoRow <=> db[j] # NoRow
                        /\ db[j] # NoRow => db'[j].url = db[j].url
    BY UpdatedRows DEF SetOverride
  <1>2. {j \in Keys : db'[j] # NoRow} = {j \in Keys : db[j] # NoRow}
    BY <1>1
  <1>3. StoredUrls' = StoredUrls
    BY <1>1, <1>2 DEF StoredUrls
  <1> QED
    BY <1>3 DEF SetOverride, ServedUrls, Store!storeVars

LEMMA ApiCallIsCall ==
    TypeOK /\ TypeOK' /\ ApiCall => Store!Call \/ UNCHANGED Store!storeVars
  <1> SUFFICES ASSUME TypeOK, TypeOK', ApiCall
      PROVE  Store!Call \/ UNCHANGED Store!storeVars
    OBVIOUS
  <1>1. ASSUME NEW keys \in SUBSET Keys, NEW urlOf \in [keys -> Urls],
               ImportRemoteKeys(keys, urlOf)
        PROVE  Store!Call
    BY <1>1, StatementsChange, ImportOrDeleteIsCall DEF ImportRemoteKeys
  <1>2. ASSUME NEW keys \in SUBSET Keys, DeleteRemoteKeys(keys)
        PROVE  Store!Call
    BY <1>2, StatementsChange, ImportOrDeleteIsCall DEF DeleteRemoteKeys, Delete
  <1> QED
    BY <1>1, <1>2, OverrideStutters DEF ApiCall

LEMMA SignStepIsRequest == TypeOK /\ SignStep => Store!StoreNext
  <1> SUFFICES ASSUME TypeOK, SignStep PROVE Store!StoreNext
    OBVIOUS
  <1>1. ASSUME NEW keys \in SUBSET Keys, Sign(keys) PROVE Store!Request(keys)
    <2>1. {k \in keys : signers[k] # NoSigner} = keys \cap DOMAIN ServedUrls
      BY DEF ServedUrls
    <2> QED
      BY <1>1, <2>1 DEF Sign, memoryVars, StoredUrls, ServedUrls, Store!Request
  <1>2. ASSUME NEW k \in requests, EndSign(k) PROVE Store!EndRequest(k)
    BY <1>2 DEF EndSign, memoryVars, StoredUrls, ServedUrls, Store!EndRequest
  <1> QED
    BY <1>1, <1>2 DEF SignStep, Store!StoreNext

LEMMA CrashIsStop == TypeOK /\ TypeOK' /\ Crash => Store!Stop
  <1> SUFFICES ASSUME TypeOK, TypeOK', Crash PROVE Store!Stop
    OBVIOUS
  <1>1. KeysCome \/ KeysGo
    BY StatementsChange DEF Crash
  <1>2. ServedUrls' = Store!NoKeys
    BY DEF Crash, ServedUrls, Store!NoKeys
  <1> QED
    BY <1>1, <1>2, ListChanges DEF Crash, Store!Stop

LEMMA RestartIsStart == TypeOK /\ TypeOK' /\ Restart => Store!Start
  <1> SUFFICES ASSUME TypeOK, TypeOK', Restart PROVE Store!Start
    OBVIOUS
  <1>1. ServedUrls' = StoredUrls' /\ StoredUrls' = StoredUrls
    BY ServedIsStored DEF Restart, StoredUrls
  <1> QED
    BY <1>1, RefusedUnusable DEF Restart, Store!Start

\* Keymanager implements KeyStore: calls of the API change the list and what is served in
\* one step, while overrides, generations and the sharing of signers are invisible.
THEOREM RefinesKeyStore == Spec => ImplementsKeyStore
  <1>1. Init => Store!StoreInit
    BY DEF Init, StoredUrls, ServedUrls, Store!StoreInit, Store!NoKeys
  <1>2. TypeOK /\ TypeOK' /\ [Next]_vars => [Store!StoreNext]_(Store!storeVars)
    <2>1. CASE UNCHANGED vars
      BY <2>1 DEF vars, memoryVars, StoredUrls, ServedUrls, Store!storeVars
    <2> QED
      BY <2>1, ApiCallIsCall, SignStepIsRequest, CrashIsStop, RestartIsStart
         DEF Next, Store!StoreNext
  <1> QED
    BY <1>1, <1>2, TypeCorrect, PTL DEF Spec, ImplementsKeyStore, Store!StoreSpec

\* What KeyStore promises, by itself: a client that runs with usable URLs serves its list,
\* also after it went on with an older one for a while.
THEOREM StoreServesList == Store!StoreSpec => []Store!ServesList
  <1>1. Store!StoreInit => Store!ServesList
    BY DEF Store!StoreInit, Store!ServesList
  <1>2. Store!ServesList /\ [Store!StoreNext]_(Store!storeVars) => Store!ServesList'
    <2> SUFFICES ASSUME Store!ServesList, [Store!StoreNext]_(Store!storeVars)
        PROVE  Store!ServesList'
      OBVIOUS
    <2>1. CASE Store!Call
      BY <2>1 DEF Store!Call, Store!ServesList
    <2>2. CASE \/ \E keys \in SUBSET Keys : Store!Request(keys)
               \/ \E k \in requests : Store!EndRequest(k)
      BY <2>2 DEF Store!Request, Store!EndRequest, Store!ServesList, Store!Unusable
    <2>3. CASE Store!Stop
      BY <2>3 DEF Store!Stop, Store!ServesList
    <2>4. CASE Store!Start
      BY <2>4 DEF Store!Start, Store!ServesList
    <2>5. CASE UNCHANGED Store!storeVars
      BY <2>5 DEF Store!storeVars, Store!ServesList, Store!Unusable
    <2> QED
      BY <2>1, <2>2, <2>3, <2>4, <2>5 DEF Store!StoreNext
  <1> QED
    BY <1>1, <1>2, PTL DEF Store!StoreSpec
=============================================================================
