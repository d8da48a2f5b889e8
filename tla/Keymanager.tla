----------------------------- MODULE Keymanager -----------------------------
(***************************************************************************)
(* providers/keymanager.py with providers/db/db.py.                        *)
(*                                                                         *)
(* The keys of the remote signers and their settings are rows of a         *)
(* database and, while the program runs, entries of dictionaries that the  *)
(* duty services read.  A call of the API runs without suspending, so it   *)
(* is one action; each of its SQL statements is a transaction of its own,  *)
(* so a crash may come between any two of them.                            *)
(***************************************************************************)
EXTENDS Integers

CONSTANTS
    Keys,           \* public keys
    Urls,           \* URLs of remote signers
    BadUrls,        \* those of them that RemoteSigner refuses
    Settings,       \* fee recipient, gas limit, graffiti
    Values,         \* values a setting is overridden with
    NoRow,          \* a key that is not in the database
    NoSigner,       \* a key without a signer
    NoValue,        \* a setting that is not overridden
    MaxGeneration   \* bound: rebuilds of the mapping that create signers, per process

ASSUME BadUrlsAssumption == BadUrls \subseteq Urls
ASSUME MaxGenerationAssumption == MaxGeneration \in Nat

Row == [url : Urls, override : [Settings -> Values \cup {NoValue}]]

\* A RemoteSigner object: two objects with one URL differ in their generation.
Signer == [url : Urls \ BadUrls, generation : Nat]

ASSUME NoRowAssumption == NoRow \notin Row
ASSUME NoSignerAssumption == NoSigner \notin Signer
ASSUME NoValueAssumption == NoValue \notin Values

VARIABLES
    db,             \* table keymanager_data
    running,        \* the program runs
    signers,        \* pubkey_to_remote_signer
    overrides,      \* pubkey_to_fee_recipient_override and its like
    generation,     \* the last rebuild of the mapping that created signers
    requests,       \* keys with a message that a RemoteSigner is signing
    deleted         \* history: keys whose deletion was reported, not imported since

memoryVars == <<signers, overrides, generation>>
vars == <<db, running, memoryVars, requests, deleted>>

TypeOK ==
    /\ db \in [Keys -> Row \cup {NoRow}]
    /\ running \in BOOLEAN
    /\ signers \in [Keys -> Signer \cup {NoSigner}]
    /\ overrides \in [Settings -> [Keys -> Values \cup {NoValue}]]
    /\ generation \in 0..MaxGeneration
    /\ requests \in SUBSET Keys
    /\ deleted \in SUBSET Keys

\* The first start, with an empty database.
Init ==
    /\ db = [k \in Keys |-> NoRow]
    /\ running = TRUE
    /\ signers = [k \in Keys |-> NoSigner]
    /\ overrides = [s \in Settings |-> [k \in Keys |-> NoValue]]
    /\ generation = 0
    /\ requests = {}
    /\ deleted = {}

-----------------------------------------------------------------------------
(* The database *)

NewRow(url) == [url |-> url, override |-> [s \in Settings |-> NoValue]]

\* INSERT of remote keys; a key that has a row is a duplicate and keeps it.
Inserted(keys, urlOf) ==
    [k \in Keys |-> IF k \in keys /\ db[k] = NoRow THEN NewRow(urlOf[k]) ELSE db[k]]

\* DELETE.
Removed(keys) == [k \in Keys |-> IF k \in keys THEN NoRow ELSE db[k]]

\* UPDATE of one setting, which finds a row or not.
Updated(k, s, value) ==
    IF db[k] = NoRow THEN db ELSE [db EXCEPT ![k].override[s] = value]

-----------------------------------------------------------------------------
(* _update_pubkey_to_remote_signer_mapping *)

\* Some row has a URL that RemoteSigner refuses: the update raises and changes nothing.
Refused(table) == \E k \in Keys : table[k] # NoRow /\ table[k].url \in BadUrls

NewSigner(url) == [url |-> url, generation |-> generation + 1]

\* signers_by_url: the signers with a URL that some key uses.
SignersByUrl(url, mapping) ==
    {mapping[k] : k \in {j \in Keys : mapping[j] # NoSigner /\ mapping[j].url = url}}

\* Another key's signer, or a new one.
SharedSigner(url, mapping) ==
    IF SignersByUrl(url, mapping) = {} THEN NewSigner(url)
    ELSE CHOOSE s \in SignersByUrl(url, mapping) : TRUE

\* Mutants of SignerFor: signers are only reused by their own keys; a key keeps the
\* signer it has.
SignerForItself(k, url, mapping) ==
    IF mapping[k] # NoSigner /\ mapping[k].url = url THEN mapping[k] ELSE NewSigner(url)
SignerKept(k, url, mapping) ==
    IF mapping[k] # NoSigner THEN mapping[k] ELSE SharedSigner(url, mapping)

\* The signer of a row: the key's own one if it has the URL.
SignerFor(k, url, mapping) ==
    IF mapping[k] # NoSigner /\ mapping[k].url = url THEN mapping[k]
    ELSE SharedSigner(url, mapping)

\* The new mapping.
Rebuilt(table, mapping) ==
    [k \in Keys |-> IF table[k] = NoRow THEN NoSigner ELSE SignerFor(k, table[k].url, mapping)]

\* Signers were created.
Created(mapping) == \E k \in Keys : mapping[k] # NoSigner /\ mapping[k].generation > generation

\* The update of the mapping, when it does not raise.
UpdateMapping(table, mapping) ==
    /\ signers' = Rebuilt(table, mapping)
    /\ generation' = IF Created(signers') THEN generation + 1 ELSE generation
    /\ generation' <= MaxGeneration

-----------------------------------------------------------------------------
(* Calls of the API *)

\* The rows are committed even if the update of the mapping raises.
ImportRemoteKeys(keys, urlOf) ==
    /\ running
    /\ db' = Inserted(keys, urlOf)
    /\ IF Refused(db') THEN UNCHANGED <<signers, generation>> ELSE UpdateMapping(db', signers)
    /\ deleted' = deleted \ keys
    /\ UNCHANGED <<running, overrides, requests>>

\* What the statements of a deletion and the update of the mapping do.
Delete(keys) ==
    /\ running
    /\ db' = Removed(keys)
    /\ IF Refused(db') THEN UNCHANGED <<signers, generation>> ELSE UpdateMapping(db', signers)
    /\ UNCHANGED <<running, overrides, requests>>

\* Mutant of DeleteRemoteKeys: the update's error is not passed on.
DeleteSilently(keys) == Delete(keys) /\ deleted' = deleted \cup keys

\* The answer is "deleted" or "not found" for each key, or an error for the whole call.
DeleteRemoteKeys(keys) ==
    /\ Delete(keys)
    /\ deleted' = IF Refused(db') THEN deleted ELSE deleted \cup keys

\* set_fee_recipient and its like, delete_configured_fee_recipient and its like
\* (NoValue): a key without a row is not found.
SetOverride(k, s, value) ==
    /\ running
    /\ db[k] # NoRow
    /\ db' = Updated(k, s, value)
    /\ overrides' = [overrides EXCEPT ![s][k] = value]
    /\ UNCHANGED <<running, signers, generation, requests, deleted>>

-----------------------------------------------------------------------------
(* Signing *)

\* sign, and sign_in_batches: keys without a signer raise, or are left out.
Sign(keys) ==
    /\ running
    /\ requests' = requests \cup {k \in keys : signers[k] # NoSigner}
    /\ UNCHANGED <<db, running, memoryVars, deleted>>

EndSign(k) ==
    /\ requests' = requests \ {k}
    /\ UNCHANGED <<db, running, memoryVars, deleted>>

-----------------------------------------------------------------------------
(* Crash and restart *)

\* The program ends, possibly within a call: some of its statements are committed.
\* Memory and the answer are lost.
Crash ==
    /\ running
    /\ \/ UNCHANGED <<db, deleted>>
       \/ \E keys \in SUBSET Keys : \E urlOf \in [keys -> Urls] :
             db' = Inserted(keys, urlOf) /\ deleted' = deleted \ keys
       \/ \E keys \in SUBSET Keys : db' = Removed(keys) /\ UNCHANGED deleted
       \/ \E k \in Keys, s \in Settings, value \in Values \cup {NoValue} :
             db' = Updated(k, s, value) /\ UNCHANGED deleted
    /\ running' = FALSE
    /\ signers' = [k \in Keys |-> NoSigner]
    /\ overrides' = [s \in Settings |-> [k \in Keys |-> NoValue]]
    /\ generation' = 0
    /\ requests' = {}

\* Mutant of Loaded: overrides are not loaded.
LoadedNone == [s \in Settings |-> [k \in Keys |-> NoValue]]

\* _load_fee_recipient_override and its like.
Loaded == [s \in Settings |-> [k \in Keys |-> IF db[k] = NoRow THEN NoValue
                                              ELSE db[k].override[s]]]

\* __init__ and __aenter__.  With a refused URL in the database the program ends again.
Restart ==
    /\ ~running
    /\ ~Refused(db)
    /\ running' = TRUE
    /\ UpdateMapping(db, signers)
    /\ overrides' = Loaded
    /\ UNCHANGED <<db, requests, deleted>>

-----------------------------------------------------------------------------

ApiCall ==
    \/ \E keys \in SUBSET Keys : \E urlOf \in [keys -> Urls] : ImportRemoteKeys(keys, urlOf)
    \/ \E keys \in SUBSET Keys : DeleteRemoteKeys(keys)
    \/ \E k \in Keys, s \in Settings, value \in Values \cup {NoValue} : SetOverride(k, s, value)

SignStep ==
    \/ \E keys \in SUBSET Keys : Sign(keys)
    \/ \E k \in requests : EndSign(k)

Next == ApiCall \/ SignStep \/ Crash \/ Restart

Spec == Init /\ [][Next]_vars

-----------------------------------------------------------------------------
(* Properties *)

\* The list of keys in the database, and list_remote_keys.
StoredUrls == [k \in {j \in Keys : db[j] # NoRow} |-> db[k].url]
ServedUrls == [k \in {j \in Keys : signers[j] # NoSigner} |-> signers[k].url]

Store == INSTANCE KeyStore WITH stored <- StoredUrls, served <- ServedUrls

\* Which signers are created, shared, reused or dropped, and in which order keys come,
\* move and go, is not seen from outside: the client serves the list of the database, or
\* goes on with the previous one while a URL is refused, and a duplicate changes nothing.
ImplementsKeyStore == Store!StoreSpec

\* Once a key's deletion was reported no message of it is handed to a signer until it is
\* imported again: a failing update of the mapping, a crash or an import of other keys
\* never brings its signer back.
DeletedKeysAreNotSigned ==
    [][\A k \in requests' \ requests : k \notin deleted]_vars

\* If no URL is refused, memory and database agree on which keys are signed for and by
\* whom, also after updates of the mapping that failed while keys moved to other URLs.
SignersFollowDatabase ==
    running /\ ~Refused(db) =>
        \A k \in Keys :
            IF db[k] = NoRow THEN signers[k] = NoSigner
            ELSE signers[k] # NoSigner /\ signers[k].url = db[k].url

\* Keys with one URL share one RemoteSigner, with its connections and health polling,
\* whatever the order in which keys came, moved and went.
OneSignerPerUrl ==
    \A j, k \in Keys :
        signers[j] # NoSigner /\ signers[k] # NoSigner /\ signers[j].url = signers[k].url =>
            signers[j] = signers[k]

\* An override in the database is in effect while the program runs, crashes between the
\* statements of a call and restarts included.
OverridesInEffect ==
    running =>
        \A k \in Keys, s \in Settings :
            db[k] # NoRow /\ db[k].override[s] # NoValue => overrides[s][k] = db[k].override[s]
=============================================================================
