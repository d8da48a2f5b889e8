------------------------------ MODULE KeyStore ------------------------------
(***************************************************************************)
(* What the keymanager promises about keys.  There is a list of keys, each *)
(* with the URL of its remote signer, that survives a crash.  Calls of the *)
(* API add keys that are not in it or remove some, and the client signs    *)
(* for the keys of the list, by these URLs, from the step on that changes  *)
(* it.  While a URL in the list cannot be used, it goes on with the list   *)
(* it has.                                                                 *)
(*                                                                         *)
(* Keymanager implements this specification with rows, dictionaries and    *)
(* signers that are shared, created and reused.                            *)
(***************************************************************************)
CONSTANTS
    Keys,       \* public keys
    Urls,       \* URLs of remote signers
    BadUrls     \* those of them that cannot be used

VARIABLES
    stored,     \* the list of keys: a URL for each
    served,     \* the keys the client signs for: a URL for each
    running,    \* the client runs
    requests    \* keys a signature is being requested for

storeVars == <<stored, served, running, requests>>

NoKeys == [k \in {} |-> {}]

StoreInit ==
    /\ stored = NoKeys
    /\ served = NoKeys
    /\ running = TRUE
    /\ requests = {}

Unusable(list) == \E k \in DOMAIN list : list[k] \in BadUrls

IsList(list) == DOMAIN list \in SUBSET Keys /\ list \in [DOMAIN list -> Urls]

\* All keys of a list are in another one, with their URLs.
IsPart(part, list) ==
    /\ DOMAIN part \subseteq DOMAIN list
    /\ \A k \in DOMAIN part : part[k] = list[k]

\* What a call, or a crash in the course of one, may do to the list: keys come or keys
\* go, and a key that stays keeps its URL.
ChangeList == IsList(stored') /\ (IsPart(stored, stored') \/ IsPart(stored', stored))

Call ==
    /\ running
    /\ UNCHANGED <<running, requests>>
    /\ ChangeList
    /\ served' = IF Unusable(stored') THEN served ELSE stored'

Request(keys) ==
    /\ running
    /\ requests' = requests \cup (keys \cap DOMAIN served)
    /\ UNCHANGED <<stored, served, running>>

EndRequest(k) ==
    /\ requests' = requests \ {k}
    /\ UNCHANGED <<stored, served, running>>

Stop ==
    /\ running
    /\ running' = FALSE
    /\ requests' = {}
    /\ served' = NoKeys
    /\ ChangeList

Start ==
    /\ ~running
    /\ ~Unusable(stored)
    /\ running' = TRUE
    /\ served' = stored
    /\ UNCHANGED <<stored, requests>>

StoreNext ==
    \/ Call
    \/ \E keys \in SUBSET Keys : Request(keys)
    \/ \E k \in requests : EndRequest(k)
    \/ Stop
    \/ Start

StoreSpec == StoreInit /\ [][StoreNext]_storeVars

-----------------------------------------------------------------------------

\* While the client runs and every URL can be used, it signs for the keys of the list.
ServesList == running /\ ~Unusable(stored) => served = stored
=============================================================================
