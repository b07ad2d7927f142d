-------------------------------- MODULE Stores --------------------------------
(***************************************************************************)
(* The key, certificate, secret, private data and key-value stores: a      *)
(* cache in front of a database table.  An operation holds the cache's     *)
(* mutex, so it is one step, but its database statement may throw after    *)
(* the cache has changed.  A restart empties the caches.  The stores share *)
(* nothing, nor do the rows of one: the model follows one row of one of    *)
(* them.  A statement commits by itself (transactions are in Database).    *)
(***************************************************************************)
EXTENDS Naturals, FiniteSets

CONSTANTS
    None,           \* an empty optional; no row
    MaxThrows,      \* bound: statements that throw
    MaxRestarts     \* bound: restarts of the program

\* An empty optional is none of the values.
ASSUME NoneAssumption == None \notin {"x", "y", "empty", "null", "plain", "revoked"}

Tables == {"certificates", "public_keys", "secrets", "private_data", "values"}

VARIABLES
    kind,           \* which store it is
    row,            \* the column of the row, None without a row
    cache,          \* the cache's entry
    asked,          \* what the owner last stored, by an operation that did not throw
    torn,           \* the last change threw
    throws, restarts

storeVars == <<kind, row, cache, asked, torn, throws, restarts>>

StoresInit ==
    /\ kind \in Tables /\ row = None /\ cache = None /\ asked = None /\ torn = FALSE
    /\ throws = 0 /\ restarts = 0

\* sqlite3_bind_blob: the data of an empty vector is a null pointer, which is bound as NULL.
bind_blob(v) == IF v = "empty" THEN "null" ELSE v

\* find of each database: the row's column, deserialised.
public_key_database_find == row
certificate_database_find == row
private_data_database_find == IF row = "null" THEN None ELSE row
key_value_database_find == IF row = "null" THEN None ELSE row
shared_secret_database_find == IF row = "null" THEN "empty" ELSE row

DatabaseFind ==
    CASE kind = "public_keys" -> public_key_database_find
      [] kind = "certificates" -> certificate_database_find
      [] kind = "private_data" -> private_data_database_find
      [] kind = "values" -> key_value_database_find
      [] kind = "secrets" -> shared_secret_database_find

Served == IF cache # None THEN cache ELSE DatabaseFind

-----------------------------------------------------------------------------
\* The statement succeeds, or it throws and leaves the table as it was.
Statement(column, value) ==
    \/ row' = column /\ asked' = value /\ torn' = FALSE /\ UNCHANGED throws
    \/ /\ throws < MaxThrows /\ throws' = throws + 1
       /\ torn' = TRUE /\ UNCHANGED <<row, asked>>

\* The cache changes first, then its backend.
Put(t, v) == kind = t /\ cache' = v /\ Statement(bind_blob(v), v) /\ UNCHANGED <<kind, restarts>>
Drop(t) == kind = t /\ cache' = None /\ Statement(None, None) /\ UNCHANGED <<kind, restarts>>
\* A miss asks the backends and keeps what they find.
Get(t) ==
    /\ kind = t /\ cache = None /\ cache' = DatabaseFind
    /\ UNCHANGED <<kind, row, asked, torn, throws, restarts>>

public_key_cache_insert(v) == Put("public_keys", v)
public_key_cache_find == Get("public_keys")
public_key_cache_remove == Drop("public_keys")

private_data_cache_set_my_private_key(v) == Put("private_data", v)
private_data_cache_my_private_key == Get("private_data")
private_data_cache_set_my_certificate_chain(v) == Put("private_data", v)
private_data_cache_my_certificate_chain == Get("private_data")
private_data_cache_insert(v) == Put("private_data", v)
private_data_cache_find == Get("private_data")
private_data_cache_erase == Drop("private_data")

key_value_cache_insert(v) == Put("values", v)
key_value_cache_find == Get("values")
key_value_cache_erase == Drop("values")

key_value_cache_clear_Cache ==
    /\ kind = "values" /\ cache' = None /\ asked' = None
    /\ UNCHANGED <<kind, row, torn, throws, restarts>>

key_value_cache_clear == Drop("values")

shared_secret_cache_insert(v) == Put("secrets", v)
shared_secret_cache_remove == Drop("secrets")
shared_secret_cache_find == Get("secrets")

certificate_database_insert_Replace(v) == Statement(v, v)

\* certificate_database::insert refuses to replace a revoked certificate.
certificate_database_insert(v) ==
    IF row = "revoked" THEN torn' = TRUE /\ UNCHANGED <<row, asked, throws>>
    ELSE Statement(v, v)

\* The cache refuses it too, for what it holds itself.
certificate_cache_insert(v) ==
    /\ kind = "certificates" /\ cache # "revoked"
    /\ cache' = v
    /\ certificate_database_insert(v) /\ UNCHANGED <<kind, restarts>>
certificate_cache_remove == Drop("certificates")
certificate_cache_find == Get("certificates")

Restart ==
    /\ restarts < MaxRestarts /\ restarts' = restarts + 1
    /\ cache' = None
    /\ UNCHANGED <<kind, row, asked, torn, throws>>

StoresNext ==
    \/ \E v \in {"x", "y"} :
          \/ public_key_cache_insert(v) \/ private_data_cache_set_my_private_key(v)
          \/ private_data_cache_set_my_certificate_chain(v)
    \/ \E v \in {"x", "empty"} :
          private_data_cache_insert(v) \/ key_value_cache_insert(v) \/ shared_secret_cache_insert(v)
    \/ \E v \in {"plain", "revoked"} : certificate_cache_insert(v)
    \/ public_key_cache_find \/ public_key_cache_remove
    \/ private_data_cache_my_private_key \/ private_data_cache_my_certificate_chain
    \/ private_data_cache_find \/ private_data_cache_erase
    \/ key_value_cache_find \/ key_value_cache_erase \/ key_value_cache_clear
    \/ shared_secret_cache_find \/ shared_secret_cache_remove
    \/ certificate_cache_find \/ certificate_cache_remove
    \/ Restart

StoresSpec == StoresInit /\ [][StoresNext]_storeVars

-----------------------------------------------------------------------------
\* A store gives back what was last put into it, from the cache or after a restart from the
\* table, unless the change threw half way, or the value is empty and the table cannot tell it
\* from none (the secrets' can).
StoreServesStored ==
    \/ torn
    \/ Served = asked
    \/ asked = "empty" /\ kind \in {"private_data", "values"} /\ Served = None

\* A revoked certificate stays revoked: its row is never again an unrevoked one, and the store
\* serves it as revoked, unless an insert that the database refused has put the unrevoked one
\* into the cache.
RevokedStays ==
    [][kind = "certificates" /\ row = "revoked" =>
        /\ row' \in {"revoked", None}
        /\ Served = "revoked" /\ ~torn' => Served' \in {"revoked", None}]_storeVars

=============================================================================
