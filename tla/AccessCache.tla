---------------------------- MODULE AccessCache ----------------------------
(***************************************************************************)
(* The cached access verdict of one user, key access:{user_id} in Redis:   *)
(* check_access_cached of the send path (GET, the database, SETEX) against *)
(* the writers of the term, handle_webhook and the administrator's free    *)
(* access switch (commit, then DELETE).  Either side may lose its Redis    *)
(* call; both swallow the error.                                           *)
(***************************************************************************)
EXTENDS Integers

CONSTANTS
  Readers,            \* running calls of check_access_cached
  Writers,            \* running webhooks and administrator requests
  billing_cache_ttl   \* in units of Age

ASSUME AccessCacheAssumption == billing_cache_ttl \in Nat \ {0}

VARIABLES
  paid,     \* expires_at lies ahead
  free,     \* has_free_access
  cache,    \* the verdict under the key, or "none"
  left,     \* its time to live
  rpc,      \* rpc[r]: where reader r is
  verdict,  \* verdict[r]: what reader r has read from the database
  wpc,      \* wpc[w]: "drop" between the commit and the DELETE
  steady    \* history: Ages since the verdict last changed, at most billing_cache_ttl

dbVars     == <<paid, free>>
cacheVars  == <<cache, left>>
readerVars == <<rpc, verdict>>
accessVars == <<dbVars, cacheVars, readerVars, wpc, steady>>

Verdicts == {"open", "closed"}

CacheTypeOK ==
  /\ paid \in BOOLEAN /\ free \in BOOLEAN
  /\ cache \in Verdicts \cup {"none"} /\ left \in 0 .. billing_cache_ttl
  /\ rpc \in [Readers -> {"idle", "read", "store"}]
  /\ verdict \in [Readers -> Verdicts]
  /\ wpc \in [Writers -> {"idle", "drop"}]
  /\ steady \in 0 .. billing_cache_ttl

CacheInit ==
  /\ paid \in BOOLEAN /\ free \in BOOLEAN
  /\ cache = "none" /\ left = 0
  /\ rpc = [r \in Readers |-> "idle"]
  /\ verdict = [r \in Readers |-> "closed"]
  /\ wpc = [w \in Writers |-> "idle"]
  /\ steady = billing_cache_ttl

access_is_open == IF free \/ paid THEN "open" ELSE "closed"

-----------------------------------------------------------------------------
(* check_access_cached.  A hit answers and leaves no trace.                *)

\* The GET finds nothing, or fails.
Miss(r) ==
  /\ rpc[r] = "idle"
  /\ rpc' = [rpc EXCEPT ![r] = "read"]
  /\ UNCHANGED <<dbVars, cacheVars, verdict, wpc, steady>>

check_access(r) ==
  /\ rpc[r] = "read"
  /\ verdict' = [verdict EXCEPT ![r] = access_is_open]
  /\ rpc' = [rpc EXCEPT ![r] = "store"]
  /\ UNCHANGED <<dbVars, cacheVars, wpc, steady>>

Store(r) ==
  /\ rpc[r] = "store"
  /\ cache' = verdict[r] /\ left' = billing_cache_ttl
  /\ rpc' = [rpc EXCEPT ![r] = "idle"]
  /\ UNCHANGED <<dbVars, verdict, wpc, steady>>

StoreFails(r) ==
  /\ rpc[r] = "store"
  /\ rpc' = [rpc EXCEPT ![r] = "idle"]
  /\ UNCHANGED <<dbVars, cacheVars, verdict, wpc, steady>>

-----------------------------------------------------------------------------
(* The writers of the term.                                                *)

Changed == steady' = IF access_is_open' = access_is_open THEN steady ELSE 0

\* _extend_subscription has been committed.
Extend(w) ==
  /\ wpc[w] = "idle"
  /\ paid' = TRUE /\ UNCHANGED free
  /\ Changed
  /\ wpc' = [wpc EXCEPT ![w] = "drop"]
  /\ UNCHANGED <<cacheVars, readerVars>>

\* The administrator's switch has been committed.
ToggleFreeAccess(w) ==
  /\ wpc[w] = "idle"
  /\ free' = ~free /\ UNCHANGED paid
  /\ Changed
  /\ wpc' = [wpc EXCEPT ![w] = "drop"]
  /\ UNCHANGED <<cacheVars, readerVars>>

invalidate_access_cache(w) ==
  /\ wpc[w] = "drop"
  /\ cache' = "none" /\ left' = 0
  /\ wpc' = [wpc EXCEPT ![w] = "idle"]
  /\ UNCHANGED <<dbVars, readerVars, steady>>

\* Redis fails, or the process dies after the commit.
InvalidateFails(w) ==
  /\ wpc[w] = "drop"
  /\ wpc' = [wpc EXCEPT ![w] = "idle"]
  /\ UNCHANGED <<dbVars, cacheVars, readerVars, steady>>

-----------------------------------------------------------------------------
(* Time.                                                                   *)

\* The term runs out; nobody drops the key.
PeriodEnds ==
  /\ paid
  /\ paid' = FALSE /\ UNCHANGED free
  /\ Changed
  /\ UNCHANGED <<cacheVars, readerVars, wpc>>

\* Mutant: SET without an expiry.
Age_NoExpiry ==
  /\ \A r \in Readers : rpc[r] # "store"
  /\ steady' = IF steady < billing_cache_ttl THEN steady + 1 ELSE steady
  /\ UNCHANGED <<dbVars, cacheVars, readerVars, wpc>>

\* The key ages and expires.  No call of check_access_cached spends a whole Age
\* between its read of the database and its SETEX.
Age ==
  /\ \A r \in Readers : rpc[r] # "store"
  /\ IF left > 1
     THEN left' = left - 1 /\ UNCHANGED cache
     ELSE cache' = "none" /\ left' = 0
  /\ steady' = IF steady < billing_cache_ttl THEN steady + 1 ELSE steady
  /\ UNCHANGED <<dbVars, readerVars, wpc>>

-----------------------------------------------------------------------------

CacheNext ==
  \/ PeriodEnds \/ Age
  \/ \E r \in Readers : Miss(r) \/ check_access(r) \/ Store(r) \/ StoreFails(r)
  \/ \E w \in Writers :
       Extend(w) \/ ToggleFreeAccess(w) \/ invalidate_access_cache(w) \/ InvalidateFails(w)

CacheSpec == CacheInit /\ [][CacheNext]_accessVars

-----------------------------------------------------------------------------
(* Properties.                                                             *)

\* One TTL after access last opened or closed no cached verdict contradicts it,
\* through every interleaving of readers and writers and with every lost DELETE.
SettlesWithinTTL == cache # "none" /\ steady = billing_cache_ttl => cache = access_is_open

=============================================================================
