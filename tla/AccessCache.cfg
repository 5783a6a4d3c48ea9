SPECIFICATION CacheSpec
CONSTANTS
  Readers = {r1, r2}
  Writers = {w1, w2}
  billing_cache_ttl = 2
INVARIANTS SettlesWithinTTL
