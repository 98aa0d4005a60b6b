---------------------------- MODULE MemoryCache ----------------------------
(***************************************************************************)
(* The cache of utils/cache.py over its memory backend, and over Redis     *)
(* (external), whose commands may fail and are then taken for a miss or    *)
(* answered with False.  Callers use get_or_set or the cache decorator:    *)
(* both look the key up, await the function on a miss and store what it    *)
(* returned; the same key may be loaded by several callers at once.        *)
(*                                                                         *)
(* A value stands for the moment at which the function read its source.    *)
(***************************************************************************)
EXTENDS Naturals, FiniteSets, Functions

CONSTANTS Keys, Callers,
          Ttl,      \* config.ttl, in ticks; 0 keeps an entry for ever
          MaxSize,  \* config.max_size
          LoadTime, \* ticks after which a function has answered
          MaxTime   \* ticks of the clock

VARIABLES backend,  \* "memory" or "redis"
          now,
          cache,    \* _cache: from the keys it holds to value and expiry
          access,   \* _access_times
          caller    \* what a caller is loading, and since when

vars == <<backend, now, cache, access, caller>>

Idle == [key |-> "none", since |-> 0]
Held == DOMAIN cache
Used == IF backend = "memory" THEN now ELSE 0   \* Redis keeps no access times
Without(f, k) == Restrict(f, DOMAIN f \ {k})
With(f, k, v) == [x \in DOMAIN f \cup {k} |-> IF x = k THEN v ELSE f[x]]

(* mutant: entries do not expire *)
Expired_never(k) == FALSE

Expired(k) == Ttl > 0 /\ now > cache[k].expires

(* Redis drops what has expired by itself. *)
Live(k) == k \in Held /\ ~Expired(k)

(* mutant: the access time is left behind *)
Forget_entry(c, a, k) == <<Without(c, k), a>>

(* delete: the entry and its access time go together. *)
Forget(c, a, k) == <<Without(c, k), Without(a, k)>>

(* _evict_oldest: the key that was used longest ago; ties are broken by the *)
(* order of the dictionary.                                                 *)
Oldest == {k \in DOMAIN access : \A j \in DOMAIN access : access[k] <= access[j]}

(* set on the memory backend: when the cache is full the oldest key goes   *)
(* first, also when the key that is set is there already.                  *)
Put(k, v, c, a) ==
  /\ cache' = With(c, k, [value |-> v, expires |-> now + Ttl])
  /\ access' = With(a, k, Used)

SetMemory(k, v) ==
  /\ backend = "memory"
  /\ \/ Cardinality(Held) < MaxSize /\ Put(k, v, cache, access)
     \/ Cardinality(Held) >= MaxSize /\ Oldest = {} /\ Put(k, v, cache, access)
     \/ /\ Cardinality(Held) >= MaxSize
        /\ \E old \in Oldest : LET rest == Forget(cache, access, old) IN Put(k, v, rest[1], rest[2])

SetRedis(k, v) ==
  /\ backend = "redis"
  /\ \/ Put(k, v, cache, access)
     \/ UNCHANGED <<cache, access>>
-----------------------------------------------------------------------------
(* get finds a live entry: it is handed out, and counts as used.           *)
Hit(c, k) ==
  /\ caller[c] = Idle
  /\ Live(k)
  /\ access' = With(access, k, Used)
  /\ UNCHANGED <<backend, now, cache, caller>>

(* get finds nothing, or an expired entry, which it deletes, or Redis does *)
(* not answer: the function is called and awaited.                         *)
Miss(c, k) ==
  /\ caller[c] = Idle
  /\ ~Live(k) \/ backend = "redis"
  /\ LET rest == IF k \in Held /\ Expired(k) THEN Forget(cache, access, k) ELSE <<cache, access>> IN
     cache' = rest[1] /\ access' = rest[2]
  /\ caller' = [caller EXCEPT ![c] = [key |-> k, since |-> now]]
  /\ UNCHANGED <<backend, now>>

(* The function has answered with what it read at some moment since it was *)
(* called: the value is stored and handed out.                             *)
Loaded(c) ==
  /\ caller[c] # Idle
  /\ \E value \in caller[c].since..now :
       SetMemory(caller[c].key, value) \/ SetRedis(caller[c].key, value)
  /\ caller' = [caller EXCEPT ![c] = Idle]
  /\ UNCHANGED <<backend, now>>

LoadFails(c) ==
  /\ caller[c] # Idle
  /\ caller' = [caller EXCEPT ![c] = Idle]
  /\ UNCHANGED <<backend, now, cache, access>>

(* delete, and what exists and get_stats do to expired entries.  A Redis   *)
(* that does not answer has not deleted.                                   *)
Delete(k) ==
  /\ k \in Held
  /\ LET rest == Forget(cache, access, k) IN cache' = rest[1] /\ access' = rest[2]
  /\ UNCHANGED <<backend, now, caller>>

Clear ==
  /\ Held # {}
  /\ cache' = <<>> /\ access' = <<>>
  /\ UNCHANGED <<backend, now, caller>>

Tick ==
  /\ now < MaxTime
  /\ \A c \in Callers : caller[c] # Idle => now < caller[c].since + LoadTime
  /\ now' = now + 1
  /\ UNCHANGED <<backend, cache, access, caller>>
-----------------------------------------------------------------------------
Init ==
  /\ backend \in {"memory", "redis"}
  /\ now = 0 /\ cache = <<>> /\ access = <<>>
  /\ caller = [c \in Callers |-> Idle]

Next ==
  \/ \E c \in Callers, k \in Keys : Hit(c, k) \/ Miss(c, k)
  \/ \E c \in Callers : Loaded(c) \/ LoadFails(c)
  \/ \E k \in Keys : Delete(k)
  \/ Clear \/ Tick

Spec == Init /\ [][Next]_vars
-----------------------------------------------------------------------------
TypeOK ==
  /\ backend \in {"memory", "redis"} /\ now \in 0..MaxTime
  /\ Held \subseteq Keys /\ DOMAIN access \subseteq Keys
  /\ \A k \in Held : cache[k].value \in 0..now /\ cache[k].expires \in 0..(MaxTime + Ttl)
  /\ \A k \in DOMAIN access : access[k] \in 0..now
  /\ caller \in [Callers -> [key : Keys, since : 0..now] \cup {Idle}]

(* The access times are those of the entries, so that there is always one  *)
(* to evict, and the memory backend never outgrows its size.               *)
CacheIsBounded ==
  /\ DOMAIN access = Held
  /\ backend = "memory" => Cardinality(Held) <= MaxSize

(* What a hit would hand out is never older than an entry's life and one   *)
(* call of the function, however loads, hits, deletions and evictions are  *)
(* interleaved.                                                            *)
HitsAreFresh == Ttl > 0 => \A k \in Held : Live(k) => now - cache[k].value <= Ttl + LoadTime
=============================================================================
