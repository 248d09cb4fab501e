----------------------------- MODULE QueryCache -----------------------------
(***************************************************************************)
(* The two level cache of loaded query scripts,                            *)
(* rdb-server/src/query_cache.rs.  items is keyed by everything a loaded   *)
(* script depends on; hot_items by what an HTTP request names, so its      *)
(* entries go stale and are expired by a background task.  Both are LRU    *)
(* lists, here sequences with the least recently used entry first; both    *)
(* are only ever peeked at, so that order is the order of the insertions.  *)
(* Every operation holds one mutex at a time; time is in seconds.          *)
(***************************************************************************)
EXTENDS Integers, Sequences

CONSTANTS Clients,   \* requests that use the cache
          NoItem,    \* "not in the cache"
          Ttl,       \* HOT_ITEM_TTL
          MinSize,   \* MIN_QUERY_CACHE_SIZE
          ShrinkStep,\* QUERY_CACHE_SHRINK_STEP_SIZE
          MaxNow     \* bound on the clock

ASSUME CacheAssumption == /\ Ttl \in Nat /\ MinSize \in Nat /\ MaxNow \in Nat
                          /\ ShrinkStep \in Nat \ {0}

VARIABLES items,     \* Seq of [key, ctx]
          hot_items, \* Seq of [key, ctx, create_time]
          carry,     \* per client: what get found in items, on its way to hot_items
          now,       \* the monotonic clock
          gc,        \* where the loop of gc is: asleep, or before one of its steps
          over       \* the process used more memory than the threshold when gc
                     \* asked, which it does once: System is never refreshed

cachevars == <<items, hot_items, carry, now, gc, over>>

HotKey(key) == <<key.ns, key.qs>>
Entry(key, ctx) == [key |-> key, ctx |-> ctx]
Hot(key, ctx, time) == [key |-> key, ctx |-> ctx, create_time |-> time]

\* LruCache, a map: no key occurs twice.  peek leaves the order alone, put makes
\* its entry the latest one.
Has(lru, key) == \E i \in DOMAIN lru : lru[i].key = key
Place(lru, key) == CHOOSE i \in DOMAIN lru : lru[i].key = key
Peek(lru, key) == IF Has(lru, key) THEN lru[Place(lru, key)].ctx ELSE NoItem
DropAt(lru, i) == SubSeq(lru, 1, i - 1) \o SubSeq(lru, i + 1, Len(lru))
PutLru(lru, e) ==
  Append(IF Has(lru, e.key) THEN DropAt(lru, Place(lru, e.key)) ELSE lru, e)
PopLru(lru, n) == SubSeq(lru, n + 1, Len(lru))

CacheInit == /\ items = <<>> /\ hot_items = <<>>
             /\ carry = [c \in Clients |-> NoItem]
             /\ now = 0 /\ gc = "asleep"
             /\ over \in BOOLEAN

\* get_hot
GetHot(key) == Peek(hot_items, HotKey(key))

\* get, first half: a copy of the entry is taken out under the lock of items.
GetCold(c, key) ==
  /\ carry' = [carry EXCEPT ![c] = IF Peek(items, key) = NoItem THEN NoItem
                                   ELSE Entry(key, Peek(items, key))]
  /\ UNCHANGED <<items, hot_items, now, gc, over>>

\* get, second half: it becomes the hot entry, stamped under that lock.
Heat(c) ==
  /\ carry[c] # NoItem
  /\ hot_items' = PutLru(hot_items, Hot(HotKey(carry[c].key), carry[c].ctx, now))
  /\ carry' = [carry EXCEPT ![c] = NoItem]
  /\ UNCHANGED <<items, now, gc, over>>

\* put does not touch hot_items.
PutCold(key, ctx) ==
  /\ items' = PutLru(items, Entry(key, ctx))
  /\ UNCHANGED <<hot_items, carry, now, gc, over>>

\* Mutant of Expired: an entry is given a second more.
ExpiredLater(h) == now - h.create_time > Ttl + 1

Expired(h) == now - h.create_time > Ttl

\* The loop over peek_lru stops at the first entry that is young enough.
DropExpired(lru) ==
  LET young == {i \in DOMAIN lru : ~Expired(lru[i])}
  IN  IF young = {} THEN <<>>
      ELSE SubSeq(lru, CHOOSE i \in young : \A j \in young : i <= j, Len(lru))

\* gc, step 1, under the lock of hot_items.  It goes on to the second one by the
\* memory usage it read when it was started.
GcExpires == /\ gc = "expire"
             /\ hot_items' = DropExpired(hot_items)
             /\ gc' = IF over THEN "shrink" ELSE "asleep"
             /\ UNCHANGED <<items, carry, now, over>>

\* gc, step 2, under the lock of items.
GcShrinks == /\ gc = "shrink"
             /\ items' = IF Len(items) > MinSize THEN PopLru(items, ShrinkStep) ELSE items
             /\ gc' = "asleep"
             /\ UNCHANGED <<hot_items, carry, now, over>>

\* A second passes; the round of gc that is due is not put off for another.
Tick == /\ now < MaxNow /\ gc = "asleep"
        /\ now' = now + 1
        /\ gc' = "expire"
        /\ UNCHANGED <<items, hot_items, carry, over>>

-----------------------------------------------------------------------------
\* A hot entry is gone a round of gc after its time to live: entries that are
\* heated again and again do not keep older ones alive.
HotEntriesExpire ==
  \A i \in DOMAIN hot_items :
    now - hot_items[i].create_time <= Ttl + (IF gc = "expire" THEN 1 ELSE 0)
=============================================================================
