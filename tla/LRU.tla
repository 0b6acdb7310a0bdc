-------------------------------- MODULE LRU --------------------------------
(***************************************************************************)
(* internal/cache/lru.go.  Get and Set hold the mutex throughout, so each  *)
(* is one action; the list and the map are both kept, because the code has *)
(* to keep them in step by hand.                                           *)
(***************************************************************************)
EXTENDS Integers, Sequences, FiniteSets, Functions

CONSTANTS
    CacheKeys,
    Bodies,       \* what tells one entry of a key from another
    Sizes,        \* body lengths, zero included
    MaxTTL,       \* longest lifetime of an entry, in clock ticks
    maxEntries,   \* zero disables the bound
    maxBytes,
    Nil

ASSUME LRUAssumption ==
    /\ Sizes \subseteq Nat
    /\ MaxTTL \in Nat
    /\ maxEntries \in Nat
    /\ maxBytes \in Nat
    /\ Nil \notin Bodies

VARIABLES
    order,    \* the list, most recently used first
    index,    \* the map: each key's element of the list
    bytes,    \* the running total
    got,      \* the body the last Get returned, or Nil
    newer     \* pairs of keys, the one used later first           (history)

lruVars == <<order, index, bytes, got, newer>>

\* "left" is ExpiresAt minus now; once negative it is only ever compared to 0.
Items == [key: CacheKeys, body: Bodies, size: Sizes, left: -1..MaxTTL]

SizeOf(items) ==
    LET sum[n \in 0..Len(items)] == IF n = 0 THEN 0 ELSE sum[n - 1] + items[n].size
    IN  sum[Len(items)]

KeysOf(items) == {items[i].key : i \in DOMAIN items}

LRUTypeOK ==
    /\ order \in Seq(Items)
    /\ DOMAIN index \subseteq CacheKeys
    /\ Range(index) \subseteq Items
    /\ bytes \in Nat
    /\ got \in Bodies \cup {Nil}
    /\ newer \subseteq CacheKeys \X CacheKeys

LRUInit ==
    /\ order = <<>>
    /\ index = <<>>
    /\ bytes = 0
    /\ got = Nil
    /\ newer = {}

----------------------------------------------------------------------------

\* The elements behind the first n.
After(items, n) == SubSeq(items, n + 1, Len(items))

Used(k) == newer' = {p \in newer : k \notin Range(p)} \cup ({k} \X (CacheKeys \ {k}))

\* The list without the element the map has for the key.
Detached(k) ==
    LET i == CHOOSE i \in DOMAIN order : order[i] = index[k]
    IN  SubSeq(order, 1, i - 1) \o After(order, i)

Without(f, ks) == Restrict(f, DOMAIN f \ ks)

Expired(it) == it.left < 0

Miss(k) ==
    /\ k \notin DOMAIN index
    /\ got' = Nil
    /\ UNCHANGED <<order, index, bytes, newer>>

\* Slip: an expired element leaves the list and the map, not the total.
ExpireForgetsBytes(k) ==
    /\ k \in DOMAIN index
    /\ Expired(index[k])
    /\ order' = Detached(k)
    /\ index' = Without(index, {k})
    /\ got' = Nil
    /\ UNCHANGED <<bytes, newer>>

Expire(k) ==
    /\ k \in DOMAIN index
    /\ Expired(index[k])
    /\ order' = Detached(k)
    /\ index' = Without(index, {k})
    /\ bytes' = bytes - index[k].size
    /\ got' = Nil
    /\ UNCHANGED newer

\* Slip: a hit does not refresh the element.
HitInPlace(k) ==
    /\ k \in DOMAIN index
    /\ ~Expired(index[k])
    /\ got' = index[k].body
    /\ Used(k)
    /\ UNCHANGED <<order, index, bytes>>

\* Slip: an expired entry is still served.
HitStale(k) ==
    /\ k \in DOMAIN index
    /\ order' = <<index[k]>> \o Detached(k)
    /\ got' = index[k].body
    /\ Used(k)
    /\ UNCHANGED <<index, bytes>>

Hit(k) ==
    /\ k \in DOMAIN index
    /\ ~Expired(index[k])
    /\ order' = <<index[k]>> \o Detached(k)
    /\ got' = index[k].body
    /\ Used(k)
    /\ UNCHANGED <<index, bytes>>

Get(k) == Miss(k) \/ Expire(k) \/ Hit(k)

\* evict removes from the back until both bounds hold, by its own account, or
\* the list is empty: the longest prefix of the list that fits stays.
Within(len, total) ==
    /\ maxEntries > 0 => len <= maxEntries
    /\ maxBytes > 0 => total <= maxBytes

KeptLen(items, total) ==
    LET fits == {n \in 0..Len(items) : n = 0 \/ Within(n, total - SizeOf(After(items, n)))}
    IN  CHOOSE n \in fits : \A m \in fits : m <= n

\* Slip: the element a key had is left in the list.
InsertedTwice(it) == <<it>> \o order

\* The list with the key's old element taken out and the new one in front.
Inserted(it) ==
    <<it>> \o IF it.key \in DOMAIN index THEN Detached(it.key) ELSE order

OldSize(k) == IF k \in DOMAIN index THEN index[k].size ELSE 0

Set(it) ==
    LET all   == Inserted(it)
        total == bytes - OldSize(it.key) + it.size
        n     == KeptLen(all, total)
        gone  == After(all, n)
    IN  /\ order' = SubSeq(all, 1, n)
        /\ index' = Without([k \in DOMAIN index \cup {it.key} |->
                                IF k = it.key THEN it ELSE index[k]],
                            KeysOf(gone))
        /\ bytes' = total - SizeOf(gone)
        /\ Used(it.key)
        /\ UNCHANGED got

\* Time passes.
Older(it) == [it EXCEPT !.left = IF @ < 0 THEN @ ELSE @ - 1]

Tick ==
    /\ order' = [i \in DOMAIN order |-> Older(order[i])]
    /\ index' = [k \in DOMAIN index |-> Older(index[k])]
    /\ UNCHANGED <<bytes, got, newer>>

LRUNext ==
    \/ \E k \in CacheKeys : Get(k)
    \/ \E k \in CacheKeys, b \in Bodies, n \in Sizes, t \in 0..MaxTTL :
          Set([key |-> k, body |-> b, size |-> n, left |-> t])
    \/ Tick

LRUSpec == LRUInit /\ [][LRUNext]_lruVars

----------------------------------------------------------------------------

\* The map and the list agree: every key of one is a key of the other, once, with
\* the same element ...
IndexAgrees ==
    /\ \A k \in DOMAIN index : index[k].key = k /\ index[k] \in Range(order)
    /\ Len(order) = Cardinality(DOMAIN index)

\* ... and the running total is the sum of the sizes that are in the list.
BytesAccounted == bytes = SizeOf(order)

\* List, map and total, which Get, Set and evict keep by hand, never drift apart,
\* and after every operation the cache is within both bounds.
Consistent == IndexAgrees /\ BytesAccounted /\ Within(Len(order), bytes)

\* Eviction takes the least recently used: an unexpired entry that disappears
\* was last used before every entry that stays.
EvictsOldest ==
    [][\A lost \in DOMAIN index \ DOMAIN index', kept \in DOMAIN index' :
          ~Expired(index[lost]) => <<kept, lost>> \in newer']_lruVars

Live(k) == k \in DOMAIN index /\ ~Expired(index[k])

\* What a lookup of any key would return.
Visible == [k \in CacheKeys |-> IF Live(k) THEN index[k].body ELSE Nil]

Lossy == INSTANCE LossyStore WITH
    Keys <- CacheKeys, Entries <- Bodies, None <- Nil,
    store <- Visible

\* Get returns what was last Set and has not expired, or nothing.
ImplementsLossyStore == Lossy!Spec
=============================================================================
