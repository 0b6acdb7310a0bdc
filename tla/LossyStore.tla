---------------------------- MODULE LossyStore ----------------------------
(***************************************************************************)
(* What a response cache owes its user: a lookup returns what was stored   *)
(* last under the key, or nothing; anything may be lost at any time.       *)
(***************************************************************************)
CONSTANTS Keys, Entries, None

VARIABLES
    store,   \* per key: the entry a lookup would return, or None
    got      \* the result of the last lookup

vars == <<store, got>>

Init ==
    /\ store = [k \in Keys |-> None]
    /\ got = None

\* What may be left of the contents s: any keys may have lost their entries.
Remains(s) ==
    {[k \in Keys |-> IF k \in kept THEN s[k] ELSE None] : kept \in SUBSET {k \in Keys : s[k] # None}}

Get(k) ==
    /\ got' = store[k]
    /\ UNCHANGED store

Set(k, e) ==
    /\ store' \in Remains([store EXCEPT ![k] = e])
    /\ UNCHANGED got

Lose ==
    /\ store' \in Remains(store)
    /\ UNCHANGED got

Next == Lose \/ \E k \in Keys : Get(k) \/ \E e \in Entries : Set(k, e)

Spec == Init /\ [][Next]_vars
=============================================================================
