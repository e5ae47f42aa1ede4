------------------------------ MODULE LruCache ------------------------------
(***************************************************************************)
(* lru_cache<T> as a value: the sequence of its items, the most recently   *)
(* used one first.  The unordered_map of iterators finds the item with a   *)
(* key; it has an entry for each item because every operation changes both *)
(* containers.  A capacity of 0 would make put() read back() of an empty   *)
(* list; the code never asks for one.                                      *)
(***************************************************************************)
EXTENDS Naturals, Sequences, SequencesExt

Item(key, value) == [key |-> key, value |-> value]

Keys(items) == {items[n].key : n \in 1..Len(items)}

contains(items, key) == key \in Keys(items)

Find(items, key) == CHOOSE n \in 1..Len(items) : items[n].key = key

\* The value get() returns, and the splice() to the front it makes.
ValueOf(items, key) == items[Find(items, key)].value

MoveToFront(items, key) ==
    <<items[Find(items, key)]>> \o RemoveAt(items, Find(items, key))

\* Mutant: nothing is erased.
EraseNothing(items, key) == items

erase(items, key) ==
    IF contains(items, key) THEN RemoveAt(items, Find(items, key)) ELSE items

\* Mutant: nothing is evicted.
PutUnbounded(items, cap, key, value) ==
    <<Item(key, value)>> \o erase(items, key)

put(items, cap, key, value) ==
    IF contains(items, key)
    THEN <<Item(key, value)>> \o RemoveAt(items, Find(items, key))
    ELSE <<Item(key, value)>> \o
         (IF Len(items) >= cap THEN Front(items) ELSE items)
=============================================================================
