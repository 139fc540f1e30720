------------------------------- MODULE ShDict -------------------------------
(***************************************************************************)
(* ngx.shared.DICT, the shared dictionary of lua-nginx-module, from        *)
(* ngx_http_lua_shdict.c: the operations the gateway's Lua code performs   *)
(* on it (get, set, add, delete), each as a function from the queue        *)
(* lru_queue before the call to the queue after it.  Every call runs under *)
(* the mutex of the zone, so a call is one step.                           *)
(*                                                                         *)
(* The queue holds one entry per key, the most recently used one first;    *)
(* the red-black tree beside it only finds entries faster and is left out. *)
(* An entry takes `len` units of the zone's memory.  exp = 0 means that it *)
(* does not expire; an expired entry stays until somebody removes it.      *)
(***************************************************************************)
EXTENDS Naturals, Sequences, SequencesExt

CONSTANTS Capacity,  \* memory of the zone
          Attempts,  \* forced removals one store may try (30 in the code)
          Missing    \* what get answers for a key that is not there

ASSUME ShDictAssumption == Capacity \in Nat /\ Attempts \in Nat

Entry(k, v, len, exp) == [key |-> k, val |-> v, len |-> len, exp |-> exp]

Keys(q) == {q[i].key : i \in DOMAIN q}
Has(q, k) == \E i \in DOMAIN q : q[i].key = k
Place(q, k) == CHOOSE i \in DOMAIN q : q[i].key = k
EntryOf(q, k) == q[Place(q, k)]

Expired(e, now) == e.exp # 0 /\ e.exp <= now

Without(q, k) == IF Has(q, k) THEN RemoveAt(q, Place(q, k)) ELSE q
ToFront(q, e) == <<e>> \o Without(q, e.key)

Used(q) == FoldSeq(LAMBDA e, n : e.len + n, 0, q)

\* Seeded fault: the entries that are there already are not counted.
FitsAlone(q, len) == len <= Capacity

\* ngx_slab_alloc_locked: whether there is room (fragmentation is left out).
Fits(q, len) == Used(q) + len <= Capacity

\* ngx_http_lua_shdict_expire(ctx, 1): up to two expired entries at the cold
\* end go; the first one that has not expired stops it.
DropTail(q, now) == IF q # <<>> /\ Expired(Last(q), now) THEN Front(q) ELSE q
expireSome(q, now) == DropTail(DropTail(q, now), now)

\* Seeded fault: the forced removal takes the entry used last.
expireForcedHot(q, now) == IF q = <<>> THEN q ELSE DropTail(DropTail(Tail(q), now), now)

\* ngx_http_lua_shdict_expire(ctx, 0): the coldest entry goes, expired or
\* not, and up to two expired ones after it.
expireForced(q, now) == IF q = <<>> THEN q ELSE DropTail(DropTail(Front(q), now), now)

\* ngx_http_lua_shdict_lookup: found and alive, found and expired, missing.
lookup(q, now, k) ==
    IF ~Has(q, k) THEN "declined"
    ELSE IF Expired(EntryOf(q, k), now) THEN "done" ELSE "ok"

\* A live entry that is looked up becomes the most recently used one.
Touch(q, now, k) == IF lookup(q, now, k) = "ok" THEN ToFront(q, EntryOf(q, k)) ELSE q

\* ngx_http_lua_ffi_shdict_get.
getQueue(q, now, k) == Touch(expireSome(q, now), now, k)
getValue(q, now, k) == IF lookup(q, now, k) = "ok" THEN EntryOf(q, k).val ELSE Missing

\* The label insert of ngx_http_lua_ffi_shdict_store: without room, entries
\* are removed by force until there is, at most Attempts times.
insert(q, now, e) ==
    LET after[i \in 0..Attempts] == IF i = 0 THEN q ELSE expireForced(after[i - 1], now)
        enough == {i \in 0..Attempts : Fits(after[i], e.len)}
    IN  IF enough = {} THEN [q |-> after[Attempts], rc |-> "no memory"]
        ELSE LET i == CHOOSE i \in enough : \A j \in enough : i <= j
             IN  [q |-> <<e>> \o after[i], rc |-> "ok"]

\* ngx_http_lua_ffi_shdict_store for set, add and delete (a set of nil): an
\* entry of the same size is overwritten in place, any other one is removed
\* before the new one is inserted.
store(q0, now, op, k, v, len, ttl) ==
    LET q  == Touch(expireSome(q0, now), now, k)
        rc == lookup(q, now, k)
        e  == Entry(k, v, len, IF ttl > 0 THEN now + ttl ELSE 0)
    IN  IF op = "add" /\ rc = "ok" THEN [q |-> q, rc |-> "exists"]
        ELSE IF op = "delete" THEN [q |-> Without(q, k), rc |-> "ok"]
        ELSE IF rc # "declined" /\ EntryOf(q, k).len = len
             THEN [q |-> ToFront(q, e), rc |-> "ok"]
             ELSE insert(Without(q, k), now, e)
=============================================================================
