--------------------------- MODULE UploadClients ---------------------------
(***************************************************************************)
(* The HTTP clients for presigned uploads, one per destination, pinned to  *)
(* addresses that were resolved and validated once: upload_prepared_part   *)
(* and the cache it uses, src/crates/qqbot-protocol/src/openapi.rs.        *)
(*                                                                         *)
(* Uploads that find no client agree on one of them to resolve the host:   *)
(* they share a mutex that is kept in a map only as long as somebody holds *)
(* it (Weak).  A mutex is a number, so that a map which hands out a second *)
(* one for a host while the first is in use would show.                    *)
(***************************************************************************)
EXTENDS Integers, Sequences, FiniteSets, SequencesExt

CONSTANTS
    Uploads,        \* calls of upload_prepared_part
    Hosts,          \* host and port
    HostOf,         \* where an upload goes
    Capacity        \* MAX_UPLOAD_CLIENT_CACHE_ENTRIES

UploadAssumption == HostOf \in [Uploads -> Hosts] /\ Capacity \in Nat \ {0}

VARIABLES
    cache,          \* upload_clients: a queue of [host, fresh]
    initializers,   \* upload_initializers: the mutex of a host, 0 for none
    held,           \* the mutex an upload holds a reference to, 0 for none
    pc

vars == <<cache, initializers, held, pc>>

Init ==
    /\ cache = <<>>
    /\ initializers = [h \in Hosts |-> 0]
    /\ held = [u \in Uploads |-> 0]
    /\ pc = [u \in Uploads |-> "start"]

Fresh(entry) == entry.fresh
Pruned == SelectSeq(cache, Fresh)           \* cache.retain(expires_at > now)
Cached(h) == \E i \in DOMAIN cache : cache[i].fresh /\ cache[i].host = h

Goto(u, place) == pc' = [pc EXCEPT ![u] = place]
\* The guard and the reference go when the upload has its client or fails.
Leave(u, place) == Goto(u, place) /\ held' = [held EXCEPT ![u] = 0]

Look(u) ==
    /\ pc[u] = "start"
    /\ cache' = Pruned
    /\ Goto(u, IF Cached(HostOf[u]) THEN "put" ELSE "agree")
    /\ UNCHANGED <<initializers, held>>

Alive(m) == \E u \in Uploads : held[u] = m
Unused == CHOOSE m \in 1..Cardinality(Uploads) + 1 : ~Alive(m)
Agreed(h) == IF initializers[h] # 0 /\ Alive(initializers[h]) THEN initializers[h] ELSE Unused

\* upload_initializer(): forgets the mutexes nobody holds, then shares or adds one.
GetInitializer(u) ==
    /\ pc[u] = "agree"
    /\ LET h == HostOf[u]
       IN /\ initializers' = [g \in Hosts |-> IF g = h THEN Agreed(h)
                                              ELSE IF Alive(initializers[g]) THEN initializers[g]
                                              ELSE 0]
          /\ held' = [held EXCEPT ![u] = Agreed(h)]
    /\ Goto(u, "lock")
    /\ UNCHANGED cache

Inside == {"recheck", "resolve", "build", "store"}

LockInitializer(u) ==
    /\ pc[u] = "lock"
    /\ \A v \in Uploads : held[v] = held[u] => pc[v] \notin Inside
    /\ Goto(u, "recheck")
    /\ UNCHANGED <<cache, initializers, held>>

LookAgain(u) ==
    /\ pc[u] = "recheck"
    /\ cache' = Pruned
    /\ IF Cached(HostOf[u]) THEN Leave(u, "put") ELSE Goto(u, "resolve") /\ UNCHANGED held
    /\ UNCHANGED initializers

\* resolve_upload_destination() and the first look of upload_client_for().
Resolved(u) ==
    /\ pc[u] = "resolve"
    /\ Goto(u, "build")
    /\ UNCHANGED <<cache, initializers, held>>

Build(u) ==
    /\ pc[u] = "build"
    /\ cache' = Pruned
    /\ IF Cached(HostOf[u]) THEN Leave(u, "put") ELSE Goto(u, "store") /\ UNCHANGED held
    /\ UNCHANGED initializers

\* The oldest entry makes room for the new one.
Stored(h) ==
    Append(IF Len(Pruned) >= Capacity THEN Tail(Pruned) ELSE Pruned, [host |-> h, fresh |-> TRUE])

Store(u) ==
    /\ pc[u] = "store"
    /\ cache' = IF Cached(HostOf[u]) THEN Pruned ELSE Stored(HostOf[u])
    /\ Leave(u, "put")
    /\ UNCHANGED initializers

Put(u) ==
    /\ pc[u] = "put"
    /\ Goto(u, "done")
    /\ UNCHANGED <<cache, initializers, held>>

\* The deadline passes, the resolution fails or the caller drops the upload, at any await.
Fail(u) ==
    /\ pc[u] \notin {"start", "done"}
    /\ Leave(u, "done")
    /\ UNCHANGED <<cache, initializers>>

\* UPLOAD_CLIENT_CACHE_TTL has passed for the oldest entry that is still fresh.
Expire ==
    \E i \in DOMAIN cache :
       /\ cache[i].fresh
       /\ \A j \in 1..i - 1 : ~cache[j].fresh
       /\ cache' = [cache EXCEPT ![i].fresh = FALSE]
       /\ UNCHANGED <<initializers, held, pc>>

Upload(u) ==
    \/ Look(u) \/ GetInitializer(u) \/ LockInitializer(u) \/ LookAgain(u)
    \/ Resolved(u) \/ Build(u) \/ Store(u) \/ Put(u) \/ Fail(u)

Next == (\E u \in Uploads : Upload(u)) \/ Expire

Spec == Init /\ [][Next]_vars
----------------------------------------------------------------------------
(***************************************************************************)
(* One upload at a time resolves a host and makes its client, whoever else *)
(* fails, ends or comes in between (upload_initializer and its weak        *)
(* references); the cache holds at most one client of a host and no more   *)
(* than its capacity, the expired ones included.                           *)
(***************************************************************************)
OneResolutionPerHost ==
    /\ \A u, v \in Uploads :
          u # v /\ pc[u] \in Inside /\ pc[v] \in Inside => HostOf[u] # HostOf[v]
    /\ \A i, j \in DOMAIN cache : i # j => cache[i].host # cache[j].host
    /\ Len(cache) <= Capacity
============================================================================
