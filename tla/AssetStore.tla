------------------------------ MODULE AssetStore ------------------------------
(***************************************************************************)
(* AssetStore of crates/plugin-host/src/assets.rs, as the commands         *)
(* browser.run, media.reply and media.send use it                          *)
(* (runtime/command.rs, execute_context_command).                          *)
(*                                                                         *)
(* Every method holds the lock from its beginning to its end, so a method  *)
(* is one step; between two methods of a command there is an await: the    *)
(* hashing of an artifact, the action of the platform.  There other        *)
(* commands, the sweeper and an unloading run, and the command may be      *)
(* dropped by its deadline.                                                *)
(***************************************************************************)
EXTENDS Integers, FiniteSets, FiniteSetsExt

CONSTANTS
    Instances,          \* plugin instances, each with one command at a time
    None,
    TTL,                \* ASSET_TTL
    MaxInstanceAssets, MaxInstanceBytes, MaxStoreAssets, MaxStoreBytes,
    MaxBytes,           \* bound: bytes of one artifact
    MaxArtifacts,       \* bound: artifacts of one browser.run
    MaxAssets,          \* bound: assets that are inserted
    MaxClock            \* bound: the clock

Assets == 1..MaxAssets

VARIABLES
    records,            \* asset to its instance, bytes and deadline, None if it is not there
    instance_usage,     \* instance to count and bytes
    total_bytes,
    command,            \* instance to its command: place, artifacts to come, bytes of the next, asset
    inserted, clock

vars == <<records, instance_usage, total_bytes, command, inserted, clock>>
state == <<records, instance_usage, total_bytes>>

Nothing == [at |-> "idle", todo |-> 0, bytes |-> 0, asset |-> None]

Init ==
    /\ records = [a \in Assets |-> None]
    /\ instance_usage = [i \in Instances |-> [count |-> 0, bytes |-> 0]]
    /\ total_bytes = 0
    /\ command = [i \in Instances |-> Nothing]
    /\ inserted = 0 /\ clock = 0

Live == {a \in Assets : records[a] # None}
OwnedBy(i, live) == {a \in live : records[a].instance = i}
BytesOf(live) == MapThenSumSet(LAMBDA a : records[a].bytes, live)

\* remove_record, once for each of the assets; these lose the count and bytes of their instance.
UsageWithout(gone) ==
    [i \in Instances |->
        [count |-> instance_usage[i].count - Cardinality(OwnedBy(i, gone)),
         bytes |-> instance_usage[i].bytes - BytesOf(OwnedBy(i, gone))]]
TotalWithout(gone) == total_bytes - BytesOf(gone)

RemoveRecords(gone) ==
    /\ records' = [a \in Assets |-> IF a \in gone THEN None ELSE records[a]]
    /\ instance_usage' = UsageWithout(gone)
    /\ total_bytes' = TotalWithout(gone)

Expired == {a \in Live : records[a].deadline <= clock}

\* has_capacity, on the state without what has expired.
HasCapacity(i, bytes) ==
    /\ UsageWithout(Expired)[i].count < MaxInstanceAssets
    /\ UsageWithout(Expired)[i].bytes + bytes <= MaxInstanceBytes
    /\ Cardinality(Live \ Expired) < MaxStoreAssets
    /\ TotalWithout(Expired) + bytes <= MaxStoreBytes

(***************************************************************************)
(* browser.run: the artifacts of the browser become assets, one by one     *)
(***************************************************************************)
Run(i) ==
    /\ command[i].at = "idle"
    /\ \E n \in 1..MaxArtifacts : command' = [command EXCEPT ![i] = [Nothing EXCEPT !.at = "artifact", !.todo = n]]
    /\ UNCHANGED <<state, inserted, clock>>

\* The command ends; when it failed, nobody knows the assets that it has made.
Ends(i) == command' = [command EXCEPT ![i] = Nothing]

Preflight(i) ==
    /\ command[i].at = "artifact" /\ command[i].todo > 0
    /\ RemoveRecords(Expired)
    /\ \E bytes \in 1..MaxBytes :
          IF HasCapacity(i, bytes)
          THEN command' = [command EXCEPT ![i].at = "hash", ![i].bytes = bytes]
          ELSE Ends(i)
    /\ UNCHANGED <<inserted, clock>>

MayInsert_AsPreflighted(i, bytes) == TRUE
\* insert_prehashed looks again: others have inserted while the artifact was hashed.
MayInsert(i, bytes) == HasCapacity(i, bytes)

InsertPrehashed(i) ==
    /\ command[i].at = "hash" /\ inserted < MaxAssets
    /\ IF MayInsert(i, command[i].bytes)
       THEN LET asset == inserted + 1
                bytes == command[i].bytes
            IN  /\ inserted' = asset
                /\ records' = [a \in Assets |->
                       IF a = asset THEN [instance |-> i, bytes |-> bytes, deadline |-> clock + TTL]
                       ELSE IF a \in Expired THEN None ELSE records[a]]
                /\ instance_usage' = [UsageWithout(Expired) EXCEPT ![i].count = @ + 1, ![i].bytes = @ + bytes]
                /\ total_bytes' = TotalWithout(Expired) + bytes
                /\ command' = [command EXCEPT ![i].at = "artifact", ![i].todo = @ - 1]
       ELSE RemoveRecords(Expired) /\ Ends(i) /\ UNCHANGED inserted
    /\ UNCHANGED clock

RunEnds(i) ==
    /\ command[i].at = "artifact" /\ command[i].todo = 0
    /\ command' = [command EXCEPT ![i] = Nothing]
    /\ UNCHANGED <<state, inserted, clock>>

(***************************************************************************)
(* media.reply and media.send: get, the action, remove if it is consumed   *)
(***************************************************************************)
IsOwner(i, a) == records[a] # None /\ records[a].instance = i

\* A plugin may name any asset, also one that it was never given.
Get(i) ==
    /\ command[i].at = "idle"
    /\ RemoveRecords(Expired)
    /\ \E a \in Assets :
          IF IsOwner(i, a) /\ a \notin Expired
          THEN command' = [command EXCEPT ![i] = [Nothing EXCEPT !.at = "send", !.asset = a]]
          ELSE UNCHANGED command
    /\ UNCHANGED <<inserted, clock>>

\* The asset may be gone by now; then the command fails although it was sent.
Consume(i) ==
    /\ command[i].at = "send"
    /\ IF IsOwner(i, command[i].asset) THEN RemoveRecords({command[i].asset}) ELSE UNCHANGED state
    /\ Ends(i)
    /\ UNCHANGED <<inserted, clock>>

Keep(i) ==
    /\ command[i].at = "send"
    /\ Ends(i)
    /\ UNCHANGED <<state, inserted, clock>>

\* The deadline of the command.
Drop(i) ==
    /\ command[i].at # "idle"
    /\ Ends(i)
    /\ UNCHANGED <<state, inserted, clock>>

(***************************************************************************)
(* remove_instance, and the sweeper                                        *)
(***************************************************************************)
RemoveInstance(i) ==
    /\ RemoveRecords(OwnedBy(i, Live))
    /\ UNCHANGED <<command, inserted, clock>>

Sweep ==
    /\ Expired # {}
    /\ RemoveRecords(Expired)
    /\ UNCHANGED <<command, inserted, clock>>

Tick ==
    /\ clock < MaxClock
    /\ clock' = clock + 1
    /\ UNCHANGED <<state, command, inserted>>

Next ==
    \/ \E i \in Instances :
          \/ Run(i) \/ Preflight(i) \/ InsertPrehashed(i) \/ RunEnds(i)
          \/ Get(i) \/ Consume(i) \/ Keep(i) \/ Drop(i) \/ RemoveInstance(i)
    \/ Sweep \/ Tick

Spec == Init /\ [][Next]_vars
----------------------------------------------------------------------------
(***************************************************************************)
(* The accounts are the sums of the records, and no limit is exceeded,     *)
(* although the capacity is looked up before an artifact is hashed and the *)
(* record is made after it (preflight, insert_prehashed, remove_record).   *)
(***************************************************************************)
AssetsAreAccounted ==
    /\ \A i \in Instances :
          /\ instance_usage[i] = [count |-> Cardinality(OwnedBy(i, Live)), bytes |-> BytesOf(OwnedBy(i, Live))]
          /\ instance_usage[i].count <= MaxInstanceAssets
          /\ instance_usage[i].bytes <= MaxInstanceBytes
    /\ total_bytes = BytesOf(Live)
    /\ Cardinality(Live) <= MaxStoreAssets /\ total_bytes <= MaxStoreBytes
=============================================================================
