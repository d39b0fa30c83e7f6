-------------------------- MODULE StorageMigration --------------------------
(***************************************************************************)
(* PluginStore::open on a database of an earlier version: the table of the *)
(* installed plugins gets its columns one statement at a time, while other *)
(* processes (the bot, other commands) open the same file, write the rows  *)
(* and are killed.  A statement or transaction of SQLite is one step.      *)
(***************************************************************************)
EXTENDS Naturals

CONSTANTS Processes, Instances, MaxKills

VARIABLES columns,      \* those of `plugin_installations` that are not in every version
          rows,         \* the installed plugins
          others,       \* the columns added to the other tables
          pc, mem,      \* of each process, and what it has looked up
          installed,    \* history: the plugins that were installed and not removed
          listed,       \* history: the rows whose administrators a user has named
          kills

vars == <<columns, rows, others, pc, mem, installed, listed, kills>>

Legacy == {"name", "description"}
Added == {"health_generation", "failure_generation"}

\* `admins`: whether the configuration has administrators; `explicit` tells who named them.
Row == [metadata : {"null", "derived", "written"}, admins : BOOLEAN, explicit : BOOLEAN]

Current == columns \cap Legacy = {} /\ {"metadata", "admins_explicit"} \subseteq columns

\* The database of a version with texts in columns of their own, of one without the flag, or of this one.
Init ==
    /\ columns \in {{"name"}, Legacy, {"metadata"}, {"metadata", "admins_explicit"}}
    /\ rows \in [Instances -> [metadata : {IF "metadata" \in columns THEN "written" ELSE "null"},
                               admins : BOOLEAN, explicit : {FALSE}]]
    /\ others \in {{}, Added}
    /\ pc = [p \in Processes |-> "out"]
    /\ mem = [p \in Processes |-> [legacy |-> {}, records |-> {}]]
    /\ installed = Instances
    /\ listed = IF "admins_explicit" \in columns THEN {} ELSE {n \in Instances : rows[n].admins}
    /\ kills = 0

Goto(p, place) == pc' = [pc EXCEPT ![p] = place]
Fail(p) == Goto(p, "out") /\ UNCHANGED <<columns, rows, others, mem>>
History == UNCHANGED <<installed, listed, kills>>

(***************************************************************************)
(* ensure_column                                                           *)
(***************************************************************************)
\* The tables are there.
FromConnection(p) ==
    /\ pc[p] = "out"
    /\ Goto(p, "health_generation")
    /\ UNCHANGED <<columns, rows, others, mem>> /\ History

After(column) ==
    CASE column = "health_generation" -> "failure_generation"
      [] column = "failure_generation" -> "metadata"
      [] column = "metadata" -> "look"

Adding(column) ==
    CASE column = "health_generation" -> "add health_generation"
      [] column = "failure_generation" -> "add failure_generation"
      [] column = "metadata" -> "add metadata"

TableColumns == columns \cup others

Look(p, column) ==
    /\ pc[p] = column
    /\ Goto(p, IF column \in TableColumns THEN After(column) ELSE Adding(column))
    /\ UNCHANGED <<columns, rows, others, mem>> /\ History

\* It fails when another process has added the column since.
AddColumn(p, column) ==
    /\ pc[p] = Adding(column)
    /\ IF column \in TableColumns THEN Fail(p)
       ELSE /\ IF column = "metadata" THEN columns' = columns \cup {column} /\ UNCHANGED others
               ELSE others' = others \cup {column} /\ UNCHANGED columns
            /\ Goto(p, After(column))
            /\ UNCHANGED <<rows, mem>>
    /\ History

(***************************************************************************)
(* migrate_installation_metadata                                           *)
(***************************************************************************)
LookLegacy(p) ==
    /\ pc[p] = "look"
    /\ mem' = [mem EXCEPT ![p].legacy = columns \cap Legacy]
    /\ Goto(p, "select")
    /\ UNCHANGED <<columns, rows, others>> /\ History

Unmigrated == {n \in DOMAIN rows : rows[n].metadata = "null"}

\* The statement names the legacy columns that were there.
Select(p) ==
    /\ pc[p] = "select"
    /\ IF mem[p].legacy \subseteq columns
       THEN /\ mem' = [mem EXCEPT ![p].records = Unmigrated]
            /\ Goto(p, "update")
            /\ UNCHANGED <<columns, rows, others>>
       ELSE Fail(p)
    /\ History

Update(p, n) ==
    /\ pc[p] = "update" /\ n \in mem[p].records
    /\ rows' = [m \in DOMAIN rows |-> IF m = n THEN [rows[m] EXCEPT !.metadata = "derived"] ELSE rows[m]]
    /\ mem' = [mem EXCEPT ![p].records = @ \ {n}]
    /\ UNCHANGED <<columns, others, pc>> /\ History

\* The table of the latest release that had no flag; all rows are copied, or none.
Copied == [n \in DOMAIN rows |-> [rows[n] EXCEPT !.explicit = FALSE]]

Rebuild(p) ==
    /\ pc[p] = "update" /\ mem[p].records = {}
    /\ IF mem[p].legacy = {} THEN Goto(p, "flag") /\ UNCHANGED <<columns, rows, others, mem>>
       ELSE columns' = {"metadata"} /\ rows' = Copied /\ Goto(p, "flag") /\ UNCHANGED <<others, mem>>
    /\ History

(***************************************************************************)
(* migrate_installation_admins_explicit                                    *)
(***************************************************************************)
LookFlag(p) ==
    /\ pc[p] = "flag"
    /\ Goto(p, IF "admins_explicit" \in columns THEN "open" ELSE "derive")
    /\ UNCHANGED <<columns, rows, others, mem>> /\ History

IsExplicit(row) == row.admins

DeriveFlag(p) ==
    /\ pc[p] = "derive"
    /\ IF "admins_explicit" \in columns THEN Fail(p)
       ELSE /\ columns' = columns \cup {"admins_explicit"}
            /\ rows' = [n \in DOMAIN rows |-> [rows[n] EXCEPT !.explicit = IsExplicit(rows[n])]]
            /\ Goto(p, "open")
            /\ UNCHANGED <<others, mem>>
    /\ History

(***************************************************************************)
(* A process that has opened the database, and those that are stopped      *)
(***************************************************************************)
\* `given`: the user names administrators; else those of the bot's owners, if the plugin has any.
Write(p, n, given, admins) ==
    /\ pc[p] = "open" /\ Current
    /\ LET kept == given \/ (n \in DOMAIN rows /\ rows[n].explicit)
           row == [metadata |-> "written", admins |-> kept \/ admins, explicit |-> kept]
       IN rows' = [m \in DOMAIN rows \cup {n} |-> IF m = n THEN row ELSE rows[m]]
    /\ installed' = installed \cup {n}
    /\ listed' = IF given THEN listed \cup {n} ELSE listed
    /\ UNCHANGED <<columns, others, pc, mem, kills>>

Remove(p, n) ==
    /\ pc[p] = "open" /\ n \in DOMAIN rows
    /\ rows' = [m \in DOMAIN rows \ {n} |-> rows[m]]
    /\ installed' = installed \ {n} /\ listed' = listed \ {n}
    /\ UNCHANGED <<columns, others, pc, mem, kills>>

\* The end of the process, or a statement that finds the database busy for too long.
Stop(p) ==
    /\ pc[p] # "out"
    /\ kills' = IF pc[p] = "open" THEN kills ELSE kills + 1
    /\ kills' <= MaxKills
    /\ Goto(p, "out")
    /\ UNCHANGED <<columns, rows, others, mem, installed, listed>>

Next ==
    \E p \in Processes :
       \/ FromConnection(p)
       \/ \E column \in Added \cup {"metadata"} : Look(p, column) \/ AddColumn(p, column)
       \/ LookLegacy(p) \/ Select(p) \/ Rebuild(p) \/ LookFlag(p) \/ DeriveFlag(p)
       \/ \E n \in Instances : \/ Update(p, n) \/ Remove(p, n)
                               \/ \E given, admins \in BOOLEAN : Write(p, n, given, admins)
       \/ Stop(p)

Spec == Init /\ [][Next]_vars
-----------------------------------------------------------------------------
(***************************************************************************)
(* Properties                                                              *)
(***************************************************************************)
\* No migration loses a plugin, wherever it is interrupted.
RowsAreKept == DOMAIN rows = installed

\* Administrators that a user has named are never taken for inherited ones, which the next update of
\* the plugin would replace.
NamedStayNamed == "admins_explicit" \in columns => \A n \in listed : rows[n].explicit

\* Once everyone who migrates is done, and nobody has been stopped in the middle, the open processes
\* can read all rows.
OpenIsReadable ==
    /\ kills = 0
    /\ \A p \in Processes : pc[p] \in {"out", "open"}
    /\ \E p \in Processes : pc[p] = "open"
    => Current /\ Unmigrated = {} /\ others = Added
=============================================================================
