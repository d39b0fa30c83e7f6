-------------------------- MODULE PluginMarketplace --------------------------
(***************************************************************************)
(* From an entry of the marketplace's index to an installed plugin: one    *)
(* `bkmqb plugin install` or `update` after another, for one instance,     *)
(* while publishers change the index and the releases, the owners of the   *)
(* bot change, and other terminals enable, disable and remove the plugin.  *)
(* What happens to the package's file is in PluginInstallation.            *)
(*                                                                         *)
(* A package stands for its bytes, so it is its own SHA-256.  Names,       *)
(* texts, commands and the forms of URLs are left out; a repository is its *)
(* owner.                                                                  *)
(***************************************************************************)
EXTENDS FiniteSets

CONSTANTS Plugins, Versions, Capabilities, Repositories, Nothing

VARIABLES command,      \* the running command: its place and what it has read
          row,          \* the row of the instance
          owners,       \* whether owners are configured for the bundled admin plugin
          accepted,     \* history: the capabilities that the user has accepted and that every
                        \* version since has requested
          wanted        \* history: whether the user wants the plugin to run

vars == <<command, row, owners, accepted, wanted>>

Package ==
    [plugin : Plugins, version : Versions, capabilities : SUBSET Capabilities,
     administered : BOOLEAN]        \* whether its schema declares `admins`

Entry ==
    [plugin : Plugins, version : Versions, capabilities : SUBSET Capabilities, sha256 : Package,
     repository : Repositories, release : Repositories, tag : Versions]

Idle == [stage |-> "idle"]

Init == command = Idle /\ row = Nothing /\ owners \in BOOLEAN /\ accepted = {} /\ wanted = FALSE

(***************************************************************************)
(* The package                                                             *)
(***************************************************************************)
BelongsToRepository(entry) == entry.release = entry.repository

TagMatches(entry) == entry.tag = entry.version

IsValidEntry(entry) == BelongsToRepository(entry) /\ TagMatches(entry)

\* The entry that the selector names, of an index all of whose entries are valid.
FetchIndex(entry) ==
    /\ command = Idle /\ IsValidEntry(entry)
    /\ command' = [stage |-> "download", entry |-> entry]
    /\ UNCHANGED <<row, owners, accepted, wanted>>

\* The asset of a release may have been replaced since the index was written.
Download(bytes) ==
    /\ command.stage = "download"
    /\ command' = IF bytes = command.entry.sha256
                  THEN [stage |-> "validate", entry |-> command.entry, package |-> bytes]
                  ELSE Idle
    /\ UNCHANGED <<row, owners, accepted, wanted>>

Describes(entry, package) ==
    /\ package.plugin = entry.plugin
    /\ package.version = entry.version
    /\ package.capabilities = entry.capabilities

ValidatePackage ==
    /\ command.stage = "validate"
    /\ command' = IF Describes(command.entry, command.package)
                  THEN [stage |-> "look", package |-> command.package, entry |-> command.entry]
                  ELSE Idle
    /\ UNCHANGED <<row, owners, accepted, wanted>>

\* A path instead of a selector.
ReadPackage(package) ==
    /\ command = Idle
    /\ command' = [stage |-> "look", package |-> package, entry |-> Nothing]
    /\ UNCHANGED <<row, owners, accepted, wanted>>

(***************************************************************************)
(* The row                                                                 *)
(***************************************************************************)
\* `stale` tells that the row has another updated_at_ms than the one that was read.
ReadExisting(update) ==
    /\ command.stage = "look"
    /\ command' = IF /\ update <=> row # Nothing
                     /\ update => row.package.plugin = command.package.plugin
                  THEN [stage |-> "ask", package |-> command.package, existing |-> row, stale |-> FALSE]
                  ELSE Idle
    /\ UNCHANGED <<row, owners, accepted, wanted>>

\* The user accepts all that is requested, or names some; what an earlier version was granted stays.
Granted(accepts, grants) ==
    LET kept == IF command.existing = Nothing THEN {}
                ELSE command.existing.granted \cap command.package.capabilities
    IN IF accepts THEN command.package.capabilities ELSE kept \cup grants

\* The administrators of the plugin: given by the user now or before, or else the bot's owners.
Administrators(given) ==
    IF given \/ (command.existing # Nothing /\ command.existing.admins = "given") THEN "given"
    ELSE IF command.package.administered /\ owners THEN "owners"
    ELSE "none"

\* With the answers of the user, who may also decline.
ResolveGrants(accepts, grants, given) ==
    /\ command.stage = "ask" /\ grants \subseteq command.package.capabilities
    /\ command' = [stage |-> "write", package |-> command.package, existing |-> command.existing,
                   stale |-> command.stale, granted |-> Granted(accepts, grants),
                   now |-> IF accepts THEN command.package.capabilities ELSE grants,
                   admins |-> Administrators(given)]
    /\ UNCHANGED <<row, owners, accepted, wanted>>

MayWrite == ~ command.stale

IsComplete(validConfig) == validConfig /\ command.package.capabilities \subseteq command.granted

\* A configuration that the plugin refuses is written, but the plugin is not enabled.
FinishInstallation(validConfig) ==
    /\ command.stage = "write"
    /\ command' = Idle
    /\ IF MayWrite
       THEN /\ row' = [package |-> command.package, granted |-> command.granted,
                       admins |-> command.admins,
                       enabled |-> /\ command.existing = Nothing \/ command.existing.enabled
                                   /\ IsComplete(validConfig)]
            /\ accepted' = command.now \cup
                              (IF row = Nothing THEN {} ELSE accepted \cap command.package.capabilities)
            /\ wanted' = (wanted \/ row = Nothing)
       ELSE UNCHANGED <<row, accepted, wanted>>
    /\ UNCHANGED owners

\* An error, an interruption, or the user who declines.
Stop ==
    /\ command # Idle
    /\ command' = Idle
    /\ UNCHANGED <<row, owners, accepted, wanted>>

(***************************************************************************)
(* Meanwhile                                                               *)
(***************************************************************************)
Stale == IF command.stage \in {"ask", "write"} THEN [command EXCEPT !.stale = TRUE] ELSE command

\* It asks for nothing: neither for capabilities nor for a valid configuration.
SetEnabled(enabled) ==
    /\ row # Nothing
    /\ row' = [row EXCEPT !.enabled = enabled]
    /\ wanted' = enabled
    /\ command' = Stale
    /\ UNCHANGED <<owners, accepted>>

Remove ==
    /\ row # Nothing
    /\ row' = Nothing /\ wanted' = FALSE /\ accepted' = {}
    /\ command' = Stale
    /\ UNCHANGED owners

ConfigureOwners ==
    /\ owners' = ~ owners
    /\ UNCHANGED <<command, row, accepted, wanted>>

Next ==
    \/ \E entry \in Entry : FetchIndex(entry)
    \/ \E package \in Package : Download(package) \/ ReadPackage(package)
    \/ ValidatePackage
    \/ \E update \in BOOLEAN : ReadExisting(update)
    \/ \E accepts, given \in BOOLEAN, grants \in SUBSET Capabilities : ResolveGrants(accepts, grants, given)
    \/ \E validConfig \in BOOLEAN : FinishInstallation(validConfig)
    \/ Stop
    \/ \E enabled \in BOOLEAN : SetEnabled(enabled)
    \/ Remove \/ ConfigureOwners

Spec == Init /\ [][Next]_vars
-----------------------------------------------------------------------------
(***************************************************************************)
(* Properties                                                              *)
(***************************************************************************)
\* A package from the marketplace is what its entry says, when the user is asked about it.
PackageIsAsDescribed ==
    command.stage = "look" /\ command.entry # Nothing =>
       /\ command.package = command.entry.sha256
       /\ \A field \in {"plugin", "version", "capabilities"} : command.package[field] = command.entry[field]
       /\ command.entry.release = command.entry.repository

\* No capability is granted that the user has not accepted, or that was not requested for a while
\* since; an update or an installation does not undo what was said in another terminal meanwhile.
GrantsAreAccepted ==
    row # Nothing => row.granted \subseteq accepted \cap row.package.capabilities

\* A plugin that the user has disabled runs again only when he has enabled it.
DisabledStaysDisabled == row # Nothing /\ row.enabled => wanted
=============================================================================
