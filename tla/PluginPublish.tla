---------------------------- MODULE PluginPublish ----------------------------
(***************************************************************************)
(* Publishing a plugin: src/src/plugin_dev.rs, publish_project.            *)
(*                                                                         *)
(* An invocation builds the package of a commit, pushes the commit and its *)
(* tag, makes (or waits for) the release and files an issue with the       *)
(* marketplace.  Several run at once, in one checkout or in several; each  *)
(* may be killed at any place and run again; a command that changes the    *)
(* remote may fail or time out although it took effect; what GitHub lists  *)
(* of the issues may be out of date.                                       *)
(***************************************************************************)
EXTENDS Integers, Sequences, FiniteSets

CONSTANTS
    Publishers,     \* invocations
    Checkouts,      \* clones of the plugin's repository
    None,
    MaxCommit,      \* bound: commits 1..MaxCommit, each on top of the one before
    MaxBuilds,      \* bound: builds, each with a digest of its own
    MaxRuns         \* bound: times that a publisher is run

VARIABLES
    head,           \* the commit that a checkout has checked out
    localTag,       \* its tag, an annotated one: [commit, object, method]
    package,        \* its package file: [commit, digest]
    branch, tag,    \* on the remote
    release,        \* the asset of the release on GitHub: [commit, digest]
    builds,         \* how many builds there have been
    objects,        \* how many tag objects there have been
    issues,         \* the issues of the marketplace, by number: whether it is open, and for what
    pub             \* an invocation

vars == <<head, localTag, package, branch, tag, release, builds, objects, issues, pub>>
local == <<head, localTag, package, builds, objects>>
remote == <<branch, tag, release, issues>>

Init ==
    /\ head = [c \in Checkouts |-> 1]
    /\ localTag = [c \in Checkouts |-> None]
    /\ package = [c \in Checkouts |-> None]
    /\ branch = 0 /\ tag = None /\ release = None
    /\ builds = 0 /\ objects = 0
    /\ issues = <<>>
    /\ pub = [p \in Publishers |-> [at |-> "idle", runs |-> 0]]

At(p, place) == pub[p].at = place
Move(p, place) == pub' = [pub EXCEPT ![p].at = place]
Ends(p) == pub' = [pub EXCEPT ![p] = [at |-> "idle", runs |-> @.runs]]
Here(p) == pub[p].checkout

(***************************************************************************)
(* prepare_git_publish, prepare_local_package                              *)
(***************************************************************************)
Start(p) ==
    /\ At(p, "idle") /\ pub[p].runs < MaxRuns
    /\ \E c \in Checkouts, method \in {"actions", "local"} :
          pub' = [pub EXCEPT ![p] =
              [at |-> IF method = "local" THEN "build" ELSE "push", runs |-> @.runs + 1,
               checkout |-> c, method |-> method, commit |-> head[c],
               seen |-> None, known |-> FALSE, digest |-> 0, issue |-> 0]]
    /\ UNCHANGED <<local, remote>>

\* The commit is built in a worktree of its own; the package is renamed to its place.
Build(p) ==
    /\ At(p, "build") /\ builds < MaxBuilds
    /\ builds' = builds + 1
    /\ package' = [package EXCEPT ![Here(p)] = [commit |-> pub[p].commit, digest |-> builds']]
    /\ Move(p, "built")
    /\ UNCHANGED <<head, localTag, objects, remote>>

HeadMoved(p) == head[Here(p)] # pub[p].commit

CheckHead(p) ==
    /\ At(p, "built")
    /\ IF HeadMoved(p) THEN Ends(p) ELSE Move(p, "push")
    /\ UNCHANGED <<local, remote>>

(***************************************************************************)
(* create_and_push_tag                                                     *)
(***************************************************************************)
LookForTag(p) ==
    /\ At(p, "push")
    /\ IF HeadMoved(p) THEN Ends(p)
       ELSE pub' = [pub EXCEPT ![p].at = "look", ![p].known = localTag[Here(p)] # None]
    /\ UNCHANGED <<local, remote>>

LookForRemoteTag(p) ==
    /\ At(p, "look")
    /\ IF tag # None /\ ~pub[p].known THEN Ends(p)
       ELSE pub' = [pub EXCEPT ![p].at = "tag", ![p].seen = tag]
    /\ UNCHANGED <<local, remote>>

\* ensure_local_release_tag
IsMine(p, t) == t.commit = pub[p].commit /\ t.method = pub[p].method

EnsureLocalTag(p) ==
    /\ At(p, "tag")
    /\ IF localTag[Here(p)] = None
       THEN /\ objects' = objects + 1
            /\ localTag' = [localTag EXCEPT ![Here(p)] =
                   [commit |-> pub[p].commit, object |-> objects', method |-> pub[p].method]]
            /\ IF pub[p].seen = None THEN Move(p, "pushing") ELSE Ends(p)
       ELSE /\ IF ~IsMine(p, localTag[Here(p)]) THEN Ends(p)
               ELSE IF pub[p].seen = None THEN Move(p, "pushing")
               ELSE IF pub[p].seen.object # localTag[Here(p)].object \/ pub[p].seen.commit # pub[p].commit
               THEN Ends(p)
               ELSE Move(p, "resume")
            /\ UNCHANGED <<localTag, objects>>
    /\ UNCHANGED <<head, package, builds, remote>>

Resume(p) ==
    /\ At(p, "resume")
    /\ Move(p, IF branch = pub[p].commit THEN "pushed" ELSE "pushing")
    /\ UNCHANGED <<local, remote>>

\* The remote takes both refs or none: a tag that is there does not move, and the branch only forward.
MayPush(p) ==
    /\ branch <= pub[p].commit
    /\ pub[p].seen = None => tag = None \/ tag = localTag[Here(p)]

PushHappens(p) ==
    /\ branch' = pub[p].commit
    /\ tag' = IF pub[p].seen = None THEN localTag[Here(p)] ELSE tag

Push(p) ==
    /\ At(p, "pushing")
    /\ \/ MayPush(p) /\ PushHappens(p) /\ (Move(p, "pushed") \/ Move(p, "reconcile"))
       \/ UNCHANGED <<branch, tag>> /\ Move(p, "reconcile")
    /\ UNCHANGED <<local, release, issues>>

TagIsOurs(p) ==
    /\ tag # None
    /\ tag.commit = pub[p].commit
    /\ tag.object = localTag[Here(p)].object

\* reconcile_failed_git_push: both refs are awaited, and compared.
ReconcileTag(p) ==
    /\ At(p, "reconcile")
    /\ IF TagIsOurs(p) THEN Move(p, "reconcile branch") ELSE Ends(p)
    /\ UNCHANGED <<local, remote>>

ReconcileBranch(p) ==
    /\ At(p, "reconcile branch")
    /\ IF branch = pub[p].commit THEN Move(p, "pushed") ELSE Ends(p)
    /\ UNCHANGED <<local, remote>>

(***************************************************************************)
(* create_github_release; wait_for_github_release                          *)
(***************************************************************************)
HashPackage(p) ==
    /\ At(p, "pushed") /\ pub[p].method = "local"
    /\ pub' = [pub EXCEPT ![p].at = "release", ![p].digest = package[Here(p)].digest]
    /\ UNCHANGED <<local, remote>>

\* gh release create uploads the file as it is by then; it fails if there is a release.
CreateRelease(p) ==
    /\ At(p, "release")
    /\ \/ release = None /\ tag # None /\ release' = package[Here(p)]
       \/ UNCHANGED release
    /\ Move(p, "verify")
    /\ UNCHANGED <<local, branch, tag, issues>>

IsExpectedAsset_Any(p) == release # None
IsExpectedAsset(p) == release # None /\ release.digest = pub[p].digest

VerifyRelease(p) ==
    /\ At(p, "verify")
    /\ IF IsExpectedAsset(p) THEN Move(p, "submit") ELSE Ends(p)
    /\ UNCHANGED <<local, remote>>

\* The asset is there and holds this plugin; otherwise, or without gh, the user is told what to do.
WaitForRelease(p) ==
    /\ At(p, "pushed") /\ pub[p].method = "actions"
    /\ IF release # None THEN Move(p, "submit") \/ Ends(p) ELSE Ends(p)
    /\ UNCHANGED <<local, remote>>

\* The workflow, on a tag without the marker of a local release.
WorkflowReleases ==
    /\ tag # None /\ tag.method = "actions" /\ release = None
    /\ builds < MaxBuilds
    /\ builds' = builds + 1
    /\ release' = [commit |-> tag.commit, digest |-> builds']
    /\ UNCHANGED <<head, localTag, package, objects, branch, tag, issues, pub>>

(***************************************************************************)
(* submit_marketplace_issue                                                *)
(***************************************************************************)
\* What a listing of the issues shows: those of some earlier moment.
Listing ==
    {SubSeq(l, 1, n) : n \in 0..Len(issues),
        l \in {[k \in DOMAIN issues |-> [issues[k] EXCEPT !.open = @ \/ k \in late]] :
                  late \in SUBSET DOMAIN issues}}

Numbers(list) == DOMAIN list
\* A closed issue has the title and the author of ours, and is not a match.
Classify(list) ==
    CASE \E k \in Numbers(list) : ~list[k].open -> "conflict"
      [] OTHER -> IF Len(list) = 0 THEN "missing" ELSE IF Len(list) = 1 THEN "matching" ELSE "duplicate"

LookForIssue(p) ==
    /\ At(p, "submit")
    /\ \E list \in Listing : IF Classify(list) = "missing" THEN Move(p, "file") ELSE Ends(p)
    /\ UNCHANGED <<local, remote>>

FileIssue(p) ==
    /\ At(p, "file")
    /\ \/ /\ issues' = Append(issues, [open |-> TRUE, commit |-> pub[p].commit,
                                       digest |-> pub[p].digest, method |-> pub[p].method])
          /\ \/ pub' = [pub EXCEPT ![p].at = "verify issue", ![p].issue = Len(issues')]
             \/ Ends(p)        \* the answer is lost: the listing decides, and then it ends
       \/ UNCHANGED issues /\ Ends(p)
    /\ UNCHANGED <<local, branch, tag, release>>

\* MarketplaceDuplicates::canonical_number: the lowest one
CanonicalNumber(p, list) == CHOOSE k \in Numbers(list) : \A l \in Numbers(list) : k <= l

VerifyIssue(p) ==
    /\ At(p, "verify issue")
    /\ \E list \in Listing :
          IF Classify(list) = "duplicate" /\ CanonicalNumber(p, list) # pub[p].issue
          THEN Move(p, "close")
          ELSE Ends(p)
    /\ UNCHANGED <<local, remote>>

CloseIssue(p) ==
    /\ At(p, "close")
    /\ \/ issues' = [issues EXCEPT ![pub[p].issue].open = FALSE]
       \/ UNCHANGED issues
    /\ Ends(p)
    /\ UNCHANGED <<local, branch, tag, release>>

(***************************************************************************)
(* The rest of the world                                                   *)
(***************************************************************************)
Killed(p) == ~At(p, "idle") /\ Ends(p) /\ UNCHANGED <<local, remote>>

Commits(c) ==
    /\ head[c] < MaxCommit
    /\ head' = [head EXCEPT ![c] = @ + 1]
    /\ UNCHANGED <<localTag, package, builds, objects, remote, pub>>

OthersPush ==
    /\ branch < MaxCommit
    /\ branch' = branch + 1
    /\ UNCHANGED <<local, tag, release, issues, pub>>

Next ==
    \/ \E p \in Publishers :
          \/ Start(p) \/ Build(p) \/ CheckHead(p)
          \/ LookForTag(p) \/ LookForRemoteTag(p) \/ EnsureLocalTag(p) \/ Resume(p) \/ Push(p)
          \/ ReconcileTag(p) \/ ReconcileBranch(p)
          \/ HashPackage(p) \/ CreateRelease(p) \/ VerifyRelease(p) \/ WaitForRelease(p)
          \/ LookForIssue(p) \/ FileIssue(p) \/ VerifyIssue(p) \/ CloseIssue(p)
          \/ Killed(p)
    \/ \E c \in Checkouts : Commits(c)
    \/ WorkflowReleases \/ OthersPush

Spec == Init /\ [][Next]_vars
----------------------------------------------------------------------------
(***************************************************************************)
(* What is submitted is released: when an issue is filed, the tag on the   *)
(* remote is the filer's, at the commit it prepared, and the asset of a    *)
(* local release is the package that it hashed; and this stays so.  Other  *)
(* invocations, a push or a release whose result was lost, a moved HEAD do *)
(* not change it (create_and_push_tag, reconcile_failed_git_push,          *)
(* create_github_release).                                                 *)
(***************************************************************************)
SubmittedIsReleased ==
    \A k \in DOMAIN issues :
       /\ tag # None /\ release # None
       /\ tag.commit = issues[k].commit
       /\ tag.method = issues[k].method
       /\ issues[k].method = "local" => release.digest = issues[k].digest

(***************************************************************************)
(* Of several issues that concurrent invocations have filed, the first one *)
(* is never closed by the program, however old the listings are: no        *)
(* submission is lost by cleaning up duplicates                            *)
(* (close_newer_duplicate_issue).                                          *)
(***************************************************************************)
CanonicalStaysOpen == Len(issues) > 0 => issues[1].open
=============================================================================
