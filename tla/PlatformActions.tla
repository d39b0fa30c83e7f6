--------------------------- MODULE PlatformActions ---------------------------
(***************************************************************************)
(* A command of a plugin, from its execution by the host to the status     *)
(* that the plugin is told: execute_context_command and failed_completion  *)
(* in src/crates/plugin-host/src/runtime/command.rs, the executor of the   *)
(* QQ adapter in src/crates/adapter-qqbot/src/websocket.rs, the endpoints  *)
(* in src/crates/qqbot-protocol/src/openapi.rs, and the HTTP executor in   *)
(* src/crates/plugin-host/src/http.rs.                                     *)
(*                                                                         *)
(* What the plugin does next depends on the status: after "failed" or      *)
(* "denied" it may do the same again, after "unknown" it may not.          *)
(* Other actions of the executor come from handlers in the program; for    *)
(* them "unknown" stands for ActionUnknown and "failed" for Action.        *)
(***************************************************************************)
EXTENDS Integers, FiniteSets, FiniteSetsExt

CONSTANTS
    Commands,
    Targets, Granted,   \* of http.request; those that the manifest and the grants allow
    Budget,             \* inline_media_budget, in units of the images' size
    MaxRedirects

(***************************************************************************)
(* The endpoints.  Of one of them matters: whether it changes something,   *)
(* whether it goes through single_send_client, whether its answer is       *)
(* validated.  Every one may refuse its arguments before anything is sent. *)
(***************************************************************************)
Endpoint(writes, once, checked) == [writes |-> writes, once |-> once, checked |-> checked]
Get == Endpoint(FALSE, FALSE, FALSE)
Write == Endpoint(TRUE, FALSE, FALSE)
WriteOnce == Endpoint(TRUE, TRUE, FALSE)
Checked(endpoint) == [endpoint EXCEPT !.checked = TRUE]

BotEndpoints == {Get, Write}
PanelEndpoints == {Get, Write}
ContentEndpoints == {Get, Write}
ForumEndpoints == {Checked(Get), Checked(WriteOnce), Write}
MessageEndpoints == {Write}
StreamMessageEndpoints == {Checked(WriteOnce)}
MediaEndpoints == {Write, Checked(WriteOnce), WriteOnce}
StreamEndpoints == {Checked(WriteOnce)}
PartEndpoints == {WriteOnce}
RecallEndpoints == {WriteOnce}
ChannelEndpoints == {Checked(Get), Checked(WriteOnce), WriteOnce}
ControlEndpoints == {Get, Write, WriteOnce}
ManagementEndpoints == {Get, Write}
ReactionEndpoints == {Get, Write}
InteractionEndpoints == {WriteOnce}
GroupEndpoints == {Get, Write}

(***************************************************************************)
(* The executor: a payload that does not fit is refused, else one endpoint *)
(* is called and its result turned into a value.  Only the value of a      *)
(* typed result can fail to be encoded, after the fact.                    *)
(***************************************************************************)
Typed(endpoints) == [endpoint : endpoints, encodes : BOOLEAN]
Untyped(endpoints) == [endpoint : endpoints, encodes : {TRUE}]

TextMessage == Untyped(MessageEndpoints \cup RecallEndpoints)
RichMessage == Untyped(MessageEndpoints)
MediaUpload == Typed(MediaEndpoints)
StreamUpload == Typed(StreamMessageEndpoints \cup StreamEndpoints) \cup Untyped(PartEndpoints)
Profile == Typed({Get})
BotConfiguration == Typed(BotEndpoints)
Panel == Typed(PanelEndpoints) \cup Untyped({Write})
GuildControl == Typed(ControlEndpoints) \cup Untyped({Write})
Announcement == Typed(ContentEndpoints \ {Get}) \cup Untyped({Write})
Pin == Typed(ContentEndpoints) \cup Untyped({Write})
Schedule == Typed(ContentEndpoints) \cup Untyped({Write})
ChannelContent == Announcement \cup Pin \cup Schedule
AudioForum == Typed(ForumEndpoints) \cup Untyped({Write})
Channel == Typed(ChannelEndpoints) \cup Untyped({WriteOnce})
GuildManagement == Typed(ManagementEndpoints) \cup Untyped({Write})
Reaction == Typed(ReactionEndpoints \ {Write}) \cup Untyped(ReactionEndpoints \ {Get})
GroupMute == Typed({Get}) \cup Untyped({Write})
JoinRequest == Typed({Get}) \cup Untyped({Write})
JoinStrategy == Typed(GroupEndpoints) \cup Untyped({Write})
GroupManagement == GroupMute \cup JoinRequest \cup JoinStrategy

PlatformAction ==
    UNION {RichMessage, MediaUpload, StreamUpload, Profile, BotConfiguration, Panel, GuildControl,
           ChannelContent, AudioForum, Channel, GuildManagement, Reaction, GroupManagement,
           Untyped(InteractionEndpoints)}

\* What a command does: one call of the platform, an image (uploaded, then sent) or an HTTP request.
Job == [kind : {"call"}, does : PlatformAction \cup TextMessage]
         \cup [kind : {"image"}, does : Untyped(MessageEndpoints)]
         \cup [kind : {"http"}, does : Untyped({Get, Write})]

Images == 1..2      \* sizes

VARIABLES
    command,        \* a command: its place, what it does, the size of its image, its status
    encoding,       \* images in a blocking task, which outlives the command that waits for it
    effects,        \* history: what the platform or the HTTP target executed, by command
    requested       \* history: targets of the HTTP requests, by command

vars == <<command, encoding, effects, requested>>

Init ==
    /\ command = [c \in Commands |-> [at |-> "new", status |-> "none"]]
    /\ encoding = [c \in Commands |-> 0]
    /\ effects = [c \in Commands |-> 0]
    /\ requested = [c \in Commands |-> {}]

At(c, place) == command[c].at = place
Move(c, place) == command' = [command EXCEPT ![c].at = place]
Completes(c, status) == command' = [command EXCEPT ![c].at = "done", ![c].status = status]

(***************************************************************************)
(* The errors, as the layers hand them up                                  *)
(***************************************************************************)
UncertainErrors_DecodingFails == {"Request", "ResponseTooLarge", "InvalidResponse"}
UncertainErrors == {"Request", "Decode", "ResponseTooLarge", "InvalidResponse"}
map_action_error(error) == IF error \in UncertainErrors THEN "ActionUnknown" ELSE "Action"

adapter_command_error(error) == IF error = "ActionUnknown" THEN "Transient" ELSE "Permanent"

http_plugin_error(error) ==
    CASE error \in {"Denied", "Dns", "NonPublicAddress"} -> "PermissionDenied"
      [] error = "ResponseTooLarge" -> "ResourceExhausted"
      [] error = "Transport" -> "Transient"
      [] OTHER -> "Permanent"

failed_completion(error) ==
    CASE error = "PermissionDenied" -> "denied"
      [] error = "Transient" -> "unknown"
      [] OTHER -> "failed"

PlatformFails(c, error) ==
    Completes(c, failed_completion(adapter_command_error(map_action_error(error))))
AdapterFails(c) == Completes(c, failed_completion(adapter_command_error("Action")))
HttpFails(c, error) == Completes(c, failed_completion(http_plugin_error(error)))

Executed(c) == effects' = [effects EXCEPT ![c] = @ + 1]

(***************************************************************************)
(* execute_context_command, up to the adapter                              *)
(***************************************************************************)
\* The payload, the origin, the adapter, the asset, the limits of the adapter: all before anything is done.
IsRefused(c) ==
    /\ At(c, "new")
    /\ Completes(c, failed_completion("Permanent"))
    /\ UNCHANGED <<encoding, effects, requested>>

Begin(c) ==
    /\ At(c, "new")
    /\ \E job \in Job, size \in Images :
          command' = [command EXCEPT ![c] =
              [at |-> CASE job.kind = "image" -> "budget" [] job.kind = "call" -> "request"
                        [] OTHER -> "http",
               status |-> "none", kind |-> job.kind, endpoint |-> job.does.endpoint,
               encodes |-> job.does.encodes, again |-> FALSE, redirects |-> 0,
               size |-> IF job.kind = "image" THEN size ELSE 0]]
    /\ UNCHANGED <<encoding, effects, requested>>

(***************************************************************************)
(* execute_inline_media                                                    *)
(***************************************************************************)
Holding == {"encode", "upload", "request"}

\* The permits move into the task, and come back with its result.
HeldInTask(c) == encoding[c]
HeldByCall(c) == IF command[c].at \in Holding \ {"encode"} THEN command[c].size ELSE 0
Held(c) == HeldInTask(c) + HeldByCall(c)

TakeBudget(c) ==
    /\ At(c, "budget")
    /\ IF MapThenSumSet(Held, Commands) + command[c].size <= Budget
       THEN /\ Move(c, "encode")
            /\ encoding' = [encoding EXCEPT ![c] = command[c].size]
       ELSE AdapterFails(c) /\ UNCHANGED encoding
    /\ UNCHANGED <<effects, requested>>

EncodingEnds(c) ==
    /\ encoding[c] > 0
    /\ encoding' = [encoding EXCEPT ![c] = 0]
    /\ IF At(c, "encode") THEN Move(c, "upload") \/ AdapterFails(c) ELSE UNCHANGED command
    /\ UNCHANGED <<effects, requested>>

UploadEnds(c) ==
    /\ At(c, "upload")
    /\ \/ Move(c, "request")
       \/ \E error \in {"Authentication", "HttpStatus", "Platform", "Request", "Decode", "ResponseTooLarge"} :
             PlatformFails(c, error)
    /\ UNCHANGED <<encoding, effects, requested>>

(***************************************************************************)
(* One request to the platform: send_authorized or single_send_client,     *)
(* then decode or decode_unit                                              *)
(***************************************************************************)
Takes(c) == IF command[c].endpoint.writes THEN Executed(c) ELSE UNCHANGED effects
MayTake(c) == Takes(c) \/ UNCHANGED effects

\* Invalid arguments, or no access token.
NotSent(c) ==
    /\ At(c, "request")
    /\ \E error \in {"InvalidRequest", "InvalidUrl", "Authentication"} : PlatformFails(c, error)
    /\ UNCHANGED <<encoding, effects, requested>>

Unauthorized(c) ==
    /\ At(c, "request")
    /\ IF command[c].endpoint.once \/ command[c].again
       THEN PlatformFails(c, "HttpStatus")
       ELSE command' = [command EXCEPT ![c].again = TRUE]
    /\ UNCHANGED <<encoding, effects, requested>>

\* The platform refuses the request; it has not executed it.
Refused(c) ==
    /\ At(c, "request")
    /\ \E error \in {"HttpStatus", "Platform"} : PlatformFails(c, error)
    /\ UNCHANGED <<encoding, effects, requested>>

\* The connection fails or the time is up, before the platform has executed the request or after.
Lost(c) ==
    /\ At(c, "request")
    /\ MayTake(c)
    /\ PlatformFails(c, "Request")
    /\ UNCHANGED <<encoding, requested>>

\* The request is executed but its answer is not what it should be.
Garbled(c) ==
    /\ At(c, "request")
    /\ Takes(c)
    /\ \E error \in {"Decode", "ResponseTooLarge", "InvalidResponse"} :
          /\ error = "InvalidResponse" => command[c].endpoint.checked
          /\ PlatformFails(c, error)
    /\ UNCHANGED <<encoding, requested>>

\* complete_unit_action, complete_typed_action, complete_message_action
Answered(c) ==
    /\ At(c, "request")
    /\ Takes(c)
    /\ IF ~command[c].encodes
       THEN Completes(c, failed_completion(adapter_command_error("ActionUnknown")))
       ELSE IF command[c].kind = "image" THEN Move(c, "consume")
       ELSE Completes(c, "succeeded")
    /\ UNCHANGED <<encoding, requested>>

\* The asset may be gone by now: it expired, or another command consumed it.
Consume(c) ==
    /\ At(c, "consume")
    /\ \/ Completes(c, "succeeded")
       \/ command' = [command EXCEPT ![c].at = "consumed", ![c].status = failed_completion("Permanent")]
    /\ UNCHANGED <<encoding, effects, requested>>

(***************************************************************************)
(* SecureHttpExecutor: each hop is authorized, resolved and sent anew.     *)
(***************************************************************************)
IsAuthorized(c, target) == target \in Granted

FollowsRedirects(c) == ~command[c].endpoint.writes      \* GET and HEAD

HttpNotSent(c) ==
    /\ At(c, "http")
    /\ \E error \in {"InvalidRequest", "Denied", "Dns", "NonPublicAddress", "Transport"} :
          HttpFails(c, error)
    /\ UNCHANGED <<encoding, effects, requested>>

HttpSent(c) ==
    /\ At(c, "http")
    /\ \E target \in Targets :
          IF ~IsAuthorized(c, target)
          THEN HttpFails(c, "Denied") /\ UNCHANGED <<effects, requested>>
          ELSE /\ requested' = [requested EXCEPT ![c] = @ \cup {target}]
               /\ \/ MayTake(c) /\ HttpFails(c, "Transport")
                  \/ Takes(c) /\ Move(c, "answer")
    /\ UNCHANGED encoding

HttpAnswered(c) ==
    /\ At(c, "answer")
    /\ \/ /\ FollowsRedirects(c)
          /\ \/ IF command[c].redirects >= MaxRedirects THEN HttpFails(c, "Denied")
                ELSE command' = [command EXCEPT ![c].at = "http", ![c].redirects = @ + 1]
             \/ HttpFails(c, "InvalidRequest")
       \/ \E error \in {"ResponseTooLarge", "Transport"} : HttpFails(c, error)
       \/ Completes(c, "succeeded")
    /\ UNCHANGED <<encoding, effects, requested>>

\* The invocation is cancelled while the command waits; what it holds is dropped with it.
Dropped(c) ==
    /\ command[c].at \in {"encode", "upload", "request", "http", "answer"}
    /\ Move(c, "dropped")
    /\ UNCHANGED <<encoding, effects, requested>>

Next == \E c \in Commands :
    \/ IsRefused(c) \/ Begin(c)
    \/ TakeBudget(c) \/ EncodingEnds(c) \/ UploadEnds(c)
    \/ NotSent(c) \/ Unauthorized(c) \/ Refused(c) \/ Lost(c) \/ Garbled(c) \/ Answered(c)
    \/ Consume(c)
    \/ HttpNotSent(c) \/ HttpSent(c) \/ HttpAnswered(c)
    \/ Dropped(c)

Spec == Init /\ [][Next]_vars
----------------------------------------------------------------------------
(***************************************************************************)
(* The status is true.  A command that "failed" or was "denied" has done   *)
(* nothing, so the plugin may do it again; one that "succeeded" has done   *)
(* it once.  Not for an HTTP request whose answer is refused, and an image *)
(* that was sent but whose asset could not be consumed: both have "failed" *)
(* after the fact (http_plugin_error and assets.remove in command.rs).     *)
(***************************************************************************)
StatusIsTrue ==
    \A c \in Commands :
       /\ effects[c] <= 1
       /\ command[c].status = "denied" => effects[c] = 0
       /\ command[c].status = "failed" /\ ~At(c, "consumed") =>
             effects[c] = 0 \/ command[c].kind = "http"
       /\ command[c].status = "succeeded" =>
             effects[c] = IF command[c].endpoint.writes THEN 1 ELSE 0

(***************************************************************************)
(* The images that are being encoded or sent fit the budget, also when the *)
(* command is dropped while its image is encoded: the permits live as long *)
(* as the bytes (inline_media_budget).                                     *)
(***************************************************************************)
Bytes(c) == encoding[c] + IF command[c].at \in {"upload", "request"} THEN command[c].size ELSE 0
InlineMediaBounded == MapThenSumSet(Bytes, Commands) <= Budget

(***************************************************************************)
(* An HTTP request leaves only for a target that was granted, the target   *)
(* of a redirect included.                                                 *)
(***************************************************************************)
OnlyGrantedTargets == \A c \in Commands : requested[c] \subseteq Granted
=============================================================================
