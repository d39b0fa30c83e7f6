---------------------------- MODULE AccessTokens ----------------------------
(***************************************************************************)
(* The access token of the QQ platform and the calls that use it:          *)
(* TokenManager in src/crates/qqbot-protocol/src/auth.rs, send_authorized  *)
(* and the *_once family in src/crates/qqbot-protocol/src/openapi.rs.      *)
(*                                                                         *)
(* The token is cached; whoever finds it missing or about to expire, or is *)
(* refused with it, fetches another one under the lock `refresh`.  A call  *)
(* is sent again after a refusal (401), unless it is one of the calls that *)
(* are sent once: those only refresh the token for the others.             *)
(***************************************************************************)
EXTENDS Integers, FiniteSets

CONSTANTS
    Calls,          \* concurrent calls of the OpenAPI client
    Once,           \* those made by a *_once function
    Nobody,
    MaxTokens       \* bound: tokens the platform issues

TokenAssumption == Once \subseteq Calls /\ Nobody \notin Calls /\ MaxTokens \in Nat

VARIABLES
    cached,         \* the token in the cache, 0 for none
    age,            \* its age: "fresh", "near" (in the refresh window) or "expired"
    refresh,        \* who holds the refresh lock
    issued,         \* how many tokens the platform has issued
    valid,          \* those it accepts
    call,           \* a call: its place, its token, the token it was refused with
    sent, effects   \* history: requests sent and requests the platform executed, by call

vars == <<cached, age, refresh, issued, valid, call, sent, effects>>

Init ==
    /\ cached = 0 /\ age = "expired"
    /\ refresh = Nobody
    /\ issued = 0 /\ valid = {}
    /\ call = [c \in Calls |-> [at |-> "begin", token |-> 0, refused |-> 0]]
    /\ sent = [c \in Calls |-> 0]
    /\ effects = [c \in Calls |-> 0]

At(c, place) == call[c].at = place
Move(c, place) == call' = [call EXCEPT ![c].at = place]
SendWith(c, token) == call' = [call EXCEPT ![c].at = "send", ![c].token = token]
Unlock == refresh' = Nobody

Resume_Always(c, token) == SendWith(c, token)
\* What a call does when refresh_if_current has given it a token.
Resume(c, token) == IF c \in Once THEN Move(c, "done") ELSE SendWith(c, token)
Proceed(c, token) == IF call[c].refused = 0 THEN SendWith(c, token) ELSE Resume(c, token)

(***************************************************************************)
(* access_token(), refresh_if_current()                                    *)
(***************************************************************************)
Usable == cached # 0 /\ age = "fresh"

Begin(c) ==
    /\ At(c, "begin")
    /\ IF Usable THEN SendWith(c, cached) ELSE Move(c, "wait")
    /\ UNCHANGED <<cached, age, refresh, issued, valid, sent, effects>>

LockRefresh(c) ==
    /\ At(c, "wait")
    /\ refresh = Nobody
    /\ refresh' = c
    /\ Move(c, "check")
    /\ UNCHANGED <<cached, age, issued, valid, sent, effects>>

Replaced_Never(c) == FALSE
\* Another call has replaced the token this one was refused with.
Replaced(c) == cached # 0 /\ cached # call[c].refused /\ age # "expired"

Check(c) ==
    /\ At(c, "check")
    /\ IF IF call[c].refused = 0 THEN Usable ELSE Replaced(c)
       THEN Proceed(c, cached) /\ Unlock
       ELSE Move(c, "fetch") /\ UNCHANGED refresh
    /\ UNCHANGED <<cached, age, issued, valid, sent, effects>>

FetchSucceeds(c) ==
    /\ At(c, "fetch")
    /\ issued < MaxTokens
    /\ issued' = issued + 1
    /\ \E kept \in {valid, {}} : valid' = kept \cup {issued'}
    /\ cached' = issued'
    /\ age' \in {"fresh", "near"}
    /\ Proceed(c, issued')
    /\ Unlock
    /\ UNCHANGED <<sent, effects>>

\* Without a new token, one that has not expired is used on; a refused one is not.
FetchFails(c) ==
    /\ At(c, "fetch")
    /\ IF call[c].refused = 0
       THEN IF cached # 0 /\ age # "expired" THEN SendWith(c, cached) ELSE Move(c, "done")
       ELSE Move(c, IF c \in Once THEN "invalidate" ELSE "done")
    /\ Unlock
    /\ UNCHANGED <<cached, age, issued, valid, sent, effects>>

(***************************************************************************)
(* send_authorized(), post_json_once() and its like                        *)
(***************************************************************************)
Sent(c) == sent' = [sent EXCEPT ![c] = @ + 1]
Took(c) == effects' = [effects EXCEPT ![c] = @ + 1]

Accepted(c) ==
    /\ At(c, "send") /\ call[c].token \in valid
    /\ Sent(c) /\ Took(c)
    /\ Move(c, "done")
    /\ UNCHANGED <<cached, age, refresh, issued, valid>>

\* The connection fails; the platform may have executed the request.
SendFails(c) ==
    /\ At(c, "send")
    /\ Sent(c)
    /\ \/ call[c].token \in valid /\ Took(c)
       \/ UNCHANGED effects
    /\ Move(c, "done")
    /\ UNCHANGED <<cached, age, refresh, issued, valid>>

\* A 401.  The second one is the answer of the call.
Refused(c) ==
    /\ At(c, "send") /\ call[c].token \notin valid
    /\ Sent(c)
    /\ call' = [call EXCEPT ![c].at = IF call[c].refused = 0 THEN "wait" ELSE "done",
                            ![c].refused = call[c].token]
    /\ UNCHANGED <<cached, age, refresh, issued, valid, effects>>

MayInvalidate(c) == cached = call[c].refused

\* invalidate_if_current(): no await on the network, so the lock is taken and given back at once.
Invalidate(c) ==
    /\ At(c, "invalidate")
    /\ refresh = Nobody
    /\ IF MayInvalidate(c) THEN cached' = 0 /\ age' = "expired" ELSE UNCHANGED <<cached, age>>
    /\ Move(c, "done")
    /\ UNCHANGED <<refresh, issued, valid, sent, effects>>

\* The caller drops the call; the guard of the lock goes with it.
Dropped(c) ==
    /\ ~At(c, "done")
    /\ Move(c, "done")
    /\ refresh' = IF refresh = c THEN Nobody ELSE refresh
    /\ UNCHANGED <<cached, age, issued, valid, sent, effects>>

Ages ==
    /\ cached # 0 /\ age # "expired"
    /\ age' = IF age = "fresh" THEN "near" ELSE "expired"
    /\ UNCHANGED <<cached, refresh, issued, valid, call, sent, effects>>

Revoked ==
    /\ \E t \in valid : valid' = valid \ {t}
    /\ UNCHANGED <<cached, age, refresh, issued, call, sent, effects>>

Next ==
    \/ \E c \in Calls :
          \/ Begin(c) \/ LockRefresh(c) \/ Check(c) \/ FetchSucceeds(c) \/ FetchFails(c)
          \/ Accepted(c) \/ SendFails(c) \/ Refused(c) \/ Invalidate(c) \/ Dropped(c)
    \/ Ages \/ Revoked

Spec == Init /\ [][Next]_vars
----------------------------------------------------------------------------
(***************************************************************************)
(* A call is executed by the platform at most once, although it may be     *)
(* sent twice; and a call of the *_once family leaves the program once.    *)
(***************************************************************************)
ExecutedAtMostOnce ==
    \A c \in Calls : effects[c] <= 1 /\ (c \in Once => sent[c] <= 1)

(***************************************************************************)
(* A token that can still be used is replaced or forgotten only by a call  *)
(* that was refused with that very token: many calls refused at the same   *)
(* time fetch one new token, and a late one does not discard it            *)
(* (refresh_if_current, invalidate_if_current, the second look of          *)
(* access_token under the lock).                                           *)
(***************************************************************************)
ReplacesItsOwn ==
    cached' # cached /\ Usable =>
       \E c \in Calls : call'[c] # call[c] /\ call[c].refused = cached

OnlyItsVictimReplacesAToken == [][ReplacesItsOwn]_vars
============================================================================
