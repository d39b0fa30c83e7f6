---------------------------- MODULE EventIdentity ----------------------------
(***************************************************************************)
(* What makes two events the same one.  An adapter gives every event that  *)
(* it maps an id, and the runtime handles an event only when the id is not *)
(* yet in its deduplication store.  A platform sends an event again when   *)
(* it does not know that it has arrived; it also tells, more than once, of *)
(* things that look the same (a reaction is added, removed and added).     *)
(*                                                                         *)
(* The QQ gateway numbers what it sends in a session, and sends again only *)
(* what it has sent in the session that is resumed; OneBot has no numbers. *)
(* A message is what the platform tells: its contents stand for all of its *)
(* data, so two with equal contents are byte for byte the same.            *)
(***************************************************************************)
EXTENDS Integers, Sequences, FiniteSets

CONSTANTS Tellings,     \* what the platforms may tell (the fields are listed at TellingType)
          MaxEvents,    \* events in a behaviour
          MaxSessions,  \* sessions of the QQ gateway
          Nothing       \* an id, or a number, that is absent

VARIABLES session,      \* the session of the QQ gateway
          next,         \* the number of the next dispatch in it
          events,       \* the sequence of events: [telling, session, number]
          received,     \* events that have arrived at least once
          known,        \* the deduplication store: id |-> the event that was handled under it
          handled       \* event |-> how often it was handled

vars == <<session, next, events, received, known, handled>>

(***************************************************************************)
(* The families of dispatches, and how each treats the date of an event    *)
(***************************************************************************)
SocialNotices == {"friend", "group robot", "group message status", "c2c message status"}
AudioNotices == {"audio", "live member", "open forum"}
ForumNotices == {"forum thread", "forum post", "forum reply", "forum audit"}
MessageNotices == {"message delete", "subscription", "message audit"}
GuildNotices == {"guild", "channel", "guild member"}
MemberNotices == {"reaction", "group member"}
Requests == {"interaction", "join request"}

Families ==
    UNION {{"message"}, SocialNotices, AudioNotices, ForumNotices, MessageNotices, GuildNotices,
           MemberNotices, Requests}

Undated == AudioNotices \cup {"channel"}
InSeconds == SocialNotices \cup {"subscription", "group member"}
DateRequired == ForumNotices \ {"forum audit"}

\* The body was decoded and validated, the date is "absent", "good" or "bad"; id is the id of the
\* dispatch, own the message's or the interaction's, second the time that OneBot reports.
TellingType ==
    [platform : {"qq", "onebot"}, family : Families \cup {"unhandled"}, valid : BOOLEAN,
     date : {"absent", "good", "bad"}, id : STRING \cup {Nothing}, own : STRING \cup {Nothing},
     numbered : BOOLEAN, second : Nat, contents : STRING]

\* An optional date that is there must be a date; a required one must be there.
DateIsAccepted(t) ==
    \/ t.family \in Undated
    \/ t.family \in InSeconds \cup DateRequired /\ t.date = "good"
    \/ t.family \notin InSeconds \cup DateRequired /\ t.date # "bad"

(***************************************************************************)
(* Ids                                                                     *)
(***************************************************************************)
\* The message's or the interaction's own id, when the dispatch has none.
FallbackId(t) == IF t.family \in {"message", "interaction"} THEN t.own ELSE Nothing

DerivedId(t, number) == <<"qq", t.family, number, t.contents>>

QqId(t, number) ==
    IF t.id # Nothing THEN <<"given", t.id>>
    ELSE IF FallbackId(t) # Nothing THEN <<"given", FallbackId(t)>>
    ELSE DerivedId(t, number)

IsNumbered(t, number) == t.id # Nothing \/ FallbackId(t) # Nothing \/ number # Nothing

\* A message is known by its number for the account, anything else by all of its data.
OneBotId(t) ==
    IF t.family = "message" THEN <<"onebot11", t.own>>
    ELSE <<"onebot11", t.family, t.second, t.contents>>

QqIsMapped(t, number) ==
    /\ t.family # "unhandled" /\ t.valid /\ DateIsAccepted(t)
    /\ t.family \in {"message", "interaction"} => t.own # Nothing
    /\ IsNumbered(t, number)

\* An event of an unknown kind is an event of its own kind, not an error.
OneBotIsMapped(t) == t.valid

IsMapped(e) ==
    IF e.telling.platform = "qq" THEN QqIsMapped(e.telling, e.number) ELSE OneBotIsMapped(e.telling)

IdOf(e) == IF e.telling.platform = "qq" THEN QqId(e.telling, e.number) ELSE OneBotId(e.telling)
-----------------------------------------------------------------------------
(***************************************************************************)
(* Behaviours                                                              *)
(***************************************************************************)
Init ==
    /\ session = 1 /\ next = 1
    /\ events = <<>> /\ received = {}
    /\ known = <<>> /\ handled = <<>>

\* The event k arrives: it is handled unless its id is known.
Arrive(k, e, counts) ==
    /\ received' = received \cup {k}
    /\ IF IsMapped(e) /\ IdOf(e) \notin DOMAIN known
       THEN /\ known' = [x \in DOMAIN known \cup {IdOf(e)} |-> IF x = IdOf(e) THEN k ELSE known[x]]
            /\ handled' = [counts EXCEPT ![k] = @ + 1]
       ELSE handled' = counts /\ UNCHANGED known

\* A new event.  It may be lost on its way.
Tell(t) ==
    LET number == IF t.platform = "qq" /\ t.numbered THEN next ELSE Nothing
        e == [telling |-> t, session |-> session, number |-> number]
        counts == Append(handled, 0)
    IN  /\ Len(events) < MaxEvents
        /\ events' = Append(events, e)
        /\ next' = IF number # Nothing THEN next + 1 ELSE next
        /\ UNCHANGED session
        /\ \/ Arrive(Len(events) + 1, e, counts)
           \/ handled' = counts /\ UNCHANGED <<received, known>>

\* An event is sent again: with its number in the session that is resumed, or by OneBot.
TellAgain(k) ==
    /\ events[k].telling.platform = "qq" => events[k].session = session
    /\ Arrive(k, events[k], handled)
    /\ UNCHANGED <<session, next, events>>

\* The session could not be resumed: the numbers start again.
NewSession ==
    /\ session < MaxSessions
    /\ session' = session + 1 /\ next' = 1
    /\ UNCHANGED <<events, received, known, handled>>

Next ==
    \/ \E t \in Tellings : Tell(t)
    \/ \E k \in DOMAIN events : TellAgain(k)
    \/ NewSession

Spec == Init /\ [][Next]_vars
-----------------------------------------------------------------------------
(***************************************************************************)
(* Properties                                                              *)
(***************************************************************************)
\* No event is handled twice, however often it arrives, and one that arrived is handled unless
\* its id was another's or it could not be mapped.
HandledAtMostOnce ==
    \A k \in DOMAIN events :
       /\ handled[k] <= 1
       /\ k \in received /\ IsMapped(events[k]) => handled[known[IdOf(events[k])]] = 1

\* The same message, or things that cannot be told from each other by what the platform sends:
\* in one second (OneBot), or under the same number of different sessions (QQ).
Indistinguishable(e, f) ==
    /\ e.telling.contents = f.telling.contents
    /\ \/ e.telling.id = f.telling.id /\ e.telling.id # Nothing
       \/ e.telling.own = f.telling.own /\ e.telling.own # Nothing
       \/ e.telling.platform = "onebot" /\ e.telling.second = f.telling.second
       \/ e.telling.platform = "qq" /\ e.session # f.session /\ e.number = f.number

\* An event is taken for another one only when nothing distinguishes them.
OnlyTheSameIsSwallowed ==
    \A k \in received :
       LET e == events[k] first == known[IdOf(e)]
       IN  IsMapped(e) /\ first # k => Indistinguishable(e, events[first])
=============================================================================
