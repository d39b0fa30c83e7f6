----------------------- MODULE OneBotConnection_proofs -----------------------
(***************************************************************************)
(* Proofs about the reverse WebSocket of the OneBot adapter, for any set   *)
(* of Actions, any capacity and any number of events: nothing that passes  *)
(* through the connection is lost, doubled or reported wrongly, and the    *)
(* flags of backpressure are what they stand for.                          *)
(***************************************************************************)
EXTENDS OneBotConnection, FiniteSetTheorems, SequenceTheorems, TLAPS

Live == runtime_open /\ connection # "stopped"

\* What each stage of a connection has set up and taken down.
Shape ==
  /\ published <=> connection \in {"serving", "broken"}
  /\ connection \in {"none", "accepted", "stopped"} =>
       pending_events = <<>> /\ queued = <<>> /\ forwarder = "none"
  /\ held = NoEvent <=> forwarder \notin {"took", "reserving"}
  /\ forwarder = "failed" => ~runtime_open
  /\ writing # NoAction => connection = "serving"

\* "the hard connection budget": the local queue, two events that wait for it.
WithinCapacity ==
  /\ Len(queued) <= LocalCapacity
  /\ Len(pending_events) <= 2

\* Every event that was read is somewhere, and the places hold no more.
EventsKept ==
  Live =>
    /\ 1..arrived = Members(delivered) \cup Members(queued)
                      \cup Members(pending_events) \cup ({held} \ {NoEvent})
    /\ arrived = Len(delivered) + Len(queued) + Len(pending_events) + Holding

\* The Actions that wait to be sent are different ones, their callers have no
\* answer yet, and none was written; nor was one that nobody has executed.
OutboundUnsent ==
  /\ \A i \in 1..Len(outbound) :
       answer[outbound[i]] \in {"waiting", "left"} /\ outbound[i] \notin written
  /\ \A i, j \in 1..Len(outbound) : i # j => outbound[i] # outbound[j]
  /\ \A a \in Actions : answer[a] = "none" => a \notin written

\* The loop's own flag is exact while the connection is published; the one that
\* is shared with the forwarder is never raised too long, so that the next
\* connection does not start with it.
FlagsKept ==
  /\ event_producer_waiting <=> published /\ pending_events # <<>>
  /\ runtime_open /\ forwarder # "took" =>
       /\ event_queue_full => IsFull(queued)
       /\ published => (IsFull(queued) => event_queue_full)

IInv ==
  /\ TypeOK
  /\ Shape
  /\ WithinCapacity
  /\ EventsKept
  /\ OutboundUnsent
  /\ RefusedWasNotSent
  /\ FlagsKept
  /\ UnreadIsQuiet
----------------------------------------------------------------------------
(* Sequences *)

LEMMA MembersOfAppend ==
  ASSUME NEW S, NEW s \in Seq(S), NEW e \in S
  PROVE  /\ Members(Append(s, e)) = Members(s) \cup {e}
         /\ Append(s, e) \in Seq(S)
         /\ Len(Append(s, e)) = Len(s) + 1
<1>1. /\ Append(s, e) \in Seq(S)
      /\ Len(Append(s, e)) = Len(s) + 1
      /\ \A i \in 1..Len(s) : Append(s, e)[i] = s[i]
      /\ Append(s, e)[Len(s) + 1] = e
      /\ Len(s) \in Nat
  BY AppendProperties
<1>2. 1..(Len(s) + 1) = (1..Len(s)) \cup {Len(s) + 1}
  BY <1>1
<1>. QED  BY <1>1, <1>2 DEF Members

LEMMA MembersOfTail ==
  ASSUME NEW S, NEW s \in Seq(S), s # <<>>
  PROVE  /\ Head(s) \in S
         /\ Head(s) = s[1]
         /\ Tail(s) \in Seq(S)
         /\ Len(Tail(s)) = Len(s) - 1
         /\ Len(s) >= 1
         /\ \A i \in 1..Len(Tail(s)) : Tail(s)[i] = s[i + 1]
         /\ Members(s) = {Head(s)} \cup Members(Tail(s))
<1>1. /\ Len(s) \in Nat
      /\ Len(s) >= 1
      /\ Head(s) = s[1]
      /\ Head(s) \in S
      /\ Tail(s) \in Seq(S)
      /\ Len(Tail(s)) = Len(s) - 1
      /\ \A i \in 1..Len(Tail(s)) : Tail(s)[i] = s[i + 1]
  BY HeadTailProperties, EmptySeq, LenProperties
<1>2. ASSUME NEW i \in 1..Len(s)
      PROVE  s[i] \in {Head(s)} \cup Members(Tail(s))
  <2>1. CASE i = 1
    BY <1>1, <2>1
  <2>2. CASE i # 1
    <3>1. i - 1 \in 1..Len(Tail(s)) /\ Tail(s)[i - 1] = s[i]
      BY <1>1, <2>2
    <3>. QED  BY <3>1 DEF Members
  <2>. QED  BY <2>1, <2>2
<1>3. ASSUME NEW i \in 1..Len(Tail(s))
      PROVE  Tail(s)[i] \in Members(s)
  <2>1. i + 1 \in 1..Len(s) /\ Tail(s)[i] = s[i + 1]
    BY <1>1
  <2>. QED  BY <2>1 DEF Members
<1>4. Head(s) \in Members(s)
  BY <1>1 DEF Members
<1>5. Members(s) = {Head(s)} \cup Members(Tail(s))
  BY <1>2, <1>3, <1>4 DEF Members
<1>. QED  BY <1>1, <1>5

LEMMA EmptyMembers == Members(<<>>) = {} /\ Len(<<>>) = 0
BY DEF Members

----------------------------------------------------------------------------
(* The groups of steps *)

\* execute() and the deadlines: these change only what is known of Actions.
CallStep ==
  \E a \in Actions : Admit(a) \/ Refuse(a) \/ CallerLeaves(a) \/ Expire(a)

\* The slot, the handshake, and the ends of a connection that leave its queues.
SlotStep == Accept \/ HandshakeFails \/ Serve \/ Break \/ Stop

\* The loop sends Actions and takes their responses.
SendStep ==
  \/ Tick
  \/ TransmitRefused
  \/ Transmit
  \/ Written
  \/ WriteFails
  \/ \E a \in Actions : ReadResponse(a)

\* The loop takes events in and takes them to the local queue.
EventStep == ReadEvent \/ ReadEventToWait \/ Reserved \/ Flush

\* A connection is given up.
EndStep == Retire \/ CloseConnection \/ Abort

ForwardStep == Take \/ Note \/ Deliver \/ DeliverFails \/ RuntimeCloses

LEMMA Grouped ==
  Next => \/ CallStep \/ SlotStep \/ SendStep
          \/ EventStep \/ EndStep \/ ForwardStep
BY DEF Next, Caller, Peer, Loop, Forwarder, CallStep, SlotStep, SendStep,
       EventStep, EndStep, ForwardStep

----------------------------------------------------------------------------
(* Type correctness *)

Results == {"none", "waiting", "answered", "refused", "unknown", "left"}

\* Answers given to some of the callers.
LEMMA AnswerType ==
  ASSUME TypeOK, NEW as, NEW result \in Results, Answer(as, result)
  PROVE  /\ answer' \in [Actions -> Results]
         /\ \A a \in Actions :
              answer'[a] = IF a \in as /\ answer[a] = "waiting"
                           THEN result ELSE answer[a]
BY DEF TypeOK, Answer, Results

LEMMA FailAllType ==
  ASSUME TypeOK, FailAll
  PROVE  /\ answer' \in [Actions -> Results]
         /\ outbound' \in Seq(Actions)
         /\ outbound' = <<>>
         /\ pending' = {}
         /\ \A a \in Actions :
              answer'[a] # answer[a] =>
                /\ answer[a] = "waiting"
                /\ \/ a \in pending /\ answer'[a] = "unknown"
                   \/ a \in Members(outbound) /\ answer'[a] = "refused"
<1>1. outbound' = <<>> /\ pending' = {} /\ <<>> \in Seq(Actions)
  BY EmptySeq DEF FailAll
<1>2. \A a \in Actions :
        answer'[a] = IF answer[a] # "waiting" THEN answer[a]
                     ELSE IF a \in pending THEN "unknown"
                     ELSE IF a \in Members(outbound) THEN "refused"
                     ELSE answer[a]
  BY DEF FailAll
<1>3. answer' \in [Actions -> Results]
  BY DEF FailAll, TypeOK, Results
<1>. QED  BY <1>1, <1>2, <1>3

\* The head of the Actions that wait to be sent.
LEMMA NextAction ==
  ASSUME TypeOK, outbound # <<>>
  PROVE  /\ Head(outbound) \in Actions
         /\ Head(outbound) = outbound[1]
         /\ 1 \in 1..Len(outbound)
         /\ Tail(outbound) \in Seq(Actions)
         /\ Len(Tail(outbound)) = Len(outbound) - 1
         /\ \A i \in 1..Len(Tail(outbound)) : Tail(outbound)[i] = outbound[i + 1]
         /\ Members(Tail(outbound)) \subseteq Members(outbound)
         /\ Head(outbound) \in Members(outbound)
<1>1. outbound \in Seq(Actions)
  BY DEF TypeOK
<1>2. Len(outbound) \in Nat
  BY <1>1, LenProperties
<1>. QED  BY <1>1, <1>2, MembersOfTail

LEMMA CallType ==
  ASSUME TypeOK, CallStep
  PROVE  TypeOK'
<1>1. PICK a \in Actions : Admit(a) \/ Refuse(a) \/ CallerLeaves(a) \/ Expire(a)
  BY DEF CallStep
<1>2. CASE Admit(a)
  <2>1. outbound' \in Seq(Actions)
    BY <1>2, MembersOfAppend DEF TypeOK, Admit
  <2>. QED  BY <1>2, <2>1 DEF TypeOK, Admit, flags, events
<1>3. CASE Refuse(a)
  BY <1>3 DEF TypeOK, Refuse, flags, events
<1>4. CASE CallerLeaves(a)
  BY <1>4 DEF TypeOK, CallerLeaves, flags, events
<1>5. CASE Expire(a)
  BY <1>5 DEF TypeOK, Expire, flags, events
<1>. QED  BY <1>1, <1>2, <1>3, <1>4, <1>5

LEMMA SlotType ==
  ASSUME TypeOK, SlotStep
  PROVE  TypeOK'
BY DEF SlotStep, Accept, HandshakeFails, Serve, Break, Stop, Selecting, TypeOK,
       flags, actions, events

LEMMA SendType ==
  ASSUME TypeOK, SendStep
  PROVE  TypeOK'
<1>1. CASE Tick
  <2>1. answer' \in [Actions -> Results]
    BY <1>1, AnswerType DEF Tick, Results
  <2>. QED  BY <1>1, <2>1 DEF Tick, Selecting, TypeOK, flags, events, Results
<1>2. CASE TransmitRefused
  <2>1. answer' \in [Actions -> Results]
    BY <1>2, AnswerType DEF TransmitRefused, Results
  <2>2. outbound' \in Seq(Actions)
    BY <1>2, NextAction DEF TransmitRefused
  <2>. QED
    BY <1>2, <2>1, <2>2
    DEF TransmitRefused, Selecting, TypeOK, flags, events, Results
<1>3. CASE Transmit
  <2>1. outbound' \in Seq(Actions) /\ Head(outbound) \in Actions
    BY <1>3, NextAction DEF Transmit
  <2>. QED
    BY <1>3, <2>1 DEF Transmit, Selecting, TypeOK, flags, events
<1>4. CASE Written
  BY <1>4 DEF Written, TypeOK, flags, events
<1>5. CASE WriteFails
  <2>1. answer' \in [Actions -> Results]
    BY <1>5, AnswerType DEF WriteFails, Results
  <2>. QED  BY <1>5, <2>1 DEF WriteFails, TypeOK, flags, events, Results
<1>6. CASE \E a \in Actions : ReadResponse(a)
  <2>1. PICK a \in Actions : ReadResponse(a)
    BY <1>6
  <2>2. answer' \in [Actions -> Results]
    BY <2>1, AnswerType DEF ReadResponse, Results
  <2>. QED
    BY <2>1, <2>2 DEF ReadResponse, Selecting, TypeOK, flags, events, Results
<1>. QED  BY <1>1, <1>2, <1>3, <1>4, <1>5, <1>6 DEF SendStep

\* The first of the events that wait goes to the local queue.
LEMMA Moved ==
  ASSUME TypeOK, pending_events # <<>>, MoveFirst
  PROVE  /\ queued' \in Seq(EventNumbers)
         /\ pending_events' \in Seq(EventNumbers)
         /\ Len(queued') = Len(queued) + 1
         /\ Len(pending_events') = Len(pending_events) - 1
         /\ Len(queued) \in Nat /\ Len(pending_events') \in Nat
         /\ Members(queued') \cup Members(pending_events') =
              Members(queued) \cup Members(pending_events)
<1>1. queued \in Seq(EventNumbers) /\ pending_events \in Seq(EventNumbers)
  BY DEF TypeOK
<1>2. /\ Head(pending_events) \in EventNumbers
      /\ pending_events' \in Seq(EventNumbers)
      /\ Len(pending_events') = Len(pending_events) - 1
      /\ Members(pending_events) =
           {Head(pending_events)} \cup Members(pending_events')
  BY <1>1, MembersOfTail DEF MoveFirst
<1>3. /\ queued' \in Seq(EventNumbers)
      /\ Len(queued') = Len(queued) + 1
      /\ Members(queued') = Members(queued) \cup {Head(pending_events)}
  BY <1>1, <1>2, MembersOfAppend DEF MoveFirst
<1>4. Len(queued) \in Nat /\ Len(pending_events') \in Nat
  BY <1>1, <1>2, LenProperties
<1>. QED  BY <1>2, <1>3, <1>4

LEMMA RoomAfterMove ==
  ASSUME TypeOK, WithinCapacity, pending_events # <<>>, MoveFirst
  PROVE  Len(pending_events') # 2
<1>1. Len(pending_events') = Len(pending_events) - 1 /\ Len(pending_events') \in Nat
  BY Moved
<1>2. pending_events \in Seq(EventNumbers)
  BY DEF TypeOK
<1>3. PICK n \in Nat : n = Len(pending_events)
  BY <1>2, LenProperties
<1>4. n <= 2
  BY <1>3 DEF WithinCapacity
<1>. QED  BY <1>1, <1>3, <1>4

\* The event that is read now is added to a queue.
LEMMA Arrived ==
  ASSUME TypeOK, NEW q \in Seq(EventNumbers),
         arrived < MaxEvents, arrived' = arrived + 1
  PROVE  /\ arrived' \in EventNumbers
         /\ Append(q, arrived') \in Seq(EventNumbers)
         /\ Len(Append(q, arrived')) = Len(q) + 1
         /\ Members(Append(q, arrived')) = Members(q) \cup {arrived'}
         /\ 1..arrived' = (1..arrived) \cup {arrived'}
         /\ Len(q) \in Nat
<1>1. arrived' \in EventNumbers
  BY ConnectionAssumption DEF TypeOK, EventNumbers
<1>2. 1..arrived' = (1..arrived) \cup {arrived'}
  BY DEF TypeOK
<1>3. Len(q) \in Nat
  BY LenProperties
<1>. QED  BY <1>1, <1>2, <1>3, MembersOfAppend

LEMMA EventType ==
  ASSUME TypeOK, EventStep
  PROVE  TypeOK'
<1>1. CASE ReadEvent
  <2>1. queued' \in Seq(EventNumbers) /\ arrived' \in Nat
    BY <1>1, Arrived DEF ReadEvent, Readable, TypeOK
  <2>. QED
    BY <1>1, <2>1 DEF ReadEvent, TypeOK, IsFull, actions
<1>2. CASE ReadEventToWait
  <2>1. pending_events' \in Seq(EventNumbers) /\ arrived' \in Nat
    BY <1>2, Arrived DEF ReadEventToWait, Readable, TypeOK
  <2>2. /\ outbound' \in Seq(Actions)
        /\ pending' \subseteq written
        /\ writing \in pending' \cup {NoAction}
        /\ answer' \in [Actions -> Results]
    <3>1. writing = NoAction
      BY <1>2 DEF ReadEventToWait, Readable, Selecting
    <3>2. CASE FailAll
      BY <3>1, <3>2, FailAllType DEF TypeOK
    <3>3. CASE UNCHANGED <<outbound, pending, answer>>
      BY <3>1, <3>3 DEF TypeOK, Results
    <3>. QED  BY <1>2, <3>2, <3>3 DEF ReadEventToWait
  <2>. QED
    BY <1>2, <2>1, <2>2 DEF ReadEventToWait, TypeOK, Results
<1>3. CASE Reserved
  <2>1. queued' \in Seq(EventNumbers) /\ pending_events' \in Seq(EventNumbers)
    BY <1>3, Moved DEF Reserved
  <2>. QED  BY <1>3, <2>1 DEF Reserved, TypeOK, IsFull, actions
<1>4. CASE Flush
  <2>1. queued' \in Seq(EventNumbers) /\ pending_events' \in Seq(EventNumbers)
    BY <1>4, Moved DEF Flush
  <2>. QED  BY <1>4, <2>1 DEF Flush, TypeOK, flags, actions
<1>. QED  BY <1>1, <1>2, <1>3, <1>4 DEF EventStep

LEMMA EndType ==
  ASSUME TypeOK, Shape, EndStep
  PROVE  TypeOK'
<1>1. <<>> \in Seq(Actions) /\ <<>> \in Seq(EventNumbers)
  BY EmptySeq
<1>2. CASE Retire
  <2>1. /\ outbound' \in Seq(Actions)
        /\ pending' = {}
        /\ answer' \in [Actions -> Results]
    BY <1>2, FailAllType DEF Retire
  <2>2. writing = NoAction
    BY <1>2 DEF Shape, Retire
  <2>. QED
    BY <1>2, <2>1, <2>2 DEF Retire, Unpublish, TypeOK, events, Results
<1>3. CASE CloseConnection
  BY <1>1, <1>3 DEF CloseConnection, TypeOK, flags, actions
<1>4. CASE Abort
  <2>1. answer' \in [Actions -> Results]
    BY <1>4, AnswerType DEF Abort, Results
  <2>. QED  BY <1>1, <1>4, <2>1 DEF Abort, Unpublish, TypeOK, Results
<1>. QED  BY <1>2, <1>3, <1>4 DEF EndStep

\* The forwarder takes the first event of the local queue.
LEMMA Taken ==
  ASSUME TypeOK, Take
  PROVE  /\ held' \in EventNumbers
         /\ queued' \in Seq(EventNumbers)
         /\ Len(queued') = Len(queued) - 1
         /\ Len(queued') \in Nat
         /\ Members(queued) = {held'} \cup Members(queued')
<1>1. queued \in Seq(EventNumbers)
  BY DEF TypeOK
<1>2. queued' \in Seq(EventNumbers) /\ Len(queued') = Len(queued) - 1
  BY <1>1, MembersOfTail DEF Take
<1>3. held' \in EventNumbers /\ Members(queued) = {held'} \cup Members(queued')
  BY <1>1, MembersOfTail DEF Take
<1>4. Len(queued') \in Nat
  BY <1>2, LenProperties
<1>. QED  BY <1>2, <1>3, <1>4

\* The Runtime receives the event that the forwarder holds.
LEMMA Given ==
  ASSUME TypeOK, Shape, Deliver
  PROVE  /\ held \in EventNumbers
         /\ delivered' \in Seq(EventNumbers)
         /\ Len(delivered') = Len(delivered) + 1
         /\ Members(delivered') = Members(delivered) \cup {held}
<1>1. delivered \in Seq(EventNumbers) /\ held \in EventNumbers
  BY DEF TypeOK, Shape, Deliver
<1>. QED  BY <1>1, MembersOfAppend DEF Deliver

LEMMA ForwardType ==
  ASSUME TypeOK, Shape, ForwardStep
  PROVE  TypeOK'
<1>1. CASE Take
  BY <1>1, Taken DEF Take, TypeOK, flags, actions
<1>2. CASE Note
  BY <1>2 DEF Note, TypeOK, IsFull, actions
<1>3. CASE Deliver
  BY <1>3, Given DEF Deliver, TypeOK, flags, actions
<1>4. CASE DeliverFails
  BY <1>4 DEF DeliverFails, TypeOK, flags, actions
<1>5. CASE RuntimeCloses
  BY <1>5 DEF RuntimeCloses, TypeOK, flags, actions
<1>. QED  BY <1>1, <1>2, <1>3, <1>4, <1>5 DEF ForwardStep

LEMMA StepType ==
  ASSUME TypeOK, Shape, [Next]_vars
  PROVE  TypeOK'
<1>1. CASE UNCHANGED vars
  BY <1>1 DEF TypeOK, vars, flags, actions, events
<1>2. CASE Next
  BY <1>2, Grouped, CallType, SlotType, SendType, EventType, EndType,
     ForwardType
<1>. QED  BY <1>1, <1>2

----------------------------------------------------------------------------
(* What each stage has set up, and the connection's budget *)

LEMMA StepShape ==
  ASSUME TypeOK, Shape, [Next]_vars
  PROVE  Shape'
<1>1. CASE UNCHANGED vars
  BY <1>1 DEF Shape, vars, flags, actions, events
<1>2. CASE CallStep
  <2>1. UNCHANGED <<connection, published, writing, events>>
    BY <1>2 DEF CallStep, Admit, Refuse, CallerLeaves, Expire
  <2>. QED  BY <2>1 DEF Shape, events
<1>3. CASE SlotStep
  BY <1>3 DEF SlotStep, Accept, HandshakeFails, Serve, Break, Stop, Selecting,
              Shape, flags, actions, events
<1>4. CASE SendStep
  <2>1. UNCHANGED events /\ UNCHANGED published
    BY <1>4 DEF SendStep, Tick, TransmitRefused, Transmit, Written, WriteFails,
                ReadResponse
  <2>2. \/ connection' = connection /\ writing' \in {writing, NoAction}
        \/ connection' = connection /\ connection = "serving"
        \/ connection' = "broken" /\ writing' = NoAction /\ writing # NoAction
    BY <1>4 DEF SendStep, Tick, TransmitRefused, Transmit, Written, WriteFails,
                ReadResponse, Selecting
  <2>. QED  BY <2>1, <2>2 DEF Shape, events
<1>5. CASE EventStep
  <2>1. /\ UNCHANGED <<connection, published, writing, forwarder, held,
                       runtime_open>>
        /\ connection \in {"serving", "flushing"}
    BY <1>5 DEF EventStep, ReadEvent, ReadEventToWait, Reserved, Flush,
                Readable, Selecting, flags, actions
  <2>. QED  BY <2>1 DEF Shape
<1>6. CASE EndStep
  BY <1>6 DEF EndStep, Retire, CloseConnection, Abort, Unpublish, Shape, flags,
              actions, events
<1>7. CASE ForwardStep
  <2>1. UNCHANGED <<connection, published, writing>>
    BY <1>7 DEF ForwardStep, Take, Note, Deliver, DeliverFails, RuntimeCloses,
                flags, actions
  <2>2. CASE Take
    <3>1. held' # NoEvent
      BY <2>2, Taken DEF EventNumbers, NoEvent
    <3>. QED  BY <2>1, <2>2, <3>1 DEF Take, Shape
  <2>3. CASE Note \/ Deliver \/ DeliverFails \/ RuntimeCloses
    BY <2>1, <2>3 DEF Note, Deliver, DeliverFails, RuntimeCloses, Shape
  <2>. QED  BY <1>7, <2>2, <2>3 DEF ForwardStep
<1>. QED  BY <1>1, <1>2, <1>3, <1>4, <1>5, <1>6, <1>7, Grouped

LEMMA StepCapacity ==
  ASSUME TypeOK, WithinCapacity, [Next]_vars
  PROVE  WithinCapacity'
<1>0. LocalCapacity \in Nat /\ queued \in Seq(EventNumbers)
      /\ pending_events \in Seq(EventNumbers)
  BY ConnectionAssumption DEF TypeOK
<1>1. CASE UNCHANGED <<queued, pending_events>>
  BY <1>1 DEF WithinCapacity
<1>2. CASE ReadEvent
  BY <1>0, <1>2, Arrived DEF ReadEvent, Readable, IsFull, WithinCapacity
<1>3. CASE ReadEventToWait
  BY <1>0, <1>3, Arrived DEF ReadEventToWait, Readable, WithinCapacity
<1>4. CASE Reserved
  BY <1>0, <1>4, Moved DEF Reserved, IsFull, WithinCapacity
<1>5. CASE Flush
  BY <1>0, <1>5, Moved DEF Flush, IsFull, WithinCapacity
<1>6. CASE CloseConnection \/ Abort
  BY <1>0, <1>6, EmptyMembers DEF CloseConnection, Abort, WithinCapacity
<1>7. CASE Take
  BY <1>0, <1>7, Taken DEF Take, WithinCapacity
<1>8. [Next]_vars => \/ UNCHANGED <<queued, pending_events>>
                     \/ EventStep \/ CloseConnection \/ Abort \/ Take
  BY Grouped
  DEF vars, events, CallStep, Admit, Refuse, CallerLeaves, Expire,
      SlotStep, Accept, HandshakeFails, Serve, Break, Stop, SendStep, Tick,
      TransmitRefused, Transmit, Written, WriteFails, ReadResponse, EndStep,
      Retire, ForwardStep, Note, Deliver, DeliverFails, RuntimeCloses
<1>. QED
  BY <1>1, <1>2, <1>3, <1>4, <1>5, <1>6, <1>7, <1>8 DEF EventStep

----------------------------------------------------------------------------
(* Every event is kept once *)

\* What is held counts as an event, and as one place.
LEMMA HeldEvent ==
  ASSUME TypeOK
  PROVE  /\ Holding \in {0, 1}
         /\ held = NoEvent => Holding = 0 /\ {held} \ {NoEvent} = {}
         /\ held # NoEvent => Holding = 1 /\ {held} \ {NoEvent} = {held}
BY DEF Holding

LEMMA StepEvents ==
  ASSUME TypeOK, Shape, EventsKept, [Next]_vars
  PROVE  EventsKept'
<1>. SUFFICES ASSUME Live'
              PROVE  /\ 1..arrived' = Members(delivered') \cup Members(queued')
                                 \cup Members(pending_events')
                                 \cup ({held'} \ {NoEvent})
                     /\ arrived' = Len(delivered') + Len(queued')
                                 + Len(pending_events') + Holding'
  BY DEF EventsKept
<1>0. /\ queued \in Seq(EventNumbers) /\ pending_events \in Seq(EventNumbers)
      /\ delivered \in Seq(EventNumbers)
      /\ Len(queued) \in Nat /\ Len(pending_events) \in Nat
      /\ Len(delivered) \in Nat /\ arrived \in Nat /\ Holding \in {0, 1}
  BY HeldEvent, LenProperties DEF TypeOK
<1>1. ASSUME Live
      PROVE  /\ 1..arrived = Members(delivered) \cup Members(queued)
                           \cup Members(pending_events) \cup ({held} \ {NoEvent})
             /\ arrived = Len(delivered) + Len(queued) + Len(pending_events)
                           + Holding
  BY <1>1 DEF EventsKept
<1>2. CASE UNCHANGED <<delivered, queued, pending_events, held, arrived>> /\ Live
  <2>1. Holding' = Holding
    BY <1>2 DEF Holding
  <2>. QED  BY <1>1, <1>2, <2>1
<1>3. CASE ReadEvent
  <2>1. /\ Live
        /\ Members(queued') = Members(queued) \cup {arrived'}
        /\ 1..arrived' = (1..arrived) \cup {arrived'}
        /\ Len(queued') = Len(queued) + 1
    BY <1>0, <1>3, Arrived DEF ReadEvent, Readable, Live
  <2>2. /\ UNCHANGED <<delivered, pending_events, held>> /\ Holding' = Holding
        /\ arrived' = arrived + 1
    BY <1>3 DEF ReadEvent, Holding
  <2>. QED  BY <1>0, <1>1, <2>1, <2>2
<1>4. CASE ReadEventToWait
  <2>1. /\ Live
        /\ Members(pending_events') = Members(pending_events) \cup {arrived'}
        /\ 1..arrived' = (1..arrived) \cup {arrived'}
        /\ Len(pending_events') = Len(pending_events) + 1
    BY <1>0, <1>4, Arrived DEF ReadEventToWait, Readable, Live
  <2>2. /\ UNCHANGED <<delivered, queued, held>> /\ Holding' = Holding
        /\ arrived' = arrived + 1
    BY <1>4 DEF ReadEventToWait, Holding
  <2>. QED  BY <1>0, <1>1, <2>1, <2>2
<1>5. CASE Reserved \/ Flush
  <2>1. /\ Live /\ UNCHANGED <<delivered, held, arrived>>
        /\ Holding' = Holding
        /\ pending_events # <<>> /\ MoveFirst
    BY <1>5 DEF Reserved, Flush, Live, Holding
  <2>2. /\ Len(queued') = Len(queued) + 1
        /\ Len(pending_events') = Len(pending_events) - 1
        /\ Members(queued') \cup Members(pending_events') =
             Members(queued) \cup Members(pending_events)
    BY <2>1, Moved
  <2>. QED  BY <1>0, <1>1, <2>1, <2>2
<1>6. CASE CloseConnection
  <2>1. /\ runtime_open /\ forwarder # "failed" /\ Live
        /\ UNCHANGED <<delivered, arrived>>
    BY <1>6 DEF CloseConnection, Live, Shape
  <2>2. /\ pending_events = <<>> /\ queued = <<>> /\ held = NoEvent
        /\ pending_events' = <<>> /\ queued' = <<>> /\ held' = NoEvent
    BY <1>6, <2>1 DEF CloseConnection, Drained, Forwarded, Shape
  <2>3. Holding' = Holding
    BY <2>2 DEF Holding
  <2>. QED  BY <1>1, <2>1, <2>2, <2>3
<1>7. CASE Abort
  BY <1>7 DEF Abort, Live
<1>8. CASE Take
  <2>1. /\ Live /\ held = NoEvent /\ Holding = 0
        /\ UNCHANGED <<delivered, pending_events, arrived>>
    BY <1>8, HeldEvent DEF Take, Live, Shape
  <2>2. /\ held' # NoEvent
        /\ Len(queued') = Len(queued) - 1
        /\ Members(queued) = {held'} \cup Members(queued')
    BY <1>8, Taken DEF EventNumbers, NoEvent
  <2>3. Holding' = 1
    BY <2>2 DEF Holding
  <2>. QED  BY <1>0, <1>1, <2>1, <2>2, <2>3
<1>9. CASE Deliver
  <2>1. /\ Live /\ held # NoEvent /\ Holding = 1
        /\ UNCHANGED <<queued, pending_events, arrived>>
        /\ held' = NoEvent
    BY <1>9, HeldEvent DEF Deliver, Live, Shape
  <2>2. /\ Len(delivered') = Len(delivered) + 1
        /\ Members(delivered') = Members(delivered) \cup {held}
    BY <1>9, Given
  <2>3. Holding' = 0
    BY <2>1 DEF Holding
  <2>. QED  BY <1>0, <1>1, <2>1, <2>2, <2>3
<1>10. CASE DeliverFails
  BY <1>10 DEF DeliverFails, Live
<1>11. [Next]_vars => \/ UNCHANGED <<delivered, queued, pending_events, held,
                                     arrived>> /\ Live
                      \/ EventStep \/ CloseConnection \/ Abort
                      \/ Take \/ Deliver \/ DeliverFails
  <2>1. CASE UNCHANGED vars \/ CallStep
    <3>1. UNCHANGED events /\ UNCHANGED connection
      BY <2>1 DEF vars, CallStep, Admit, Refuse, CallerLeaves, Expire
    <3>. QED  BY <3>1 DEF events, Live
  <2>2. CASE SlotStep
    BY <2>2 DEF SlotStep, Accept, HandshakeFails, Serve, Break, Stop, Selecting,
                events, Live
  <2>3. CASE SendStep
    <3>1. UNCHANGED events /\ (connection' = connection \/ writing # NoAction)
      BY <2>3 DEF SendStep, Tick, TransmitRefused, Transmit, Written,
                  WriteFails, ReadResponse
    <3>. QED  BY <3>1 DEF events, Live, Shape
  <2>4. CASE EndStep
    BY <2>4 DEF EndStep, Retire, events, Live
  <2>5. CASE ForwardStep
    BY <2>5 DEF ForwardStep, Note, RuntimeCloses, Live
  <2>. QED  BY <2>1, <2>2, <2>3, <2>4, <2>5, Grouped
<1>. QED
  BY <1>2, <1>3, <1>4, <1>5, <1>6, <1>7, <1>8, <1>9, <1>10, <1>11
  DEF EventStep

----------------------------------------------------------------------------
(* What is reported of Actions *)

ActionsKept == OutboundUnsent /\ RefusedWasNotSent

\* A step that sends nothing, admits nothing, and reports on Actions that are
\* not waiting to be sent after it.
LEMMA Reported ==
  ASSUME TypeOK, ActionsKept, written' = written,
         \/ outbound' = outbound
         \/ outbound' = <<>>
         \/ outbound # <<>> /\ outbound' = Tail(outbound),
         \A a \in Actions :
           answer'[a] # answer[a] =>
             /\ answer[a] = "waiting"
             /\ answer'[a] # "none"
             /\ answer'[a] = "refused" => a \notin written
             /\ answer'[a] = "left" \/ a \notin Members(outbound')
  PROVE  ActionsKept'
<1>0. outbound \in Seq(Actions) /\ Len(outbound) \in Nat
  BY LenProperties DEF TypeOK
<1>1. /\ Len(outbound') \in Nat
      /\ \A i \in 1..Len(outbound') :
           \E k \in 1..Len(outbound) : outbound'[i] = outbound[k]
      /\ \A i, j \in 1..Len(outbound') : i # j => outbound'[i] # outbound'[j]
  <2>1. CASE outbound' = outbound
    BY <1>0, <2>1 DEF ActionsKept, OutboundUnsent
  <2>2. CASE outbound' = <<>>
    BY <2>2, EmptyMembers
  <2>3. CASE outbound # <<>> /\ outbound' = Tail(outbound)
    <3>1. /\ Len(outbound') = Len(outbound) - 1
          /\ Len(outbound) >= 1
          /\ \A i \in 1..Len(outbound') : outbound'[i] = outbound[i + 1]
      BY <1>0, <2>3, MembersOfTail
    <3>2. \A i \in 1..Len(outbound') : i + 1 \in 1..Len(outbound)
      BY <1>0, <3>1
    <3>. QED  BY <1>0, <3>1, <3>2 DEF ActionsKept, OutboundUnsent
  <2>. QED  BY <2>1, <2>2, <2>3
<1>2. ASSUME NEW i \in 1..Len(outbound')
      PROVE  /\ answer'[outbound'[i]] \in {"waiting", "left"}
             /\ outbound'[i] \notin written'
  <2>1. PICK k \in 1..Len(outbound) : outbound'[i] = outbound[k]
    BY <1>1
  <2>2. /\ outbound[k] \in Actions
        /\ answer[outbound[k]] \in {"waiting", "left"}
        /\ outbound[k] \notin written
    BY <1>0, ElementOfSeq DEF ActionsKept, OutboundUnsent
  <2>3. outbound'[i] \in Members(outbound')
    BY DEF Members
  <2>. QED  BY <2>1, <2>2, <2>3
<1>3. \A a \in Actions : answer'[a] = "none" => a \notin written'
  BY DEF ActionsKept, OutboundUnsent
<1>4. RefusedWasNotSent'
  BY DEF ActionsKept, RefusedWasNotSent
<1>. QED  BY <1>1, <1>2, <1>3, <1>4 DEF ActionsKept, OutboundUnsent

\* An Action that waits for its response does not wait to be sent.
LEMMA SentIsNotQueued ==
  ASSUME TypeOK, OutboundUnsent, NEW a \in written
  PROVE  a \notin Members(outbound)
BY DEF OutboundUnsent, Members

LEMMA StepActions ==
  ASSUME TypeOK, Shape, ActionsKept, [Next]_vars
  PROVE  ActionsKept'
<1>0. /\ outbound \in Seq(Actions) /\ Len(outbound) \in Nat
      /\ pending \subseteq written
      /\ OutboundUnsent
  BY LenProperties DEF TypeOK, ActionsKept
<1>1. CASE UNCHANGED <<outbound, answer, written>>
  BY <1>1 DEF ActionsKept, OutboundUnsent, RefusedWasNotSent
<1>2. ASSUME NEW a \in Actions, Admit(a)
      PROVE  ActionsKept'
  <2>1. /\ answer[a] = "none" /\ a \notin written
        /\ answer' = [answer EXCEPT ![a] = "waiting"] /\ written' = written
    BY <1>0, <1>2 DEF Admit, OutboundUnsent
  <2>2. /\ Len(outbound') = Len(outbound) + 1
        /\ outbound'[Len(outbound) + 1] = a
        /\ \A i \in 1..Len(outbound) : outbound'[i] = outbound[i]
    BY <1>0, <1>2, AppendProperties DEF Admit
  <2>3. \A i \in 1..Len(outbound) :
          /\ outbound[i] \in Actions
          /\ answer[outbound[i]] \in {"waiting", "left"}
          /\ outbound[i] \notin written
          /\ outbound[i] # a
    BY <1>0, <2>1, ElementOfSeq DEF OutboundUnsent
  <2>4. \A i \in 1..Len(outbound') :
          answer'[outbound'[i]] \in {"waiting", "left"}
            /\ outbound'[i] \notin written'
    BY <1>0, <2>1, <2>2, <2>3, SMTT(60) DEF TypeOK
  <2>5. \A i, j \in 1..Len(outbound') : i # j => outbound'[i] # outbound'[j]
    BY <1>0, <2>2, <2>3 DEF OutboundUnsent
  <2>6. (\A b \in Actions : answer'[b] = "none" => b \notin written')
          /\ RefusedWasNotSent'
    BY <1>0, <2>1 DEF ActionsKept, OutboundUnsent, RefusedWasNotSent, TypeOK
  <2>. QED  BY <2>4, <2>5, <2>6 DEF ActionsKept, OutboundUnsent
<1>3. ASSUME NEW a \in Actions, Refuse(a)
      PROVE  ActionsKept'
  <2>1. a \notin written
    BY <1>0, <1>3 DEF Refuse, OutboundUnsent
  <2>2. \A i \in 1..Len(outbound) : outbound[i] # a
    BY <1>0, <1>3 DEF Refuse, OutboundUnsent
  <2>3. \A i \in 1..Len(outbound) : outbound[i] \in Actions
    BY <1>0, ElementOfSeq
  <2>. QED
    BY <1>0, <1>3, <2>1, <2>2, <2>3
    DEF Refuse, ActionsKept, OutboundUnsent, RefusedWasNotSent, TypeOK
<1>4. ASSUME NEW a \in Actions, CallerLeaves(a)
      PROVE  ActionsKept'
  BY <1>4, Reported DEF CallerLeaves, TypeOK
<1>5. CASE Tick
  <2>1. \A a \in Actions :
          answer'[a] # answer[a] =>
            answer[a] = "waiting" /\ answer'[a] = "unknown" /\ a \in pending
    BY <1>5, AnswerType DEF Tick, Results
  <2>. QED  BY <1>0, <1>5, <2>1, SentIsNotQueued, Reported DEF Tick
<1>6. CASE TransmitRefused
  <2>1. \A a \in Actions :
          answer'[a] # answer[a] =>
            answer[a] = "waiting" /\ answer'[a] = "refused" /\ a = Head(outbound)
    BY <1>6, AnswerType DEF TransmitRefused, Results
  <2>2. /\ Head(outbound) \notin written
        /\ Head(outbound) \notin Members(Tail(outbound))
    <3>1. /\ Head(outbound) = outbound[1] /\ 1 \in 1..Len(outbound)
          /\ \A i \in 1..Len(Tail(outbound)) :
               /\ Tail(outbound)[i] = outbound[i + 1]
               /\ i + 1 \in 1..Len(outbound) /\ i + 1 # 1
      BY <1>0, <1>6, NextAction DEF TransmitRefused
    <3>. QED  BY <1>0, <3>1 DEF OutboundUnsent, Members
  <2>. QED  BY <1>6, <2>1, <2>2, Reported DEF TransmitRefused
<1>7. CASE Transmit
  <2>1. /\ Len(Tail(outbound)) = Len(outbound) - 1
        /\ Head(outbound) = outbound[1] /\ 1 \in 1..Len(outbound)
        /\ Head(outbound) \in Actions
        /\ \A i \in 1..Len(Tail(outbound)) :
             /\ Tail(outbound)[i] = outbound[i + 1]
             /\ i + 1 \in 1..Len(outbound) /\ i + 1 # 1
    BY <1>0, <1>7, NextAction DEF Transmit
  <2>2. /\ outbound' = Tail(outbound) /\ answer' = answer
        /\ written' = written \cup {outbound[1]}
    BY <1>7, <2>1 DEF Transmit
  <2>3. \A i \in 1..Len(outbound') :
          answer'[outbound'[i]] \in {"waiting", "left"}
            /\ outbound'[i] \notin written'
    BY <1>0, <2>1, <2>2 DEF OutboundUnsent
  <2>4. \A i, j \in 1..Len(outbound') : i # j => outbound'[i] # outbound'[j]
    BY <1>0, <2>1, <2>2 DEF OutboundUnsent
  <2>5. (\A b \in Actions : answer'[b] = "none" => b \notin written')
          /\ RefusedWasNotSent'
    BY <1>0, <2>1, <2>2 DEF ActionsKept, OutboundUnsent, RefusedWasNotSent
  <2>. QED  BY <2>3, <2>4, <2>5 DEF ActionsKept, OutboundUnsent
<1>8. CASE WriteFails
  <2>1. \A a \in Actions :
          answer'[a] # answer[a] =>
            answer[a] = "waiting" /\ answer'[a] = "unknown" /\ a \in pending
    BY <1>8, AnswerType DEF WriteFails, Results, TypeOK
  <2>. QED  BY <1>0, <1>8, <2>1, SentIsNotQueued, Reported DEF WriteFails
<1>9. ASSUME NEW b \in Actions, ReadResponse(b)
      PROVE  ActionsKept'
  <2>1. \A a \in Actions :
          answer'[a] # answer[a] =>
            answer[a] = "waiting" /\ answer'[a] = "answered" /\ a \in pending
    BY <1>9, AnswerType DEF ReadResponse, Results
  <2>. QED  BY <1>0, <1>9, <2>1, SentIsNotQueued, Reported DEF ReadResponse
<1>10. ASSUME FailAll, written' = written
       PROVE  ActionsKept'
  <2>1. outbound' = <<>> /\ Members(outbound') = {}
    BY <1>10, EmptyMembers DEF FailAll
  <2>2. \A a \in Actions :
          answer'[a] # answer[a] =>
            /\ answer[a] = "waiting"
            /\ \/ answer'[a] = "unknown"
               \/ a \in Members(outbound) /\ answer'[a] = "refused"
    BY <1>10, FailAllType
  <2>. QED  BY <1>0, <1>10, <2>1, <2>2, SentIsNotQueued, Reported
<1>11. CASE Abort
  <2>1. \A a \in Actions :
          answer'[a] # answer[a] =>
            answer[a] = "waiting" /\ answer'[a] = "unknown"
    BY <1>11, AnswerType DEF Abort, Results
  <2>2. outbound' = <<>> /\ Members(outbound') = {} /\ written' = written
    BY <1>11, EmptyMembers DEF Abort
  <2>. QED  BY <2>1, <2>2, Reported
<1>12. CASE ReadEventToWait \/ Retire
  <2>1. \/ UNCHANGED <<outbound, answer, written>>
        \/ FailAll /\ written' = written
    BY <1>12 DEF ReadEventToWait, Retire
  <2>. QED  BY <1>1, <1>10, <2>1
<1>13. CASE CallStep
  <2>1. PICK a \in Actions :
          Admit(a) \/ Refuse(a) \/ CallerLeaves(a) \/ Expire(a)
    BY <1>13 DEF CallStep
  <2>2. CASE Expire(a)
    BY <1>1, <2>2 DEF Expire
  <2>. QED  BY <1>2, <1>3, <1>4, <2>1, <2>2
<1>14. CASE SendStep
  <2>1. Written => UNCHANGED <<outbound, answer, written>>
    BY DEF Written
  <2>. QED  BY <1>1, <1>5, <1>6, <1>7, <1>8, <1>9, <1>14, <2>1 DEF SendStep
<1>15. CASE EventStep
  <2>1. ReadEvent \/ Reserved \/ Flush => UNCHANGED <<outbound, answer, written>>
    BY DEF ReadEvent, Reserved, Flush, actions
  <2>. QED  BY <1>1, <1>12, <1>15, <2>1 DEF EventStep
<1>16. CASE EndStep
  <2>1. CloseConnection => UNCHANGED <<outbound, answer, written>>
    BY DEF CloseConnection, actions
  <2>. QED  BY <1>1, <1>11, <1>12, <1>16, <2>1 DEF EndStep
<1>17. CASE SlotStep \/ ForwardStep \/ UNCHANGED vars
  <2>1. UNCHANGED <<outbound, answer, written>>
    BY <1>17 DEF SlotStep, Accept, HandshakeFails, Serve, Break, Stop,
                 ForwardStep, Take, Note, Deliver, DeliverFails, RuntimeCloses,
                 vars, actions
  <2>. QED  BY <1>1, <2>1
<1>. QED  BY <1>13, <1>14, <1>15, <1>16, <1>17, Grouped

----------------------------------------------------------------------------
(* The flags of backpressure, and what they keep away *)

\* A queue that has just been emptied or set up is not full.
LEMMA EmptyIsNotFull == ~IsFull(<<>>)
BY EmptyMembers, ConnectionAssumption DEF IsFull

LEMMA StepFlags ==
  ASSUME TypeOK, Shape, FlagsKept, [Next]_vars
  PROVE  FlagsKept'
<1>1. CASE UNCHANGED <<published, flags, pending_events, queued, forwarder,
                       runtime_open>>
  BY <1>1 DEF FlagsKept, flags, IsFull
<1>2. CASE Serve
  <2>1. /\ ~published /\ published'
        /\ pending_events = <<>> /\ queued = <<>> /\ forwarder = "none"
        /\ UNCHANGED <<flags, pending_events, queued, runtime_open>>
        /\ forwarder' = "idle"
    BY <1>2 DEF Serve, Shape
  <2>. QED  BY <2>1, EmptyIsNotFull DEF FlagsKept, flags, IsFull
<1>3. CASE ReadEvent
  <2>1. /\ published /\ UNCHANGED <<published, event_producer_waiting,
                                    pending_events>>
        /\ event_queue_full' = IsFull(queued')
    BY <1>3 DEF ReadEvent, Readable, Selecting, Shape
  <2>. QED  BY <2>1 DEF FlagsKept, IsFull
<1>4. CASE ReadEventToWait
  <2>1. /\ published /\ published' /\ event_producer_waiting'
        /\ event_queue_full' /\ IsFull(queued')
    BY <1>4 DEF ReadEventToWait, Readable, Selecting, Shape, IsFull
  <2>2. Len(pending_events') = Len(pending_events) + 1
          /\ Len(pending_events) \in Nat
    BY <1>4, Arrived DEF ReadEventToWait, Readable, TypeOK
  <2>3. pending_events' # <<>>
    BY <2>2, EmptyMembers
  <2>. QED  BY <2>1, <2>3 DEF FlagsKept
<1>5. CASE Reserved
  <2>1. /\ published /\ UNCHANGED published
        /\ event_producer_waiting' = (pending_events' # <<>>)
        /\ event_queue_full' = IsFull(queued')
    BY <1>5 DEF Reserved, Selecting, Shape
  <2>. QED  BY <2>1 DEF FlagsKept, IsFull
<1>6. CASE Flush
  <2>1. /\ ~published /\ ~published' /\ ~IsFull(queued)
        /\ UNCHANGED <<flags, forwarder, runtime_open>>
    BY <1>6 DEF Flush, Shape
  <2>. QED  BY <2>1 DEF FlagsKept, flags
<1>7. CASE Retire \/ Abort
  <2>1. ~published' /\ ~event_queue_full' /\ ~event_producer_waiting'
    BY <1>7 DEF Retire, Abort, Unpublish
  <2>. QED  BY <2>1 DEF FlagsKept
<1>8. CASE CloseConnection
  <2>1. /\ ~published /\ ~published'
        /\ UNCHANGED <<flags, runtime_open>>
    BY <1>8 DEF CloseConnection, Shape
  <2>2. runtime_open => queued = <<>> /\ forwarder = "idle"
    BY <1>8 DEF CloseConnection, Drained, Forwarded, Shape
  <2>. QED  BY <2>1, <2>2, EmptyIsNotFull DEF FlagsKept, flags
<1>9. CASE Take
  <2>1. /\ forwarder' = "took"
        /\ UNCHANGED <<published, event_producer_waiting, pending_events>>
    BY <1>9 DEF Take, flags
  <2>. QED  BY <2>1 DEF FlagsKept
<1>10. CASE Note
  <2>1. /\ event_queue_full' = IsFull(queued')
        /\ UNCHANGED <<published, event_producer_waiting, pending_events>>
    BY <1>10 DEF Note, IsFull
  <2>. QED  BY <2>1 DEF FlagsKept, IsFull
<1>11. CASE Deliver \/ DeliverFails \/ RuntimeCloses
  <2>1. UNCHANGED <<published, flags, pending_events, queued>>
    BY <1>11 DEF Deliver, DeliverFails, RuntimeCloses
  <2>2. runtime_open' /\ forwarder' # "took" => runtime_open /\ forwarder # "took"
    BY <1>11 DEF Deliver, DeliverFails, RuntimeCloses
  <2>. QED  BY <2>1, <2>2 DEF FlagsKept, flags, IsFull
<1>12. CASE CallStep \/ SendStep \/ UNCHANGED vars
  <2>1. UNCHANGED <<published, flags, events>>
    BY <1>12 DEF CallStep, Admit, Refuse, CallerLeaves, Expire, SendStep, Tick,
                 TransmitRefused, Transmit, Written, WriteFails, ReadResponse,
                 vars
  <2>. QED  BY <1>1, <2>1 DEF events
<1>13. CASE SlotStep
  <2>1. \/ Serve
        \/ UNCHANGED <<published, flags, events>>
    BY <1>13 DEF SlotStep, Accept, HandshakeFails, Break, Stop
  <2>. QED  BY <1>1, <1>2, <2>1 DEF events
<1>. QED
  BY <1>3, <1>4, <1>5, <1>6, <1>7, <1>8, <1>9, <1>10, <1>11, <1>12, <1>13,
     Grouped
  DEF EventStep, EndStep, ForwardStep

\* Where no Action may wait.
Unread == ~published \/ (connection = "serving" /\ Len(pending_events) = 2)

LEMMA StepQuiet ==
  ASSUME TypeOK, Shape, WithinCapacity, FlagsKept, UnreadIsQuiet, [Next]_vars
  PROVE  UnreadIsQuiet'
<1>. SUFFICES ASSUME Unread'
              PROVE  outbound' = <<>> /\ pending' = {}
  BY DEF UnreadIsQuiet, Unread
<1>0. Unread => outbound = <<>> /\ pending = {}
  BY DEF UnreadIsQuiet, Unread
<1>1. CASE UNCHANGED <<outbound, pending>> /\ Unread
  BY <1>0, <1>1
<1>2. CASE CallStep
  <2>1. UNCHANGED <<connection, published, pending, events>>
    BY <1>2 DEF CallStep, Admit, Refuse, CallerLeaves, Expire
  <2>2. Unread
    BY <2>1 DEF Unread, events
  <2>3. ~Admissible
    <3>1. pending_events # <<>> \/ ~published
      BY <2>2, EmptyMembers DEF Unread
    <3>. QED  BY <3>1 DEF Admissible, BackPressured, FlagsKept
  <2>4. outbound' = outbound
    BY <1>2, <2>3 DEF CallStep, Admit, Refuse, CallerLeaves, Expire
  <2>. QED  BY <1>0, <2>1, <2>2, <2>4
<1>3. CASE SlotStep
  <2>1. UNCHANGED <<outbound, pending>>
    BY <1>3 DEF SlotStep, Accept, HandshakeFails, Serve, Break, Stop, actions
  <2>2. CASE Serve
    <3>1. ~published
      BY <2>2 DEF Serve, Shape
    <3>. QED  BY <1>1, <2>1, <3>1 DEF Unread
  <2>3. CASE Accept \/ HandshakeFails \/ Stop
    <3>1. ~published
      BY <2>3 DEF Accept, HandshakeFails, Stop, Shape
    <3>. QED  BY <1>1, <2>1, <3>1 DEF Unread
  <2>4. CASE Break
    BY <2>4 DEF Break, Unread, Selecting, Shape
  <2>. QED  BY <1>3, <2>2, <2>3, <2>4 DEF SlotStep
<1>4. CASE SendStep
  <2>1. published
    BY <1>4, <1>0 DEF SendStep, Tick, TransmitRefused, Transmit, Written,
                      WriteFails, ReadResponse, Selecting, Shape
  <2>2. UNCHANGED published /\ UNCHANGED events
    BY <1>4 DEF SendStep, Tick, TransmitRefused, Transmit, Written, WriteFails,
                ReadResponse
  <2>3. connection' = "serving" /\ Len(pending_events) = 2
    BY <2>1, <2>2 DEF Unread, events
  <2>4. connection' \in {connection, "broken"}
    BY <1>4 DEF SendStep, Tick, TransmitRefused, Transmit, Written, WriteFails,
                ReadResponse
  <2>5. outbound = <<>> /\ pending = {}
    BY <1>0, <2>3, <2>4 DEF Unread
  <2>6. writing = NoAction
    BY <2>5 DEF TypeOK
  <2>. QED
    BY <1>4, <2>5, <2>6
    DEF SendStep, Tick, TransmitRefused, Transmit, Written, WriteFails,
        ReadResponse
<1>5. CASE EventStep
  <2>1. CASE ReadEvent
    BY <1>1, <2>1 DEF ReadEvent, actions, Unread
  <2>2. CASE ReadEventToWait
    <3>1. published /\ published' /\ connection' = "serving"
      BY <2>2 DEF ReadEventToWait, Readable, Selecting, Shape
    <3>2. Len(pending_events') = 2
      BY <3>1 DEF Unread
    <3>. QED  BY <2>2, <3>2 DEF ReadEventToWait, FailAll
  <2>3. CASE Reserved
    <3>1. published /\ published' /\ connection' = "serving"
      BY <2>3 DEF Reserved, Selecting, Shape
    <3>2. Len(pending_events') = 2
      BY <3>1 DEF Unread
    <3>3. Len(pending_events') # 2
      BY <2>3, RoomAfterMove DEF Reserved
    <3>. QED  BY <3>2, <3>3
  <2>4. CASE Flush
    <3>1. ~published
      BY <2>4 DEF Flush, Shape
    <3>. QED  BY <1>1, <2>4, <3>1 DEF Flush, actions, Unread
  <2>. QED  BY <1>5, <2>1, <2>2, <2>3, <2>4 DEF EventStep
<1>6. CASE EndStep
  <2>1. CASE Retire \/ Abort
    BY <2>1 DEF Retire, Abort, FailAll
  <2>2. CASE CloseConnection
    <3>1. ~published
      BY <2>2 DEF CloseConnection, Shape
    <3>. QED  BY <1>1, <2>2, <3>1 DEF CloseConnection, actions, Unread
  <2>. QED  BY <1>6, <2>1, <2>2 DEF EndStep
<1>7. CASE ForwardStep \/ UNCHANGED vars
  <2>1. UNCHANGED <<connection, published, outbound, pending, pending_events>>
    BY <1>7 DEF ForwardStep, Take, Note, Deliver, DeliverFails, RuntimeCloses,
                vars, actions, events
  <2>. QED  BY <1>1, <2>1 DEF Unread
<1>. QED  BY <1>2, <1>3, <1>4, <1>5, <1>6, <1>7, Grouped

----------------------------------------------------------------------------
(* The theorems *)

LEMMA InitInvariant == Init => IInv
<1>. SUFFICES ASSUME Init PROVE IInv
  OBVIOUS
<1>1. <<>> \in Seq(Actions) /\ <<>> \in Seq(EventNumbers)
  BY EmptySeq
<1>2. TypeOK
  BY <1>1 DEF Init, TypeOK, NoEvent
<1>3. EventsKept
  BY EmptyMembers DEF Init, EventsKept, Holding, NoEvent
<1>4. WithinCapacity /\ FlagsKept
  BY EmptyMembers, ConnectionAssumption
  DEF Init, WithinCapacity, FlagsKept, IsFull
<1>5. Shape
  BY DEF Init, Shape, NoEvent
<1>6. OutboundUnsent /\ RefusedWasNotSent /\ UnreadIsQuiet
  BY EmptyMembers DEF Init, OutboundUnsent, RefusedWasNotSent, UnreadIsQuiet
<1>. QED  BY <1>2, <1>3, <1>4, <1>5, <1>6 DEF IInv

LEMMA IInvStep ==
  ASSUME IInv, [Next]_vars
  PROVE  IInv'
<1>1. TypeOK' /\ Shape'
  BY StepType, StepShape DEF IInv
<1>2. WithinCapacity' /\ EventsKept'
  BY StepCapacity, StepEvents DEF IInv
<1>3. ActionsKept'
  BY StepActions DEF IInv, ActionsKept
<1>4. FlagsKept' /\ UnreadIsQuiet'
  BY StepFlags, StepQuiet DEF IInv
<1>. QED  BY <1>1, <1>2, <1>3, <1>4 DEF IInv, ActionsKept

THEOREM Inductive == Spec => []IInv
<1>1. IInv /\ [Next]_vars => IInv'
  BY IInvStep
<1>. QED  BY InitInvariant, <1>1, PTL DEF Spec

\* Every variable of the connection keeps its type; an Action that is being
\* written is pending, and one that is pending was written.
THEOREM TypeCorrect == Spec => []TypeOK
<1>1. IInv => TypeOK
  BY DEF IInv
<1>. QED  BY Inductive, <1>1, PTL

LEMMA EventsOnce == IInv => EachEventOnce
<1>. SUFFICES ASSUME IInv PROVE EachEventOnce
  OBVIOUS
<1>1. Len(queued) + Len(pending_events) + Holding <= LocalCapacity + 3
  <2>1. /\ queued \in Seq(EventNumbers) /\ pending_events \in Seq(EventNumbers)
        /\ Holding \in {0, 1}
    BY HeldEvent DEF IInv, TypeOK
  <2>2. Len(queued) \in Nat /\ Len(pending_events) \in Nat
    BY <2>1, LenProperties
  <2>3. Len(queued) <= LocalCapacity /\ Len(pending_events) <= 2
    BY DEF IInv, WithinCapacity
  <2>. QED  BY <2>1, <2>2, <2>3, ConnectionAssumption
<1>. QED  BY <1>1 DEF IInv, EventsKept, Live, EachEventOnce

\* However many events the peer sends, and wherever connections break: every
\* event that was read is in one place, none is doubled, the budget of the
\* connection holds; and an Action reported as refused was never written.
THEOREM TrafficExact == Spec => []TrafficIsExact
<1>1. IInv => TrafficIsExact
  BY EventsOnce DEF IInv, TrafficIsExact
<1>. QED  BY Inductive, <1>1, PTL

\* No Action waits where nobody reads, neither under backpressure nor once the
\* connection is unpublished, and the flags that refuse Actions are exact.
THEOREM BackpressureSound == Spec => []BackpressureIsSound
<1>1. IInv => BackpressureIsSound
  <2>. SUFFICES ASSUME IInv PROVE FlagsAreFresh
    BY DEF IInv, BackpressureIsSound
  <2>1. \A b \in {event_queue_full, event_producer_waiting} : b \in BOOLEAN
    BY DEF IInv, TypeOK
  <2>. QED  BY <2>1 DEF IInv, FlagsKept, FlagsAreFresh
<1>. QED  BY Inductive, <1>1, PTL
=============================================================================
