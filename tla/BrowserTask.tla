----------------------------- MODULE BrowserTask -----------------------------
(***************************************************************************)
(* A browser task of a plugin: InstalledBrowserExecutor in                 *)
(* src/src/browser.rs, and the worker it starts, the program in            *)
(* WORKER_SOURCE, with its proxy, its request handler and its steps.       *)
(*                                                                         *)
(* The handlers of the worker run interleaved at each await: while a host  *)
(* is looked up the client may go away or the proxy close, and while the   *)
(* headers of a request are fetched a step may navigate elsewhere.         *)
(***************************************************************************)
EXTENDS Integers, Sequences, FiniteSets, SequencesExt

CONSTANTS
    Origins, HostOf,    \* origins of the web and the host of each
    Declared,           \* a sequence of the origins that the manifest names
    Addresses,          \* the public addresses a lookup may find, each time another one
    Requests,           \* those that the page makes
    Connections,        \* those that the browser makes to the proxy
    Nothing,
    Budget,             \* requests of a task
    MaxSteps            \* bound: steps that navigate

VARIABLES
    phase,      \* of the executor, then of execute() in the worker
    pinned,     \* permissions with their address, those that are resolved
    todo,       \* the others
    nav,        \* headerOrigin, pendingHeaderOrigin, explicitNavigationRequest, navigationCrossedOrigin
    request,    \* a request: its place, its origin
    used,       \* requestCount, the steps taken and resourceError
    connection, \* a connection of the proxy: client and upstream
    closing,    \* of the proxy
    page,       \* history: the target of the last step, the origins of the main frame since
    astray      \* history: requests that left with the extra headers for elsewhere

vars == <<phase, pinned, todo, nav, request, used, connection, closing, page, astray>>
main == <<phase, pinned, todo>>
web == <<nav, request, used, page, astray>>
proxy == <<connection, closing>>

Running == {"step", "blank", "goto", "answer", "browser closing"}

Init ==
    /\ phase = "resolve"
    /\ pinned = {}
    /\ \E granted \in SUBSET Range(Declared) : todo = SelectSeq(Declared, LAMBDA o : o \in granted)
    /\ nav = [headers |-> Nothing, pending |-> Nothing, explicit |-> Nothing, crossed |-> FALSE]
    /\ request = [r \in Requests |-> [at |-> "none", origin |-> Nothing]]
    /\ used = [requests |-> 0, steps |-> 0, exceeded |-> FALSE]
    /\ connection = [k \in Connections |-> [client |-> "none", upstream |-> "none"]]
    /\ closing = FALSE
    /\ page = [target |-> Nothing, visited |-> {}]
    /\ astray = {}

(***************************************************************************)
(* The executor                                                            *)
(***************************************************************************)
\* No permission is granted.
Deny ==
    /\ phase = "resolve" /\ todo = <<>> /\ pinned = {}
    /\ phase' = "failed"
    /\ UNCHANGED <<pinned, todo, web, proxy>>

AddressesOf_Again(host) == Addresses
\* A host that was looked up for another permission keeps its address.
AddressesOf(host) ==
    LET known == {p.address : p \in {q \in pinned : HostOf[q.origin] = host}}
    IN  IF known = {} THEN Addresses ELSE known

ResolveHost ==
    /\ phase = "resolve" /\ todo # <<>>
    /\ \E a \in AddressesOf(HostOf[Head(todo)]) :
          pinned' = pinned \cup {[origin |-> Head(todo), address |-> a]}
    /\ todo' = Tail(todo)
    /\ UNCHANGED <<phase, web, proxy>>

\* The lookup fails or finds no public address.
ResolveFails ==
    /\ phase = "resolve" /\ todo # <<>>
    /\ phase' = "failed"
    /\ UNCHANGED <<pinned, todo, web, proxy>>

Disagreeing == \E p, q \in pinned : HostOf[p.origin] = HostOf[q.origin] /\ p.address # q.address

\* The worker starts the proxy, then the browser.
StartProxy ==
    /\ phase = "resolve" /\ todo = <<>> /\ pinned # {}
    /\ phase' = IF Disagreeing THEN "disagree" ELSE "step"
    /\ UNCHANGED <<pinned, todo, web, proxy>>

Destroyed(state) == IF state = "open" THEN "closed" ELSE state
AllDestroyed ==
    [k \in Connections |-> [client |-> Destroyed(connection[k].client),
                            upstream |-> Destroyed(connection[k].upstream)]]

\* After 30 seconds the executor drops the worker, which kills it.
TimesOut ==
    /\ phase \in Running \cup {"proxy closing"}
    /\ phase' = "failed"
    /\ connection' = [k \in Connections |-> [client |-> "closed", upstream |-> "closed"]]
    /\ UNCHANGED <<pinned, todo, web, closing>>

(***************************************************************************)
(* The steps                                                               *)
(***************************************************************************)
Permitted(origin) == \E p \in pinned : p.origin = origin

\* A step, or the end of them, finds a resource error, or a step is refused or fails.
StepFails ==
    /\ phase \in {"step", "blank", "goto", "answer"}
    /\ phase' = "browser closing"
    /\ UNCHANGED <<pinned, todo, web, proxy>>

Navigate ==
    /\ phase = "step" /\ ~used.exceeded
    /\ used.steps < MaxSteps
    /\ \E o \in Origins : Permitted(o) /\ page' = [page EXCEPT !.target = o]
    /\ used' = [used EXCEPT !.steps = @ + 1]
    /\ nav' = [headers |-> Nothing, pending |-> Nothing, explicit |-> Nothing, crossed |-> TRUE]
    /\ phase' = "blank"
    /\ UNCHANGED <<pinned, todo, request, astray, proxy>>

\* page.goto('about:blank') has ended.
Goto ==
    /\ phase = "blank"
    /\ nav' = [nav EXCEPT !.pending = page.target]
    /\ page' = [page EXCEPT !.visited = {}]
    /\ phase' = "goto"
    /\ UNCHANGED <<pinned, todo, request, used, astray, proxy>>

GotoEnds ==
    /\ phase = "goto"
    /\ nav' = [nav EXCEPT !.explicit = Nothing]
    /\ phase' = "step"
    /\ UNCHANGED <<pinned, todo, request, used, page, astray, proxy>>

\* The steps are over; the result is put together.
Answer ==
    /\ phase = "step" /\ ~used.exceeded
    /\ phase' = "answer"
    /\ UNCHANGED <<pinned, todo, web, proxy>>

Answered ==
    /\ phase = "answer"
    /\ phase' = "browser closing"
    /\ UNCHANGED <<pinned, todo, web, proxy>>

\* Network.dataReceived, page.on('response'): too many bytes.
TooManyBytes ==
    /\ phase \in Running
    /\ used' = [used EXCEPT !.exceeded = TRUE]
    /\ UNCHANGED <<main, nav, request, page, astray, proxy>>

(***************************************************************************)
(* The handler of context.route()                                          *)
(***************************************************************************)
Abort(r) == request' = [request EXCEPT ![r].at = "aborted"]
Accept(r, o) == request' = [request EXCEPT ![r] = [at |-> "headers", origin |-> o]]

OverBudget(r) ==
    /\ phase \in Running /\ request[r].at = "none"
    /\ used.requests >= Budget
    /\ used' = [used EXCEPT !.exceeded = TRUE]
    /\ Abort(r)
    /\ UNCHANGED <<main, nav, page, astray, proxy>>

Counts(r) ==
    /\ phase \in Running /\ request[r].at = "none"
    /\ used.requests < Budget
    /\ used' = [used EXCEPT !.requests = @ + 1]

\* The first request of the main frame after goto() is taken for the step's own one.
FirstOfGoto(r, o) ==
    IF o = nav.pending
    THEN [headers |-> o, pending |-> Nothing, explicit |-> r, crossed |-> FALSE]
    ELSE [headers |-> Nothing, pending |-> Nothing, explicit |-> Nothing, crossed |-> TRUE]

Redirected_Anywhere(r, o) == [nav EXCEPT !.explicit = r]
\* A redirection of the step's own request; one that comes back has still crossed.
Redirected(r, o) ==
    [nav EXCEPT !.explicit = r, !.crossed = @ \/ (nav.headers # Nothing /\ o # nav.headers)]

\* The page goes elsewhere of its own accord.
Wanders == [headers |-> Nothing, pending |-> Nothing, explicit |-> Nothing, crossed |-> TRUE]

\* A navigation of the main frame, or of one of a popup.
TopNavigation(r) ==
    /\ Counts(r)
    /\ \E o \in Origins :
          \/ /\ Permitted(o)
             /\ Accept(r, o)
             /\ page' = [page EXCEPT !.visited = @ \cup {o}]
             /\ IF nav.pending # Nothing
                THEN nav' = FirstOfGoto(r, o)
                ELSE \/ nav.explicit # Nothing /\ nav' = Redirected(r, o)
                     \/ nav' = Wanders
          \/ ~Permitted(o) /\ Abort(r) /\ UNCHANGED <<nav, page>>
    /\ UNCHANGED <<main, astray, proxy>>

\* A frame in the page needs the permission too; an image, a script, a style does not.
OtherRequest(r) ==
    /\ Counts(r)
    /\ \E o \in Origins, frame \in BOOLEAN :
          IF frame /\ ~Permitted(o) THEN Abort(r) ELSE Accept(r, o)
    /\ UNCHANGED <<main, nav, page, astray, proxy>>

CarriesHeaders(r) == nav.headers = request[r].origin /\ ~nav.crossed

\* allHeaders() has answered.
Continue(r) ==
    /\ phase \in Running /\ request[r].at = "headers"
    /\ request' = [request EXCEPT ![r].at = "continued"]
    /\ astray' = IF CarriesHeaders(r) /\ ~(request[r].origin = page.target /\ page.visited = {page.target})
                 THEN astray \cup {r} ELSE astray
    /\ UNCHANGED <<main, nav, used, page, proxy>>

(***************************************************************************)
(* The proxy: ordinary requests, tunnels and upgrades                      *)
(***************************************************************************)
Link(k, client, upstream) ==
    connection' = [connection EXCEPT ![k] = [client |-> client, upstream |-> upstream]]

Connect(k) ==
    /\ phase \in Running /\ connection[k].client = "none"
    /\ Link(k, "open", "resolving")
    /\ UNCHANGED <<main, web, closing>>

MayConnect_Unchecked(k) == TRUE
MayConnect(k) == ~closing /\ connection[k].client = "open"

Resolved(k) ==
    /\ connection[k].upstream = "resolving"
    /\ Link(k, connection[k].client, IF MayConnect(k) THEN "open" ELSE "closed")
    /\ UNCHANGED <<main, web, closing>>

\* Not found, not public, after 5 seconds, or because the proxy is closing.
Refuse(k) ==
    /\ connection[k].upstream = "resolving"
    /\ Link(k, "closed", "closed")
    /\ UNCHANGED <<main, web, closing>>

ClientCloses(k) ==
    /\ connection[k].client = "open"
    /\ Link(k, "closed", Destroyed(connection[k].upstream))
    /\ UNCHANGED <<main, web, closing>>

\* It ends, fails or is idle for 30 seconds.
UpstreamCloses(k) ==
    /\ connection[k].upstream = "open"
    /\ Link(k, "closed", "closed")
    /\ UNCHANGED <<main, web, closing>>

\* browser.close() has ended; proxy.close().
CloseProxy ==
    /\ phase = "browser closing"
    /\ phase' = "proxy closing"
    /\ closing' = TRUE
    /\ connection' = AllDestroyed
    /\ UNCHANGED <<pinned, todo, web>>

\* The sockets are closed; a handler that still looks up a host keeps nothing open.
ProxyClosed ==
    /\ phase = "proxy closing"
    /\ \A k \in Connections : connection[k].client # "open"
    /\ phase' = "ended"
    /\ UNCHANGED <<pinned, todo, web, proxy>>

Next ==
    \/ Deny \/ ResolveHost \/ ResolveFails \/ StartProxy \/ TimesOut
    \/ StepFails \/ Navigate \/ Goto \/ GotoEnds \/ Answer \/ Answered \/ TooManyBytes
    \/ \E r \in Requests : OverBudget(r) \/ TopNavigation(r) \/ OtherRequest(r) \/ Continue(r)
    \/ \E k \in Connections :
          Connect(k) \/ Resolved(k) \/ Refuse(k) \/ ClientCloses(k) \/ UpstreamCloses(k)
    \/ CloseProxy \/ ProxyClosed

Spec == Init /\ [][Next]_vars
----------------------------------------------------------------------------
(***************************************************************************)
(* The extra headers of a task leave only for the origin that its last     *)
(* step navigated to, and only as long as the page has been nowhere else,  *)
(* whatever is redirected, late or on its way while the step changes.      *)
(***************************************************************************)
HeadersStayHome == astray = {}

(***************************************************************************)
(* A connection to a host exists only for a client that waits for it, and  *)
(* none is left or opened when the proxy closes, although the host is      *)
(* looked up meanwhile.                                                    *)
(***************************************************************************)
UpstreamsHaveClients ==
    \A k \in Connections :
       connection[k].upstream = "open" =>
          connection[k].client = "open" /\ phase \in Running

(***************************************************************************)
(* The executor never hands the worker permissions that it refuses,        *)
(* although each lookup of one host may find another address.              *)
(***************************************************************************)
PinsAgree == phase # "disagree"
=============================================================================
