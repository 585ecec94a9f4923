--------------------------- MODULE LiveDashboard ---------------------------
(***************************************************************************)
(* How a change to the data reaches an open dashboard page.                *)
(*                                                                         *)
(* A handler changes rows, publishes on the bus of its worker process and  *)
(* only then commits.  publish always bumps the bus's version; it schedules*)
(* a fan-out to the subscribed pages only where an event loop runs, that   *)
(* is in the asynchronous endpoints.  Such a handler occupies the loop of  *)
(* its worker until it returns, after the commit.  A handler in a worker   *)
(* thread bumps the version and nothing more.                              *)
(*                                                                         *)
(* The page hears of a change from its event stream or by polling the      *)
(* version, marks the drawn model stale and renders the tab in view, unless*)
(* a load is under way.  Six tabs are boards drawn from one model, which is*)
(* loaded when one of them is in view and it is stale or not drawn; the    *)
(* queries, upload and reports tabs load what they show and leave the model*)
(* as it is.  A load reads the database and is drawn later.                *)
(***************************************************************************)
EXTENDS Naturals, Sequences, FiniteSets

CONSTANTS
    Worker,       \* the server processes, each with a bus of its own
    Handler,      \* the requests that may be in progress at once
    None,
    MAX_QUEUE,    \* events a subscriber may lag behind
    MaxChanges,   \* bound: changes ever published
    MaxFailures   \* bound: loads that fail

ASSUME LiveAssumption ==
    /\ MAX_QUEUE \in Nat /\ MaxChanges \in Nat /\ MaxFailures \in Nat
    /\ None \notin Nat /\ None \notin Worker /\ None \notin {"BOARD", "OTHER"}

VARIABLES
    request,     \* request[h]: the change handler h has published and not yet stored
    changes,     \* changes published so far; they are numbered in that order
    committed,   \* the changes the database holds
    version,     \* version[w]: the data_version of worker w
    scheduled,   \* scheduled[w]: fan-outs w's loop has yet to run
    stream,      \* the page's subscription: the worker it is with, and its queue
    page,        \* the page
    failures     \* loads that failed so far

vars == <<request, changes, committed, version, scheduled, stream, page, failures>>

Change == 1..MaxChanges

Idle == [change |-> None, worker |-> None, async |-> FALSE]
Request == [change: Change \cup {None}, worker: Worker \cup {None}, async: BOOLEAN]

Closed == [worker |-> None, queue |-> <<>>]

(* seen: state.dataVersion; view: the tab; load: the tab a load under way  *)
(* is for (state.loading, when there is one); stale: state.analysisStale;  *)
(* answer: what a load of the boards has read; shown: the model drawn.     *)
View == {"BOARD", "OTHER"}

Page == [seen: Nat, view: View, load: View \cup {None}, stale: BOOLEAN,
         answer: (SUBSET Change) \cup {None}, shown: (SUBSET Change) \cup {None}]

TypeOK ==
    /\ request \in [Handler -> Request]
    /\ changes \in 0..MaxChanges
    /\ committed \subseteq Change
    /\ version \in [Worker -> Nat]
    /\ scheduled \in [Worker -> Seq(Change)]
    /\ stream.worker \in Worker \cup {None}
    /\ stream.queue \in Seq(Change) /\ Len(stream.queue) <= MAX_QUEUE
    /\ page \in Page
    /\ failures \in 0..MaxFailures

Init ==
    /\ request = [h \in Handler |-> Idle]
    /\ changes = 0
    /\ committed = {}
    /\ version = [w \in Worker |-> 0]
    /\ scheduled = [w \in Worker |-> <<>>]
    /\ stream = Closed
    /\ page = [seen |-> 0, view |-> "BOARD", load |-> "BOARD", stale |-> FALSE,
                answer |-> None, shown |-> None]
    /\ failures = 0

-----------------------------------------------------------------------------
(* The server.                                                             *)

(* An asynchronous handler between its publish and its return holds the    *)
(* event loop: there is no await in between.                               *)
LoopHeld(w) == \E h \in Handler : request[h].async /\ request[h].worker = w

(* The change is in the handler's transaction, which is not committed yet. *)
Publish(h, w, async) ==
    /\ request[h] = Idle
    /\ changes < MaxChanges
    /\ async => ~LoopHeld(w)
    /\ changes' = changes + 1
    /\ request' = [request EXCEPT ![h] = [change |-> changes', worker |-> w, async |-> async]]
    /\ version' = [version EXCEPT ![w] = @ + 1]
    /\ scheduled' = [scheduled EXCEPT ![w] = IF async THEN Append(@, changes') ELSE @]
    /\ UNCHANGED <<committed, stream, page, failures>>

Store(h) ==
    /\ request[h] # Idle
    /\ committed' = committed \cup {request[h].change}
    /\ request' = [request EXCEPT ![h] = Idle]
    /\ UNCHANGED <<changes, version, scheduled, stream, page, failures>>

(* The handler fails after it published: the version stays bumped and the  *)
(* event stays scheduled.                                                  *)
RollBack(h) ==
    /\ request[h] # Idle
    /\ request' = [request EXCEPT ![h] = Idle]
    /\ UNCHANGED <<changes, committed, version, scheduled, stream, page, failures>>

(* Mutant: the queue of a slow subscriber is not checked.                  *)
FanOutUnbounded(w) ==
    /\ ~LoopHeld(w) /\ scheduled[w] # <<>>
    /\ scheduled' = [scheduled EXCEPT ![w] = Tail(@)]
    /\ stream' = IF stream.worker = w
                 THEN [stream EXCEPT !.queue = Append(@, Head(scheduled[w]))] ELSE stream
    /\ UNCHANGED <<request, changes, committed, version, page, failures>>

(* Mutant: the fan-out does not wait for the handler to return.            *)
FanOutAtOnce(w) ==
    /\ scheduled[w] # <<>>
    /\ scheduled' = [scheduled EXCEPT ![w] = Tail(@)]
    /\ stream' = IF stream.worker = w /\ Len(stream.queue) < MAX_QUEUE
                 THEN [stream EXCEPT !.queue = Append(@, Head(scheduled[w]))] ELSE stream
    /\ UNCHANGED <<request, changes, committed, version, page, failures>>

(* The event goes to the queue of every page subscribed with this worker;  *)
(* a queue that is full loses it.                                          *)
FanOut(w) ==
    /\ ~LoopHeld(w)
    /\ scheduled[w] # <<>>
    /\ scheduled' = [scheduled EXCEPT ![w] = Tail(@)]
    /\ stream' = IF stream.worker = w /\ Len(stream.queue) < MAX_QUEUE
                 THEN [stream EXCEPT !.queue = Append(@, Head(scheduled[w]))] ELSE stream
    /\ UNCHANGED <<request, changes, committed, version, page, failures>>

-----------------------------------------------------------------------------
(* The event stream of the page.                                           *)

(* Opening it says "live" on the page and loads nothing.                   *)
Connect(w) ==
    /\ stream = Closed
    /\ ~LoopHeld(w)
    /\ stream' = [Closed EXCEPT !.worker = w]
    /\ UNCHANGED <<request, changes, committed, version, scheduled, page, failures>>

Break ==
    /\ stream # Closed
    /\ stream' = Closed
    /\ UNCHANGED <<request, changes, committed, version, scheduled, page, failures>>

-----------------------------------------------------------------------------
(* The page.                                                               *)

(* render: nothing while a load is under way, whichever tab it is for, and *)
(* nothing on a board that is drawn and up to date.                        *)
Rendered(p) ==
    IF p.load # None \/ (p.view = "BOARD" /\ p.shown # None /\ ~p.stale)
    THEN p ELSE [p EXCEPT !.load = p.view]

MarkStale(p) == Rendered([p EXCEPT !.stale = TRUE])

(* Mutant: the event marks the page and draws nothing.                     *)
PushWithoutRender ==
    /\ stream.queue # <<>>
    /\ ~LoopHeld(stream.worker)
    /\ stream' = [stream EXCEPT !.queue = Tail(@)]
    /\ page' = [page EXCEPT !.stale = TRUE]
    /\ UNCHANGED <<request, changes, committed, version, scheduled, failures>>

(* An event is delivered.  It leaves the version the page last polled.     *)
Push ==
    /\ stream.queue # <<>>
    /\ ~LoopHeld(stream.worker)
    /\ stream' = [stream EXCEPT !.queue = Tail(@)]
    /\ page' = MarkStale(page)
    /\ UNCHANGED <<request, changes, committed, version, scheduled, failures>>

(* Mutant: a page with a live stream does not poll.                        *)
PollOffline(w) ==
    /\ stream = Closed /\ version[w] # page.seen
    /\ page' = [MarkStale(page) EXCEPT !.seen = version[w]]
    /\ UNCHANGED <<request, changes, committed, version, scheduled, stream, failures>>

(* Any worker may answer a poll.                                           *)
Poll(w) ==
    /\ version[w] # page.seen
    /\ page' = [MarkStale(page) EXCEPT !.seen = version[w]]
    /\ UNCHANGED <<request, changes, committed, version, scheduled, stream, failures>>

(* The user turns to a tab, or does something on it that renders it again. *)
ShowTab(v) ==
    /\ page' = Rendered([page EXCEPT !.view = v])
    /\ UNCHANGED <<request, changes, committed, version, scheduled, stream, failures>>

(* The server reads the database for the load of the boards.               *)
Answer ==
    /\ page.load = "BOARD"
    /\ page.answer = None
    /\ page' = [page EXCEPT !.answer = committed]
    /\ UNCHANGED <<request, changes, committed, version, scheduled, stream, failures>>

(* Mutant: the load is drawn and its flag never comes down.                *)
DrawKeepsLoading ==
    /\ page.answer # None
    /\ page' = [page EXCEPT !.shown = page.answer, !.answer = None, !.stale = FALSE]
    /\ UNCHANGED <<request, changes, committed, version, scheduled, stream, failures>>

Draw ==
    /\ page.answer # None
    /\ page' = [page EXCEPT !.shown = page.answer, !.answer = None,
                            !.stale = FALSE, !.load = None]
    /\ UNCHANGED <<request, changes, committed, version, scheduled, stream, failures>>

(* The load of another tab ends.  What was asked of the page meanwhile is  *)
(* not made up for: the tab now in view is not rendered.                   *)
EndOther ==
    /\ page.load = "OTHER"
    /\ page' = [page EXCEPT !.load = None]
    /\ UNCHANGED <<request, changes, committed, version, scheduled, stream, failures>>

(* Mutant: a load that fails clears the mark too.                          *)
LoadFailsUncaught ==
    /\ page.load # None
    /\ failures < MaxFailures
    /\ failures' = failures + 1
    /\ page' = [page EXCEPT !.answer = None, !.load = None, !.stale = FALSE]
    /\ UNCHANGED <<request, changes, committed, version, scheduled, stream>>

LoadFails ==
    /\ page.load # None
    /\ failures < MaxFailures
    /\ failures' = failures + 1
    /\ page' = [page EXCEPT !.answer = None, !.load = None]
    /\ UNCHANGED <<request, changes, committed, version, scheduled, stream>>

Next ==
    \/ \E h \in Handler, w \in Worker, async \in BOOLEAN : Publish(h, w, async)
    \/ \E h \in Handler : Store(h) \/ RollBack(h)
    \/ \E w \in Worker : FanOut(w) \/ Connect(w) \/ Poll(w)
    \/ \E v \in View : ShowTab(v)
    \/ Break \/ Push \/ Answer \/ Draw \/ EndOther \/ LoadFails

(* A handler ends, a loop runs what is scheduled, an event is delivered,   *)
(* the page polls every thirty seconds and every load ends.  Nobody has to *)
(* change data, open a tab or connect, and nothing has to fail.            *)
Fairness ==
    /\ \A h \in Handler : WF_vars(Store(h) \/ RollBack(h))
    /\ \A w \in Worker : WF_vars(FanOut(w)) /\ WF_vars(Poll(w))
    /\ WF_vars(Push) /\ WF_vars(Answer) /\ WF_vars(Draw) /\ WF_vars(EndOther)

Spec == Init /\ [][Next]_vars
FairSpec == Spec /\ Fairness

-----------------------------------------------------------------------------
(* An event reaches a page's queue only after the transaction behind it is *)
(* over: a page that reloads on a push never reads from before the change. *)
PushedIsSettled ==
    \A k \in DOMAIN stream.queue : \A h \in Handler : request[h].change # stream.queue[k]

(* A board is in view that is blank or marked stale, and nothing is coming.*)
LeftBehind(p) ==
    p.view = "BOARD" /\ (p.stale \/ p.shown = None) /\ p.load = None

(* However events, polls, turns of the tab and loads interleave, a board in*)
(* view is left behind only by a load that failed, or by one of another tab*)
(* that was under way when the board was asked for and has ended.          *)
StaleIsBeingLoaded ==
    [][LeftBehind(page)' /\ ~LeftBehind(page)
       => failures' # failures \/ page.load = "OTHER"]_vars

(* The mark comes off only with what a load brought: a load that fails     *)
(* leaves the page to be loaded again.                                     *)
StaleUntilDrawn ==
    [][page.stale /\ ~page'.stale
       => page.answer # None /\ page'.shown = page.answer]_vars

(* No load lasts for ever and blocks every later one.                      *)
LoadingEnds == page.load # None ~> page.load = None

(* Every bump of a version is noticed, however many events a full queue    *)
(* lost and however often the stream broke.  (One worker.)                 *)
PollNotices ==
    \A n \in Change : (\E w \in Worker : version[w] >= n) ~> page.seen >= n

(* What the deployment notes promise: a stored change is shown, at the     *)
(* latest a poll later.                                                    *)
PageCatchesUp ==
    \A c \in Change : c \in committed ~> (page.shown # None /\ c \in page.shown)
=============================================================================
