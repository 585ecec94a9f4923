------------------------ MODULE LiveDashboardProofs ------------------------
(***************************************************************************)
(* The safety of LiveDashboard for any number of workers, handlers and     *)
(* changes: types, and what a page that learns of a change may rely on.    *)
(***************************************************************************)
EXTENDS LiveDashboard, TLAPS

(* The stream is a record: what TypeOK says of its fields, and no more.    *)
Streams == [worker: Worker \cup {None}, queue: Seq(Change)]

(* Changes are numbered as they are published: no request, fan-out or      *)
(* event is about one yet to come.                                         *)
Numbered ==
    /\ \A h \in Handler :
          request[h] = Idle \/ (request[h].change \in Change /\ request[h].change <= changes)
    /\ \A w \in Worker : \A k \in DOMAIN scheduled[w] : scheduled[w][k] <= changes
    /\ \A k \in DOMAIN stream.queue : stream.queue[k] <= changes

(* A fan-out that waits for an unfinished transaction waits in the loop    *)
(* that transaction holds.                                                 *)
WaitsInItsLoop ==
    \A w \in Worker : \A k \in DOMAIN scheduled[w] : \A h \in Handler :
        request[h].change = scheduled[w][k] => request[h].async /\ request[h].worker = w

IInv == TypeOK /\ stream \in Streams /\ Numbered /\ WaitsInItsLoop /\ PushedIsSettled

(* Nothing is published, scheduled or queued at the start.                 *)
LEMMA InitIInv == Init => IInv
BY LiveAssumption DEF Init, IInv, TypeOK, Streams, Numbered, WaitsInItsLoop, PushedIsSettled,
   Idle, Request, Closed, Page, View, Change

(* A handler publishes: its change has a number nothing waits for yet.     *)
LEMMA PublishStep ==
    ASSUME IInv, NEW h \in Handler, NEW w \in Worker, NEW async \in BOOLEAN,
           Publish(h, w, async)
    PROVE  IInv'
<1> DEFINE n == changes + 1
           row == [change |-> n, worker |-> w, async |-> async]
<1>1. /\ n \in Change /\ changes' = n /\ row \in Request
      /\ changes \in Nat /\ MaxChanges \in Nat /\ None \notin Nat
    BY LiveAssumption DEF Publish, IInv, TypeOK, Change, Request
<1>2. /\ request' = [request EXCEPT ![h] = row]
      /\ version' = [version EXCEPT ![w] = @ + 1]
      /\ scheduled' = [scheduled EXCEPT ![w] = IF async THEN Append(@, n) ELSE @]
      /\ UNCHANGED <<committed, stream, page, failures>>
    BY <1>1 DEF Publish
<1>3. /\ request \in [Handler -> Request] /\ version \in [Worker -> Nat]
      /\ scheduled \in [Worker -> Seq(Change)]
    BY DEF IInv, TypeOK
<1>4. /\ scheduled'[w] \in Seq(Change)
      /\ \A k \in DOMAIN scheduled'[w] :
            \/ k \in DOMAIN scheduled[w] /\ scheduled'[w][k] = scheduled[w][k]
            \/ async /\ scheduled'[w][k] = n
    BY <1>1, <1>2, <1>3
<1>5. \A u \in Worker \ {w} : scheduled'[u] = scheduled[u]
    BY <1>2, <1>3
<1>6. request'[h] = row /\ \A g \in Handler \ {h} : request'[g] = request[g]
    BY <1>2, <1>3
<1>7. TypeOK' /\ (stream \in Streams)'
    <2>1. scheduled' \in [Worker -> Seq(Change)]
        BY <1>2, <1>3, <1>4
    <2>2. request' \in [Handler -> Request] /\ version' \in [Worker -> Nat]
        BY <1>1, <1>2, <1>3
    <2>3. changes' \in 0..MaxChanges
        BY <1>1 DEF Change
    <2> QED BY <1>2, <2>1, <2>2, <2>3 DEF IInv, TypeOK
<1>8. /\ \A c \in Change : c \in Nat
      /\ \A u \in Worker : \A k \in DOMAIN scheduled[u] : scheduled[u][k] \in Change
      /\ \A k \in DOMAIN stream.queue : stream.queue[k] \in Change
    <2>1. \A c \in Change : c \in Nat
        BY DEF Change
    <2>2. \A u \in Worker : \A k \in DOMAIN scheduled[u] : scheduled[u][k] \in Change
        BY <1>3
    <2>3. stream.queue \in Seq(Change)
        BY DEF IInv, TypeOK
    <2> QED BY <2>1, <2>2, <2>3
<1>9. /\ \A u \in Worker : \A k \in DOMAIN scheduled[u] : scheduled[u][k] <= n /\ scheduled[u][k] # n
      /\ \A k \in DOMAIN stream.queue : stream.queue[k] <= n /\ stream.queue[k] # n
      /\ \A g \in Handler : request[g] # Idle =>
            request[g].change \in Change /\ request[g].change <= n /\ request[g].change # n
    BY <1>1, <1>8 DEF IInv, Numbered
<1>10. \A g \in Handler : request[g].change # n
    <2>1. n \in Nat /\ Idle.change = None
        BY <1>1, <1>8 DEF Idle
    <2> QED BY <1>1, <1>9, <2>1
<1> HIDE DEF n
<1>11. Numbered'
    <2>1. \A g \in Handler :
             request'[g] = Idle \/ (request'[g].change \in Change /\ request'[g].change <= n)
        <3>1. row.change = n
            OBVIOUS
        <3>2. n \in Change /\ n <= n
            BY <1>1, <1>8
        <3> HIDE DEF row
        <3> QED BY <1>6, <1>9, <3>1, <3>2
    <2>2. \A u \in Worker : \A k \in DOMAIN scheduled'[u] : scheduled'[u][k] <= n
        BY <1>1, <1>4, <1>5, <1>8, <1>9
    <2> QED BY <1>1, <1>2, <1>9, <2>1, <2>2 DEF Numbered
<1>12. WaitsInItsLoop'
    <2> SUFFICES ASSUME NEW u \in Worker, NEW k \in DOMAIN scheduled'[u], NEW g \in Handler,
                        request'[g].change = scheduled'[u][k]
                 PROVE  request'[g].async /\ request'[g].worker = u
        BY DEF WaitsInItsLoop
    <2>1. CASE k \in DOMAIN scheduled[u] /\ scheduled'[u][k] = scheduled[u][k]
        <3>1. g # h
            BY <1>6, <1>9, <2>1
        <3> QED BY <1>6, <2>1, <3>1 DEF IInv, WaitsInItsLoop
    <2>2. CASE u = w /\ async /\ scheduled'[u][k] = n
        <3>1. g = h
            BY <1>6, <1>10, <2>2
        <3> QED BY <1>6, <2>2, <3>1
    <2> QED BY <1>4, <1>5, <2>1, <2>2
<1>13. PushedIsSettled'
    BY <1>2, <1>6, <1>9 DEF IInv, PushedIsSettled
<1> QED BY <1>7, <1>11, <1>12, <1>13 DEF IInv

(* A handler ends, one way or the other: there is less to wait for.        *)
LEMMA EndStep ==
    ASSUME IInv, NEW h \in Handler, Store(h) \/ RollBack(h)
    PROVE  IInv'
<1>1. /\ request' = [request EXCEPT ![h] = Idle]
      /\ UNCHANGED <<changes, version, scheduled, stream, page, failures>>
      /\ committed' = committed \/ committed' = committed \cup {request[h].change}
    BY DEF Store, RollBack
<1>2. request[h].change \in Change
    BY DEF IInv, Numbered, Store, RollBack
<1>3. request \in [Handler -> Request] /\ Idle \in Request
    BY DEF IInv, TypeOK, Idle, Request
<1>4. request'[h] = Idle /\ \A g \in Handler \ {h} : request'[g] = request[g]
    BY <1>1, <1>3
<1>5. TypeOK' /\ (stream \in Streams)'
    <2>1. request' \in [Handler -> Request] /\ committed' \subseteq Change
        BY <1>1, <1>2, <1>3 DEF IInv, TypeOK
    <2> QED BY <1>1, <2>1 DEF IInv, TypeOK
<1>6. Numbered'
    BY <1>1, <1>4 DEF IInv, Numbered
<1>7. \A n \in Change : request'[h].change # n
    BY <1>4, LiveAssumption DEF Idle, Change
<1>8. WaitsInItsLoop'
    <2>1. \A w \in Worker : \A k \in DOMAIN scheduled[w] : scheduled[w][k] \in Change
        BY DEF IInv, TypeOK
    <2> QED BY <1>1, <1>4, <1>7, <2>1 DEF IInv, WaitsInItsLoop
<1>9. PushedIsSettled'
    <2>1. \A k \in DOMAIN stream.queue : stream.queue[k] \in Change
        BY DEF IInv, Streams
    <2> QED BY <1>1, <1>4, <1>7, <2>1 DEF IInv, PushedIsSettled
<1> QED BY <1>5, <1>6, <1>8, <1>9 DEF IInv

(* A fan-out: the loop runs, so no transaction of it is open, and what it  *)
(* hands out is over.                                                      *)
LEMMA FanOutStep ==
    ASSUME IInv, NEW w \in Worker, FanOut(w)
    PROVE  IInv'
<1> DEFINE n == Head(scheduled[w])
<1>1. /\ scheduled \in [Worker -> Seq(Change)] /\ scheduled[w] \in Seq(Change)
      /\ scheduled[w] # <<>> /\ stream \in Streams
      /\ scheduled' = [scheduled EXCEPT ![w] = Tail(@)]
      /\ stream' = IF stream.worker = w /\ Len(stream.queue) < MAX_QUEUE
                   THEN [stream EXCEPT !.queue = Append(@, n)] ELSE stream
      /\ UNCHANGED <<request, changes, committed, version, page, failures>>
    BY DEF FanOut, IInv, TypeOK
<1>2. n \in Change /\ 1 \in DOMAIN scheduled[w] /\ n = scheduled[w][1]
    BY <1>1
<1>3. n <= changes /\ \A h \in Handler : request[h].change # n
    BY <1>2 DEF IInv, Numbered, WaitsInItsLoop, FanOut, LoopHeld
<1>4. /\ scheduled'[w] \in Seq(Change)
      /\ \A k \in DOMAIN scheduled'[w] :
            k + 1 \in DOMAIN scheduled[w] /\ scheduled'[w][k] = scheduled[w][k + 1]
    BY <1>1
<1>5. \A u \in Worker \ {w} : scheduled'[u] = scheduled[u]
    BY <1>1
<1>6. /\ stream' \in Streams /\ stream'.worker \in Worker \cup {None}
      /\ stream'.queue \in Seq(Change) /\ Len(stream'.queue) <= MAX_QUEUE
      /\ \A k \in DOMAIN stream'.queue :
            \/ k \in DOMAIN stream.queue /\ stream'.queue[k] = stream.queue[k]
            \/ stream'.queue[k] = n
    <2>1. CASE stream.worker = w /\ Len(stream.queue) < MAX_QUEUE
        <3>1. /\ stream' = [worker |-> stream.worker, queue |-> Append(stream.queue, n)]
              /\ stream.queue \in Seq(Change) /\ stream.worker \in Worker \cup {None}
            BY <1>1, <2>1 DEF Streams
        <3>2. /\ Append(stream.queue, n) \in Seq(Change)
              /\ Len(Append(stream.queue, n)) <= MAX_QUEUE
              /\ \A k \in DOMAIN Append(stream.queue, n) :
                    \/ k \in DOMAIN stream.queue /\ Append(stream.queue, n)[k] = stream.queue[k]
                    \/ Append(stream.queue, n)[k] = n
            BY <1>2, <2>1, <3>1, LiveAssumption
        <3> QED BY <3>1, <3>2 DEF Streams
    <2>2. CASE ~(stream.worker = w /\ Len(stream.queue) < MAX_QUEUE)
        BY <1>1, <2>2 DEF IInv, TypeOK
    <2> QED BY <2>1, <2>2
<1>7. TypeOK'
    <2>1. scheduled' \in [Worker -> Seq(Change)]
        BY <1>1, <1>4
    <2> QED BY <1>1, <1>6, <2>1 DEF IInv, TypeOK
<1>8. Numbered'
    BY <1>1, <1>3, <1>4, <1>5, <1>6 DEF IInv, Numbered
<1>9. WaitsInItsLoop'
    BY <1>1, <1>4, <1>5 DEF IInv, WaitsInItsLoop
<1>10. PushedIsSettled'
    BY <1>1, <1>3, <1>6 DEF IInv, PushedIsSettled
<1> QED BY <1>6, <1>7, <1>8, <1>9, <1>10 DEF IInv

(* The stream opens or breaks empty, and an event delivered leaves it.     *)
LEMMA StreamStep ==
    ASSUME IInv, Break \/ Push \/ \E w \in Worker : Connect(w)
    PROVE  IInv'
<1>1. /\ stream \in Streams /\ page \in Page
      /\ UNCHANGED <<request, changes, committed, version, scheduled, failures>>
    BY DEF Break, Push, Connect, IInv, TypeOK
<1>2. /\ stream' \in Streams /\ stream'.worker \in Worker \cup {None}
      /\ stream'.queue \in Seq(Change) /\ Len(stream'.queue) <= MAX_QUEUE
      /\ \A k \in DOMAIN stream'.queue :
            \E j \in DOMAIN stream.queue : stream'.queue[k] = stream.queue[j]
    <2>1. CASE Push
        <3>1. /\ stream.queue \in Seq(Change) /\ stream.queue # <<>>
              /\ stream' = [worker |-> stream.worker, queue |-> Tail(stream.queue)]
              /\ stream.worker \in Worker \cup {None} /\ Len(stream.queue) <= MAX_QUEUE
            BY <1>1, <2>1 DEF Push, Streams, IInv, TypeOK
        <3>2. /\ Tail(stream.queue) \in Seq(Change)
              /\ Len(Tail(stream.queue)) <= MAX_QUEUE
              /\ \A k \in DOMAIN Tail(stream.queue) :
                    k + 1 \in DOMAIN stream.queue /\ Tail(stream.queue)[k] = stream.queue[k + 1]
            BY <3>1, LiveAssumption
        <3> QED BY <3>1, <3>2 DEF Streams
    <2>2. CASE Break \/ \E w \in Worker : Connect(w)
        <3>1. PICK u \in Worker \cup {None} : stream' = [worker |-> u, queue |-> <<>>]
            BY <2>2 DEF Break, Connect, Closed
        <3> QED BY <3>1, LiveAssumption DEF Streams
    <2> QED BY <2>1, <2>2
<1>3. page' \in Page
    <2>1. page' = page \/ page' = MarkStale(page)
        BY DEF Break, Push, Connect
    <2> QED BY <1>1, <2>1 DEF MarkStale, Rendered, Page, View
<1>4. TypeOK'
    BY <1>1, <1>2, <1>3 DEF IInv, TypeOK
<1>5. Numbered'
    BY <1>1, <1>2 DEF IInv, Numbered
<1>6. WaitsInItsLoop'
    BY <1>1 DEF IInv, WaitsInItsLoop
<1>7. PushedIsSettled'
    BY <1>1, <1>2 DEF IInv, PushedIsSettled
<1> QED BY <1>2, <1>4, <1>5, <1>6, <1>7 DEF IInv

(* The steps of the page alone.                                            *)
LEMMA PageStep ==
    ASSUME IInv, \/ \E w \in Worker : Poll(w)
                 \/ \E v \in View : ShowTab(v)
                 \/ Answer \/ Draw \/ EndOther \/ LoadFails
    PROVE  IInv'
<1>1. UNCHANGED <<request, changes, committed, version, scheduled, stream>>
    BY DEF Poll, ShowTab, Answer, Draw, EndOther, LoadFails
<1>2. page' \in Page
    <2>1. page \in Page /\ \A w \in Worker : version[w] \in Nat
        BY DEF IInv, TypeOK
    <2>2. CASE \E w \in Worker : Poll(w)
        BY <2>1, <2>2 DEF Poll, MarkStale, Rendered, Page, View
    <2>3. CASE \E v \in View : ShowTab(v)
        BY <2>1, <2>3 DEF ShowTab, Rendered, Page, View
    <2>4. CASE Answer
        BY <2>1, <2>4 DEF Answer, Page, IInv, TypeOK
    <2>5. CASE Draw \/ EndOther \/ LoadFails
        BY <2>1, <2>5 DEF Draw, EndOther, LoadFails, Page
    <2> QED BY <2>2, <2>3, <2>4, <2>5
<1>3. failures' \in 0..MaxFailures
    <2>1. failures' = failures \/ (failures < MaxFailures /\ failures' = failures + 1)
        BY DEF Poll, ShowTab, Answer, Draw, EndOther, LoadFails
    <2>2. failures \in 0..MaxFailures
        BY DEF IInv, TypeOK
    <2> QED BY <2>1, <2>2, LiveAssumption
<1> QED
    BY <1>1, <1>2, <1>3 DEF IInv, TypeOK, Numbered, WaitsInItsLoop, PushedIsSettled

(* No step breaks the invariant.                                           *)
LEMMA NextIInv == IInv /\ [Next]_vars => IInv'
<1> SUFFICES ASSUME IInv, [Next]_vars PROVE IInv'
    OBVIOUS
<1>1. CASE UNCHANGED vars
    BY <1>1 DEF vars, IInv, TypeOK, Numbered, WaitsInItsLoop, PushedIsSettled
<1> QED BY <1>1, PublishStep, EndStep, FanOutStep, StreamStep, PageStep DEF Next

(* So the invariant holds in every state of the system.                    *)
LEMMA Always == Spec => []IInv
BY InitIInv, NextIInv, PTL DEF Spec

-----------------------------------------------------------------------------
(* The page, the stream and the bus keep their types; the queue of a       *)
(* subscriber never grows past its limit.                                  *)
THEOREM TypeCorrect == Spec => []TypeOK
BY Always, PTL DEF IInv

(* Publishing before the commit is safe for the pages that are pushed to:  *)
(* an event reaches a queue only when its transaction is over, however     *)
(* many workers and handlers there are, and in whatever order they end.    *)
THEOREM PushedIsSettledAlways == Spec => []PushedIsSettled
BY Always, PTL DEF IInv

(* A board in view is left blank or stale with nothing coming only by a    *)
(* load that failed or by the end of a load of another tab.                *)
THEOREM StaleIsBeingLoadedAlways == Spec => StaleIsBeingLoaded
<1> DEFINE A == LeftBehind(page)' /\ ~LeftBehind(page)
                => failures' # failures \/ page.load = "OTHER"
<1>1. IInv /\ [Next]_vars => [A]_vars
    <2> SUFFICES ASSUME IInv, Next PROVE A
        OBVIOUS
    <2>1. page \in Page /\ failures \in Nat
        BY DEF IInv, TypeOK
    <2>2. CASE LoadFails
        BY <2>1, <2>2 DEF LoadFails
    <2>3. CASE Push \/ \E w \in Worker : Poll(w)
        BY <2>1, <2>3, LiveAssumption
        DEF Push, Poll, MarkStale, Rendered, LeftBehind, Page, View
    <2>4. CASE \E v \in View : ShowTab(v)
        BY <2>1, <2>4, LiveAssumption DEF ShowTab, Rendered, LeftBehind, Page, View
    <2>5. CASE Answer \/ Draw \/ EndOther
        BY <2>1, <2>5 DEF Answer, Draw, EndOther, LeftBehind, Page
    <2>6. CASE page' = page
        BY <2>6
    <2> QED
        BY <2>2, <2>3, <2>4, <2>5, <2>6
        DEF Next, Publish, Store, RollBack, FanOut, Connect, Break
<1> QED BY <1>1, Always, PTL DEF Spec, StaleIsBeingLoaded

(* The mark comes off with what a load brought and not otherwise.          *)
THEOREM StaleUntilDrawnAlways == Spec => StaleUntilDrawn
<1> DEFINE A == page.stale /\ ~page'.stale
                => page.answer # None /\ page'.shown = page.answer
<1>1. IInv /\ [Next]_vars => [A]_vars
    <2> SUFFICES ASSUME IInv, Next PROVE A
        OBVIOUS
    <2>1. page \in Page
        BY DEF IInv, TypeOK
    <2>2. CASE Draw
        BY <2>1, <2>2 DEF Draw, Page
    <2>3. CASE \/ Push \/ \E w \in Worker : Poll(w)
               \/ \E v \in View : ShowTab(v)
               \/ Answer \/ EndOther \/ LoadFails
        BY <2>1, <2>3
        DEF Push, Poll, MarkStale, Rendered, ShowTab, Answer, EndOther, LoadFails, Page
    <2>4. CASE page' = page
        BY <2>4
    <2> QED
        BY <2>2, <2>3, <2>4
        DEF Next, Publish, Store, RollBack, FanOut, Connect, Break
<1> QED BY <1>1, Always, PTL DEF Spec, StaleUntilDrawn
=============================================================================
