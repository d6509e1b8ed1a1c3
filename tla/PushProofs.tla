----------------------------- MODULE PushProofs -----------------------------
(***************************************************************************)
(* Proofs about Push, for any number of children, endpoints, requests and  *)
(* events, and any limit.                                                  *)
(***************************************************************************)
EXTENDS Push, FiniteSetTheorems, TLAPS

(* The steps of a send's task, and those that follow an endpoint's end.    *)
Sending == {"send", "markSent", "markError", "markGone", "delete"}

(* A task's event was dispatched, and only minutes are decided about.      *)
Dispatched ==
    \A t \in tasks :
      /\ t.at = "decide" => t.event[1] # None
      /\ t.event[1] # None => t.event[2] \in 1 .. Len(sent[t.event[1]])

(* Rows and sends belong to subscriptions that were made.                  *)
Owned ==
    /\ \A e \in Endpoints : rows[e] # None => <<e, rows[e].child>> \in subscribed
    /\ \A t \in tasks : t.at \in Sending =>
         /\ <<t.endpoint, t.child>> \in subscribed
         /\ t.event[1] # None => t.child = t.event[1]
    /\ OwnAlertsOnly

(* What is about to be removed is gone.                                    *)
Gone == \A t \in tasks : t.at \in {"markGone", "delete"} => t.endpoint \notin alive

(* The endpoints that have a row of the child or may still get one.        *)
Wanting(c) ==
    {r \in Requests : At(r, "upsert") /\ requests[r].child = c}
Potential(c) == Of(c) \cup {requests[r].endpoint : r \in Wanting(c)}
Bounded ==
    \A c \in Children :
      Cardinality(Potential(c)) <= Limit + Cardinality(Requests) - 1

(* What the threshold logic knows after the first events in order.         *)
InOrder(c) == \A i \in 1 .. Len(handled[c]) : handled[c][i] = i
Known(c) ==
    LET n == Len(handled[c]) IN
      /\ n <= Len(sent[c])
      /\ alerted[c] = {i \in 1 .. n : Due(sent[c], i)}
      /\ n = 0 <=> recent[c] = None
      /\ n > 0 => /\ recent[c].last = sent[c][n]
                  /\ sent[c][n] \in 1 .. 5 => ~recent[c].armed
                  /\ sent[c][n] > 5 => recent[c].armed
Alerts == \A c \in Children : InOrder(c) => Known(c)

-----------------------------------------------------------------------------
(* What the assumption on the constants gives.                             *)
LEMMA Constants ==
    /\ None \notin Children /\ None \notin Row /\ None \notin Snapshot
    /\ Values \subseteq Int /\ Limit \in Nat \ {0}
    /\ IsFiniteSet(Requests) /\ IsFiniteSet(Endpoints)
    /\ Cardinality(Requests) \in Nat \ {0}
  BY PushAssumption, FS_CardinalityType, FS_EmptySet DEF PushAssumption

(* The use of a bound.                                                     *)
LEMMA SpendType ==
  ASSUME NEW bound \in {"work", "faults"}, NEW max, TypeOK, Spend(bound, max)
  PROVE  spent' \in [DOMAIN Unspent -> Nat] /\ spent'.work \in Nat
<1>1. bound \in DOMAIN Unspent /\ spent[bound] + 1 \in Nat
  BY DEF TypeOK, Unspent
<1>2. spent' \in [DOMAIN Unspent -> Nat]
  BY <1>1 DEF TypeOK, Spend
<1> QED BY <1>2 DEF Unspent

(* Nothing is neither a row nor a request.                                 *)
LEMMA Distinct == ASSUME TypeOK PROVE
    /\ \A e \in Endpoints : rows[e] # None => rows[e] \in Row
    /\ \A r \in Requests : requests[r] # None => requests[r] \in Request
  BY DEF TypeOK

(* A task's parts, by its step.                                            *)
LEMMA TaskParts ==
  ASSUME TypeOK, NEW t \in tasks
  PROVE  /\ t.event \in (Children \cup {None}) \X Nat
         /\ t.at \in {"decide", "list"} => t \in EventTask
         /\ t.at \notin {"decide", "list"} => t \in SendTask
  BY DEF TypeOK, EventTask, SendTask

(* A task that goes on or ends leaves tasks of their shape.                *)
LEMMA MovesType ==
  ASSUME TypeOK, NEW t \in tasks, t.at \notin {"decide", "list"},
         NEW step \in Sending, Becomes(t, step) \/ Ends(t)
  PROVE  tasks' \subseteq EventTask \cup SendTask
<1>1. t \in SendTask
  BY TaskParts
<1>2. [t EXCEPT !.at = step] \in SendTask
  BY <1>1 DEF SendTask, Sending
<1> QED BY <1>2 DEF TypeOK, Becomes, Ends

(* Every step keeps the shape of the variables, and ids are not reused.    *)
LEMMA TypeStep == ASSUME TypeOK, Dispatched, [Next]_vars PROVE TypeOK'
<1> USE Constants
<1>1. CASE UNCHANGED vars
  BY <1>1 DEF TypeOK, vars, table, events
<1>2. ASSUME NEW r \in Requests, NEW c \in Children, NEW e \in Endpoints,
             BeginSubscribe(r, c, e) \/ BeginUnsubscribe(r, c, e)
      PROVE  TypeOK'
  <2>1. spent' \in [DOMAIN Unspent -> Nat]
    BY <1>2, SpendType DEF BeginSubscribe, BeginUnsubscribe
  <2>2. requests' \in [Requests -> Request \cup {None}]
    <3>1. /\ [kind |-> "subscribe", child |-> c, endpoint |-> e,
              at |-> "lookup"] \in Request
          /\ [kind |-> "unsubscribe", child |-> c, endpoint |-> e,
              at |-> "delete"] \in Request
      BY DEF Request
    <3> QED BY <1>2, <3>1 DEF TypeOK, BeginSubscribe, BeginUnsubscribe
  <2> QED
    BY <1>2, <2>1, <2>2
    DEF TypeOK, BeginSubscribe, BeginUnsubscribe, table, events
<1>3. ASSUME NEW r \in Requests, Serve(r) PROVE TypeOK'
  <2>1. requests[r] \in Request
    BY <1>3, Distinct DEF Serve, Lookup, Count, Upsert, Delete, At
  <2>2. requests' \in [Requests -> Request \cup {None}]
    <3>1. \A q \in {"count", "upsert"} : [requests[r] EXCEPT !.at = q] \in Request
      BY <2>1 DEF Request
    <3>2. ASSUME NEW q \in {"count", "upsert"}, GoOn(r, q)
          PROVE  requests' = [requests EXCEPT ![r] = [requests[r] EXCEPT !.at = q]]
      BY <3>2 DEF GoOn
    <3>3. (\E q \in {"count", "upsert"} : GoOn(r, q)) \/ Return(r)
      BY <1>3 DEF Serve, Lookup, Count, Upsert, Delete
    <3> QED BY <3>1, <3>2, <3>3 DEF TypeOK, Return
  <2>3. CASE Lookup(r) \/ Count(r)
    BY <2>2, <2>3 DEF TypeOK, Lookup, Count, table, events
  <2>4. CASE Upsert(r)
    <3> DEFINE e == requests[r].endpoint
               id == IF rows[e] = None THEN nextId ELSE rows[e].id
               row == [id |-> id, child |-> requests[r].child, error |-> FALSE]
    <3>1. e \in Endpoints /\ requests[r].child \in Children
      BY <2>1 DEF Request
    <3>2. row \in Row
      BY <3>1, Distinct DEF Row, TypeOK
    <3>3. /\ rows' = [rows EXCEPT ![e] = row]
          /\ nextId' = IF rows[e] = None THEN nextId + 1 ELSE nextId
          /\ subscribed' = subscribed \cup {<<e, requests[r].child>>}
          /\ UNCHANGED <<events, tasks, alive, delivered, spent>>
      BY <2>4 DEF Upsert
    <3>4. rows' \in [Endpoints -> Row \cup {None}] /\ nextId' \in Nat
      BY <3>1, <3>2, <3>3 DEF TypeOK
    <3>5. subscribed' \subseteq Endpoints \X Children
      BY <3>1, <3>3 DEF TypeOK
    <3>6. \A x, y \in Endpoints :
            rows'[x] # None =>
              /\ rows'[x].id < nextId'
              /\ rows'[y] # None /\ rows'[y].id = rows'[x].id => x = y
      <4>1. \A x \in Endpoints : rows'[x] = IF x = e THEN row ELSE rows[x]
        BY <3>1, <3>3 DEF TypeOK
      <4>2. \A x \in Endpoints : rows[x] # None => rows[x].id \in Nat
        BY Distinct DEF Row
      <4>3. row.id = id /\ nextId \in Nat
        BY DEF TypeOK
      <4>4. CASE rows[e] = None
        BY <3>1, <3>3, <4>1, <4>2, <4>3, <4>4 DEF TypeOK
      <4>5. CASE rows[e] # None
        BY <3>1, <3>3, <4>1, <4>2, <4>3, <4>5 DEF TypeOK
      <4> QED BY <4>4, <4>5
    <3> QED
      BY <2>2, <3>3, <3>4, <3>5, <3>6 DEF TypeOK, events
  <2>5. CASE Delete(r)
    BY <2>2, <2>5 DEF TypeOK, Delete, Deleted, events
  <2> QED BY <1>3, <2>3, <2>4, <2>5 DEF Serve
<1>4. ASSUME NEW r \in Requests, RequestFails(r) PROVE TypeOK'
  <2>1. spent' \in [DOMAIN Unspent -> Nat]
    BY <1>4, SpendType DEF RequestFails
  <2> QED
    BY <1>4, <2>1 DEF TypeOK, RequestFails, Return, table, events
<1>5. ASSUME NEW c \in Children, NEW v \in Values, Dispatch(c, v) PROVE TypeOK'
  <2>1. spent' \in [DOMAIN Unspent -> Nat]
    BY <1>5, SpendType DEF Dispatch
  <2>2. sent' \in [Children -> Seq(Values)] /\ Len(sent'[c]) \in Nat
    BY <1>5 DEF TypeOK, Dispatch
  <2>3. [event |-> <<c, Len(sent'[c])>>, at |-> "decide"] \in EventTask
    BY <2>2 DEF EventTask
  <2>4. tasks' \subseteq EventTask \cup SendTask
    BY <1>5, <2>3 DEF TypeOK, Dispatch
  <2> QED
    BY <1>5, <2>1, <2>2, <2>4 DEF TypeOK, Dispatch, table
<1>6. CASE DispatchCount
  <2>1. spent' \in [DOMAIN Unspent -> Nat] /\ spent'.work \in Nat
    BY <1>6, SpendType DEF DispatchCount
  <2>2. [event |-> <<None, spent'.work>>, at |-> "list"] \in EventTask
    BY <2>1 DEF EventTask
  <2>3. tasks' \subseteq EventTask \cup SendTask
    BY <1>6, <2>2 DEF TypeOK, DispatchCount
  <2> QED
    BY <1>6, <2>1, <2>3 DEF TypeOK, DispatchCount, table, events
<1>7. ASSUME NEW t \in tasks, Decide(t) PROVE TypeOK'
  <2> DEFINE c == t.event[1]
             v == sent[c][t.event[2]]
             old == IF recent[c] = None THEN [last |-> v, armed |-> TRUE]
                                        ELSE recent[c]
             push == Alert(old, v)
             armed == Armed(old, v)
  <2>1. t.at = "decide" /\ t \in EventTask
    BY <1>7, TaskParts DEF Decide
  <2>2. c \in Children /\ v \in Values /\ t.event[2] \in Nat
    BY <2>1, TaskParts DEF Dispatched, TypeOK
  <2>4. armed \in BOOLEAN
    BY Zenon DEF Armed
  <2>5. [t EXCEPT !.at = "list"] \in EventTask
    BY <2>1 DEF EventTask
  <2> HIDE DEF old, push, armed
  <2>6. /\ recent' = [recent EXCEPT ![c] = [last |-> v, armed |-> armed]]
        /\ handled' = [handled EXCEPT ![c] = Append(@, t.event[2])]
        /\ alerted' = IF push THEN [alerted EXCEPT ![c] = @ \cup {t.event[2]}]
                              ELSE alerted
        /\ tasks' = (tasks \ {t}) \cup
                      IF push THEN {[t EXCEPT !.at = "list"]} ELSE {}
        /\ UNCHANGED <<table, requests, sent, alive, delivered, spent>>
    BY <1>7 DEF Decide, old, push, armed
  <2>7. recent' \in [Children -> Snapshot \cup {None}]
    <3>1. [last |-> v, armed |-> armed] \in Snapshot
      BY <2>2, <2>4 DEF Snapshot
    <3> QED BY <2>2, <2>6, <3>1 DEF TypeOK
  <2>8. handled' \in [Children -> Seq(Nat)]
    <3>1. Append(handled[c], t.event[2]) \in Seq(Nat)
      BY <2>2 DEF TypeOK
    <3> QED BY <2>2, <2>6, <3>1 DEF TypeOK
  <2>9. alerted' \in [Children -> SUBSET Nat]
    BY <2>2, <2>4, <2>6 DEF TypeOK
  <2>10. tasks' \subseteq EventTask \cup SendTask
    BY <2>5, <2>6 DEF TypeOK
  <2> QED BY <2>6, <2>7, <2>8, <2>9, <2>10 DEF TypeOK, table
<1>8. ASSUME NEW t \in tasks, List(t) PROVE TypeOK'
  <2>1. t.event \in (Children \cup {None}) \X Nat
    BY TaskParts
  <2>2. Targets(t.event[1]) \subseteq {e \in Endpoints : rows[e] # None}
    BY DEF Targets, Of
  <2>3. ASSUME NEW e \in Targets(t.event[1])
        PROVE  [event |-> t.event, endpoint |-> e, id |-> rows[e].id,
                child |-> rows[e].child, at |-> "send"] \in SendTask
    <3>1. rows[e].id \in Nat /\ rows[e].child \in Children /\ e \in Endpoints
      BY <2>2, Distinct DEF Row
    <3> QED BY <2>1, <3>1 DEF SendTask
  <2>4. tasks' \subseteq EventTask \cup SendTask
    BY <1>8, <2>3 DEF TypeOK, List
  <2> QED BY <1>8, <2>4 DEF TypeOK, List, table, events
<1>9. ASSUME NEW t \in tasks, Deliver(t) PROVE TypeOK'
  <2>1. t.at = "send" /\ t \in SendTask
    BY <1>9, TaskParts DEF Deliver
  <2>2. tasks' \subseteq EventTask \cup SendTask
    BY <1>9, <2>1, MovesType DEF Deliver, Sending
  <2>3. delivered' \subseteq Endpoints \X Children
    BY <1>9, <2>1 DEF TypeOK, Deliver, SendTask
  <2> QED BY <1>9, <2>2, <2>3 DEF TypeOK, Deliver, table, events
<1>10. ASSUME NEW t \in tasks, Refuse(t) PROVE TypeOK'
  <2>1. t.at = "send" /\ (Ends(t) \/ \E q \in Sending : Becomes(t, q))
    BY <1>10 DEF Refuse, Sending
  <2>2. tasks' \subseteq EventTask \cup SendTask
    BY <2>1, MovesType DEF Sending
  <2> QED BY <1>10, <2>2 DEF TypeOK, Refuse, table, events
<1>11. ASSUME NEW t \in tasks, Mark(t) PROVE TypeOK'
  <2>1. /\ t.at \in {"markSent", "markError", "markGone"}
        /\ Ends(t) \/ Becomes(t, "delete")
    BY <1>11 DEF Mark
  <2>2. tasks' \subseteq EventTask \cup SendTask
    BY <2>1, MovesType DEF Sending
  <2>3. ASSUME NEW e \in Endpoints
        PROVE  /\ rows'[e] \in Row \cup {None}
               /\ rows'[e] # None => rows[e] # None /\ rows'[e].id = rows[e].id
    <3>1. rows'[e] = IF rows[e] # None /\ rows[e].id = t.id
                      THEN [rows[e] EXCEPT !.error = t.at # "markSent"]
                      ELSE rows[e]
      BY <1>11 DEF Mark
    <3>2. rows[e] # None => /\ [rows[e] EXCEPT !.error = t.at # "markSent"] \in Row
                            /\ [rows[e] EXCEPT !.error = t.at # "markSent"].id
                                  = rows[e].id
      BY Distinct DEF Row
    <3> QED BY <3>1, <3>2 DEF TypeOK
  <2>4. rows' \in [Endpoints -> Row \cup {None}]
    BY <1>11, <2>3 DEF Mark
  <2>5. UNCHANGED <<nextId, subscribed, requests, events, alive, delivered, spent>>
    BY <1>11 DEF Mark
  <2>6. (\A e, f \in Endpoints :
           rows[e] # None =>
             /\ rows[e].id < nextId
             /\ rows[f] # None /\ rows[f].id = rows[e].id => e = f)'
    <3> SUFFICES ASSUME NEW e \in Endpoints, NEW f \in Endpoints,
                        rows'[e] # None
                 PROVE  /\ rows'[e].id < nextId
                        /\ rows'[f] # None /\ rows'[f].id = rows'[e].id => e = f
      BY <2>5
    <3>1. rows[e] # None /\ rows'[e].id = rows[e].id
      BY <2>3
    <3>2. rows'[f] # None => rows[f] # None /\ rows'[f].id = rows[f].id
      BY <2>3
    <3> QED BY <3>1, <3>2 DEF TypeOK
  <2> QED BY <2>2, <2>4, <2>5, <2>6 DEF TypeOK, events
<1>12. ASSUME NEW t \in tasks, Remove(t) PROVE TypeOK'
  <2>1. tasks' \subseteq EventTask \cup SendTask
    BY <1>12 DEF TypeOK, Remove, Ends
  <2> QED BY <1>12, <2>1 DEF TypeOK, Remove, Deleted, events
<1>13. ASSUME NEW t \in tasks, TaskFails(t) PROVE TypeOK'
  <2>1. spent' \in [DOMAIN Unspent -> Nat]
    BY <1>13, SpendType DEF TaskFails
  <2>2. tasks' \subseteq EventTask \cup SendTask
    <3>1. CASE Ends(t)
      BY <3>1 DEF TypeOK, Ends
    <3>2. CASE Becomes(t, "delete") /\ t.at = "markGone"
      BY <3>2, MovesType DEF Sending
    <3> QED BY <1>13, <3>1, <3>2 DEF TaskFails
  <2> QED BY <1>13, <2>1, <2>2 DEF TypeOK, TaskFails, table, events
<1>14. ASSUME NEW e \in Endpoints, Expire(e) PROVE TypeOK'
  BY <1>14 DEF TypeOK, Expire, table, events
<1>15. CASE Restart
  <2>1. spent' \in [DOMAIN Unspent -> Nat]
    BY <1>15, SpendType DEF Restart
  <2> QED BY <1>15, <2>1 DEF TypeOK, Restart, table
<1> QED
  BY <1>1, <1>2, <1>3, <1>4, <1>5, <1>6, <1>7, <1>8, <1>9, <1>10, <1>11,
     <1>12, <1>13, <1>14, <1>15 DEF Next, Run

(* What the steps do to the tasks, seen as a whole: what is there later was*)
(* there before, at an earlier step perhaps, or is new.                    *)
Fresh(t) ==
    \/ \E c \in Children :
         /\ \E v \in Values : sent' = [sent EXCEPT ![c] = Append(@, v)]
         /\ t.event = <<c, Len(sent'[c])>> /\ t.at = "decide"
    \/ t.event[1] = None /\ t.at = "list"
Listed(t) ==
    \E u \in tasks :
      /\ u.at = "list" /\ t.event = u.event /\ t.at = "send"
      /\ t.endpoint \in Targets(u.event[1])
      /\ t.child = rows[t.endpoint].child
Later(t) ==
    \E u \in tasks :
      /\ t.event = u.event
      /\ \/ u.at = "decide" /\ u.event[1] # None /\ t.at = "list"
         \/ /\ u.at \in Sending /\ t.at \in Sending
            /\ t.endpoint = u.endpoint /\ t.child = u.child
            /\ t.at \in {"markGone", "delete"} =>
                 u.endpoint \notin alive \/ u.at = "markGone"

(* The parts of a task that goes on.                                       *)
LEMMA GoesOn ==
  ASSUME TypeOK, NEW u \in tasks, NEW step
  PROVE  LET t == [u EXCEPT !.at = step] IN
         /\ t.event = u.event /\ t.at = step
         /\ u.at \in Sending => t.endpoint = u.endpoint /\ t.child = u.child
<1>1. CASE u \in EventTask
  BY <1>1 DEF EventTask, Sending
<1>2. CASE u \in SendTask
  BY <1>2 DEF SendTask
<1> QED BY <1>1, <1>2 DEF TypeOK

(* A new task is that of an event, one of its sends, or a later step.      *)
LEMMA TaskStep ==
  ASSUME TypeOK, Dispatched, [Next]_vars, NEW t \in tasks', t \notin tasks
  PROVE  Fresh(t) \/ Listed(t) \/ Later(t)
<1>1. CASE UNCHANGED vars
  BY <1>1 DEF vars
<1>2. ASSUME NEW r \in Requests, NEW c \in Children, NEW e \in Endpoints,
             BeginSubscribe(r, c, e) \/ BeginUnsubscribe(r, c, e)
      PROVE  FALSE
  BY <1>2 DEF BeginSubscribe, BeginUnsubscribe
<1>3. ASSUME NEW r \in Requests, Serve(r) \/ RequestFails(r) PROVE FALSE
  BY <1>3 DEF Serve, RequestFails, Lookup, Count, Upsert, Delete
<1>4. ASSUME NEW c \in Children, NEW v \in Values, Dispatch(c, v)
      PROVE  Fresh(t)
  <2>1. t = [event |-> <<c, Len(sent'[c])>>, at |-> "decide"]
    BY <1>4 DEF Dispatch
  <2>2. t.event = <<c, Len(sent'[c])>> /\ t.at = "decide"
    BY <2>1
  <2>3. sent' = [sent EXCEPT ![c] = Append(@, v)]
    BY <1>4 DEF Dispatch
  <2> QED BY <2>2, <2>3 DEF Fresh
<1>5. CASE DispatchCount
  BY <1>5 DEF DispatchCount, Fresh
<1>6. ASSUME NEW u \in tasks, Decide(u) PROVE Later(t)
  <2>1. t = [u EXCEPT !.at = "list"] /\ u.at = "decide"
    BY <1>6, Zenon DEF Decide
  <2> QED BY <2>1, GoesOn DEF Later, Dispatched
<1>7. ASSUME NEW u \in tasks, List(u) PROVE Listed(t)
  BY <1>7 DEF List, Listed
<1>8. ASSUME NEW u \in tasks, NEW step \in Sending, u.at \in Sending,
             Becomes(u, step) \/ Ends(u),
             step \in {"markGone", "delete"} =>
                 u.endpoint \notin alive \/ u.at = "markGone"
      PROVE  Later(t)
  <2>1. t = [u EXCEPT !.at = step]
    BY <1>8 DEF Becomes, Ends
  <2> QED BY <1>8, <2>1, GoesOn DEF Later
<1>9. ASSUME NEW u \in tasks, Deliver(u) PROVE Later(t)
  BY <1>9, <1>8 DEF Deliver, Sending
<1>10. ASSUME NEW u \in tasks, Refuse(u) PROVE Later(t)
  <2>1. CASE u.endpoint \in alive
    BY <1>10, <1>8, <2>1 DEF Refuse, Sending
  <2>2. CASE u.endpoint \notin alive
    BY <1>10, <1>8, <2>2 DEF Refuse, Sending
  <2> QED BY <2>1, <2>2
<1>11. ASSUME NEW u \in tasks, Mark(u) PROVE Later(t)
  BY <1>11, <1>8 DEF Mark, Sending, Ends
<1>12. ASSUME NEW u \in tasks, Remove(u) PROVE FALSE
  BY <1>12 DEF Remove, Ends
<1>13. ASSUME NEW u \in tasks, TaskFails(u) PROVE Later(t)
  BY <1>13, <1>8 DEF TaskFails, Sending, Ends
<1>14. ASSUME NEW e \in Endpoints, Expire(e) PROVE FALSE
  BY <1>14 DEF Expire
<1>15. CASE Restart
  BY <1>15 DEF Restart
<1> QED
  BY <1>1, <1>2, <1>3, <1>4, <1>5, <1>6, <1>7, <1>9, <1>10, <1>11, <1>12,
     <1>13, <1>14, <1>15 DEF Next, Run

(* What each kind of step leaves alone.                                    *)
LEMMA RequestFrame ==
  ASSUME NEW r, NEW c, NEW e,
         \/ BeginSubscribe(r, c, e) \/ BeginUnsubscribe(r, c, e)
         \/ Serve(r) \/ RequestFails(r)
  PROVE  UNCHANGED <<events, tasks, alive, delivered>>
  BY DEF BeginSubscribe, BeginUnsubscribe, Serve, RequestFails, Lookup, Count,
     Upsert, Delete

(* A task's steps leave requests, sent values and endpoints alone.         *)
LEMMA TaskFrame ==
  ASSUME NEW t, Run(t) \/ TaskFails(t)
  PROVE  UNCHANGED <<requests, sent, alive, nextId, subscribed>>
<1>1. CASE Decide(t) \/ List(t)
  BY <1>1 DEF Decide, List, table, events
<1>2. CASE Deliver(t) \/ Refuse(t)
  BY <1>2 DEF Deliver, Refuse, table, events
<1>3. CASE Mark(t) \/ Remove(t) \/ TaskFails(t)
  BY <1>3 DEF Mark, Remove, TaskFails, table, events
<1> QED BY <1>1, <1>2, <1>3 DEF Run

(* Handing out an event changes the queue of tasks only.                   *)
LEMMA EventFrame ==
  ASSUME NEW c, NEW v, Dispatch(c, v) \/ DispatchCount
  PROVE  /\ UNCHANGED <<table, requests, handled, alerted, recent, alive, delivered>>
         /\ DispatchCount => UNCHANGED events
  BY DEF Dispatch, DispatchCount, events

(* An endpoint that ends changes no table.                                 *)
LEMMA ExpireFrame ==
  ASSUME NEW e, Expire(e)
  PROVE  UNCHANGED <<table, requests, events, tasks, delivered>> /\ alive' \subseteq alive
  BY DEF Expire

(* What the steps do to the events: they grow, or the server restarts.     *)
LEMMA EventsStep ==
  ASSUME [Next]_vars
  PROVE  \/ tasks' = {} /\ Restart
         \/ UNCHANGED sent
         \/ \E c \in Children, v \in Values : Dispatch(c, v)
<1>1. CASE UNCHANGED vars
  BY <1>1 DEF vars, events
<1>2. CASE Restart
  BY <1>2 DEF Restart
<1> QED
  BY <1>1, <1>2, RequestFrame, TaskFrame, EventFrame, ExpireFrame
  DEF Next, events

(* The values sent to a child only grow while tasks are around.            *)
LEMMA LengthStep ==
  ASSUME TypeOK, [Next]_vars, tasks' # {}, NEW c \in Children
  PROVE  Len(sent[c]) \in Nat /\ Len(sent'[c]) \in Nat
           /\ Len(sent[c]) <= Len(sent'[c])
<1>1. Len(sent[c]) \in Nat
  BY DEF TypeOK
<1>2. ASSUME NEW d \in Children, NEW v \in Values, Dispatch(d, v)
      PROVE  Len(sent'[c]) \in {Len(sent[c]), Len(sent[c]) + 1}
  <2>1. Len(Append(sent[d], v)) = Len(sent[d]) + 1
    BY DEF TypeOK
  <2> QED BY <1>2, <2>1 DEF TypeOK, Dispatch
<1> QED BY <1>1, <1>2, EventsStep

(* Every task is about an event there was.                                 *)
LEMMA DispatchedStep ==
  ASSUME TypeOK, TypeOK', Dispatched, [Next]_vars
  PROVE  Dispatched'
<1> SUFFICES ASSUME NEW t \in tasks'
             PROVE  /\ t.at = "decide" => t.event[1] # None
                    /\ t.event[1] # None =>
                         t.event[2] \in 1 .. Len(sent'[t.event[1]])
  BY DEF Dispatched
<1>1. \A c \in Children : Len(sent[c]) \in Nat /\ Len(sent'[c]) \in Nat
                            /\ Len(sent[c]) <= Len(sent'[c])
  BY LengthStep
<1>2. ASSUME NEW u \in tasks, t.event = u.event
      PROVE  t.event[1] # None => t.event[2] \in 1 .. Len(sent'[t.event[1]])
  <2>1. u.event[1] \in Children \cup {None} /\ u.event[2] \in Nat
    BY TaskParts
  <2> QED BY <1>1, <1>2, <2>1 DEF Dispatched
<1>3. CASE t \in tasks
  BY <1>2, <1>3 DEF Dispatched
<1>4. CASE Fresh(t) /\ t \notin tasks
  <2>1. ASSUME NEW c \in Children, NEW v \in Values,
               sent' = [sent EXCEPT ![c] = Append(@, v)]
        PROVE  Len(sent'[c]) = Len(sent[c]) + 1 /\ c # None
    BY <2>1, Constants DEF TypeOK
  <2>2. CASE t.event[1] = None /\ t.at = "list"
    BY <2>2
  <2>3. ASSUME NEW c \in Children, NEW v \in Values,
               sent' = [sent EXCEPT ![c] = Append(@, v)],
               t.event = <<c, Len(sent'[c])>>
        PROVE  t.event[1] # None /\ t.event[2] \in 1 .. Len(sent'[t.event[1]])
    <3>1. t.event[1] = c /\ t.event[2] = Len(sent'[c])
      BY <2>3
    <3>2. Len(sent'[c]) = Len(sent[c]) + 1 /\ c # None
      BY <2>1, <2>3
    <3>3. Len(sent[c]) \in Nat
      BY <1>1
    <3> QED BY <3>1, <3>2, <3>3
  <2> QED BY <1>4, <2>2, <2>3 DEF Fresh
<1>5. CASE Listed(t)
  BY <1>2, <1>5 DEF Listed
<1>6. CASE Later(t)
  <2>1. t.at # "decide"
    BY <1>6 DEF Later, Sending
  <2> QED BY <1>2, <1>6, <2>1 DEF Later
<1> QED BY <1>3, <1>4, <1>5, <1>6, TaskStep

(* What is going to be removed has an endpoint that is gone.               *)
LEMMA GoneStep ==
  ASSUME TypeOK, Dispatched, Gone, [Next]_vars
  PROVE  Gone'
<1>1. alive' \subseteq alive
  <2>1. CASE UNCHANGED vars \/ Restart
    BY <2>1 DEF vars, Restart
  <2> QED BY <2>1, RequestFrame, TaskFrame, EventFrame, ExpireFrame DEF Next
<1> SUFFICES ASSUME NEW t \in tasks', t.at \in {"markGone", "delete"}
             PROVE  t.endpoint \notin alive
  BY <1>1 DEF Gone
<1>2. CASE t \in tasks
  BY <1>2 DEF Gone
<1>3. CASE t \notin tasks
  <2>1. Later(t)
    BY <1>3, TaskStep DEF Fresh, Listed
  <2> QED BY <2>1 DEF Later, Gone
<1> QED BY <1>2, <1>3

(* What the steps do to the table.                                         *)
RowsKept ==
    \A e \in Endpoints :
      rows'[e] # None => rows[e] # None /\ rows'[e].child = rows[e].child

(* Deleting one row keeps the others.                                      *)
LEMMA DeletedKeeps ==
  ASSUME TypeOK, NEW c, NEW e, Deleted(c, e)
  PROVE  /\ RowsKept
         /\ \A x \in Endpoints : rows[x] # None /\ rows'[x] = None
                                => x = e /\ rows[x].child = c
  BY DEF TypeOK, Deleted, RowsKept, Of

(* Marking a send removes no row.                                          *)
LEMMA MarkKeeps ==
  ASSUME TypeOK, NEW t \in tasks, Mark(t)
  PROVE  RowsKept /\ \A e \in Endpoints : rows[e] # None => rows'[e] # None
<1> SUFFICES ASSUME NEW e \in Endpoints
             PROVE  /\ rows'[e] # None =>
                          rows[e] # None /\ rows'[e].child = rows[e].child
                    /\ rows[e] # None => rows'[e] # None
  BY DEF RowsKept
<1> DEFINE row == [rows[e] EXCEPT !.error = t.at # "markSent"]
<1>1. rows'[e] = IF rows[e] # None /\ rows[e].id = t.id THEN row ELSE rows[e]
  BY DEF Mark
<1>2. rows[e] # None => row.child = rows[e].child /\ row \in Row
  BY Distinct DEF Row
<1>3. None \notin Row
  BY Constants
<1> HIDE DEF row
<1> QED BY <1>1, <1>2, <1>3

(* The steps that write the table.                                         *)
LEMMA Writers ==
  ASSUME [Next]_vars
  PROVE  \/ UNCHANGED rows
         \/ \E r \in Requests : Upsert(r)
         \/ \E r \in Requests : Delete(r)
         \/ \E t \in tasks : Remove(t)
         \/ \E t \in tasks : Mark(t)
<1>1. ASSUME NEW r \in Requests, NEW c, NEW e,
             BeginSubscribe(r, c, e) \/ BeginUnsubscribe(r, c, e)
      PROVE  UNCHANGED rows
  BY <1>1 DEF BeginSubscribe, BeginUnsubscribe, table
<1>2. ASSUME NEW r \in Requests, Lookup(r) \/ Count(r) \/ RequestFails(r)
      PROVE  UNCHANGED rows
  BY <1>2 DEF Lookup, Count, RequestFails, table
<1>3. ASSUME NEW t \in tasks,
             Decide(t) \/ List(t) \/ Deliver(t) \/ Refuse(t) \/ TaskFails(t)
      PROVE  UNCHANGED rows
  BY <1>3 DEF Decide, List, Deliver, Refuse, TaskFails, table
<1>4. ASSUME NEW c, NEW v, NEW e,
             Dispatch(c, v) \/ DispatchCount \/ Expire(e) \/ Restart
               \/ UNCHANGED vars
      PROVE  UNCHANGED rows
  BY <1>4 DEF Dispatch, DispatchCount, Expire, Restart, vars, table
<1> QED BY <1>1, <1>2, <1>3, <1>4, Zenon DEF Next, Serve, Run

(* How a step may change the table of subscriptions.                       *)
LEMMA TableStep ==
  ASSUME TypeOK, [Next]_vars
  PROVE  \/ RowsKept /\ UNCHANGED subscribed
         \/ \E r \in Requests : Upsert(r)
<1> DEFINE Kept == RowsKept /\ UNCHANGED subscribed
<1>1. CASE UNCHANGED table
  BY <1>1 DEF table, RowsKept
<1>2. ASSUME NEW c, NEW e, Deleted(c, e), UNCHANGED subscribed PROVE Kept
  BY <1>2, DeletedKeeps
<1>3. ASSUME NEW t \in tasks, Mark(t) PROVE Kept
  BY <1>3, MarkKeeps DEF Mark
<1>4. ASSUME NEW r \in Requests, Delete(r) PROVE Kept
  BY <1>4, <1>2 DEF Delete
<1>5. ASSUME NEW t \in tasks, Remove(t) PROVE Kept
  BY <1>5, <1>2 DEF Remove
<1>6. CASE \E r \in Requests : Upsert(r)
  BY <1>6
<1>7. UNCHANGED rows => Kept \/ \E r \in Requests : Upsert(r)
  <2>1. ASSUME NEW r \in Requests, NEW c \in Children, NEW e \in Endpoints,
               BeginSubscribe(r, c, e) \/ BeginUnsubscribe(r, c, e)
        PROVE  UNCHANGED table
    BY <2>1 DEF BeginSubscribe, BeginUnsubscribe
  <2>2. ASSUME NEW r \in Requests, Lookup(r) \/ Count(r) \/ RequestFails(r)
        PROVE  UNCHANGED table
    BY <2>2 DEF Lookup, Count, RequestFails
  <2>3. ASSUME NEW r \in Requests, Delete(r) PROVE UNCHANGED subscribed
    BY <2>3 DEF Delete
  <2>4. UNCHANGED vars \/ Restart => UNCHANGED table
    BY DEF vars, Restart
  <2>5. UNCHANGED table \/ UNCHANGED subscribed \/ \E r \in Requests : Upsert(r)
    BY <2>1, <2>2, <2>3, <2>4, TaskFrame, EventFrame, ExpireFrame, Zenon
    DEF Next, Serve, table
  <2>6. UNCHANGED rows /\ UNCHANGED subscribed => Kept
    BY DEF RowsKept
  <2> QED BY <1>1, <2>5, <2>6
<1> QED BY <1>3, <1>4, <1>5, <1>6, <1>7, Writers

-----------------------------------------------------------------------------
(* Rows, sends and deliveries belong to subscriptions that were made.      *)
LEMMA OwnedStep ==
  ASSUME TypeOK, Dispatched, Owned, [Next]_vars
  PROVE  Owned'
<1>1. subscribed \subseteq subscribed'
  BY TableStep DEF Upsert
<1>2. ASSUME NEW e \in Endpoints, rows'[e] # None
      PROVE  <<e, rows'[e].child>> \in subscribed'
  <2>1. CASE RowsKept
    BY <1>1, <1>2, <2>1 DEF RowsKept, Owned
  <2>2. ASSUME NEW r \in Requests, Upsert(r)
        PROVE  <<e, rows'[e].child>> \in subscribed'
    <3>1. CASE e = requests[r].endpoint
      <4>1. rows'[e].child = requests[r].child
        BY <2>2, <3>1 DEF Upsert, TypeOK
      <4> QED BY <2>2, <3>1, <4>1 DEF Upsert
    <3>2. CASE e # requests[r].endpoint
      <4>1. rows'[e] = rows[e]
        BY <2>2, <3>2 DEF Upsert, TypeOK
      <4> QED BY <1>1, <1>2, <4>1 DEF Owned
    <3> QED BY <3>1, <3>2
  <2> QED BY <2>1, <2>2, TableStep
<1>3. ASSUME NEW t \in tasks', t.at \in Sending
      PROVE  /\ <<t.endpoint, t.child>> \in subscribed'
             /\ t.event[1] # None => t.child = t.event[1]
  <2>1. CASE t \in tasks
    BY <1>1, <1>3, <2>1 DEF Owned
  <2>2. CASE Listed(t)
    <3>1. PICK u \in tasks :
            /\ t.event = u.event
            /\ t.endpoint \in Targets(u.event[1])
            /\ t.child = rows[t.endpoint].child
      BY <2>2 DEF Listed
    <3> QED BY <1>1, <3>1 DEF Owned, Targets, Of
  <2>3. CASE Later(t)
    <3>1. PICK u \in tasks :
            /\ t.event = u.event
            /\ u.at \in Sending
            /\ t.endpoint = u.endpoint /\ t.child = u.child
      BY <1>3, <2>3 DEF Later, Sending
    <3> QED BY <1>1, <3>1 DEF Owned
  <2> QED BY <1>3, <2>1, <2>2, <2>3, TaskStep DEF Fresh, Sending
<1>4. delivered' \subseteq subscribed'
  <2>1. ASSUME NEW t \in tasks, Deliver(t) PROVE delivered' \subseteq subscribed'
    <3>1. t.at \in Sending /\ delivered \subseteq subscribed
      BY <2>1 DEF Deliver, Sending, Owned, OwnAlertsOnly
    <3>2. /\ <<t.endpoint, t.child>> \in subscribed
          /\ t.event[1] # None => t.child = t.event[1]
      BY <3>1 DEF Owned
    <3>3. \/ delivered' = delivered
          \/ /\ t.event[1] # None
             /\ delivered' = delivered \cup {<<t.endpoint, t.event[1]>>}
      BY <2>1 DEF Deliver
    <3> QED BY <1>1, <3>1, <3>2, <3>3
  <2>2. delivered' = delivered \/ \E t \in tasks : Deliver(t)
    <3>1. CASE UNCHANGED vars \/ Restart
      BY <3>1 DEF vars, Restart
    <3>2. ASSUME NEW t \in tasks, Run(t) \/ TaskFails(t), ~Deliver(t)
          PROVE  delivered' = delivered
      BY <3>2 DEF Run, Decide, List, Refuse, Mark, Remove, TaskFails
    <3> QED BY <3>1, <3>2, RequestFrame, EventFrame, ExpireFrame DEF Next
  <2> QED BY <1>1, <2>1, <2>2 DEF Owned, OwnAlertsOnly
<1> QED BY <1>2, <1>3, <1>4 DEF Owned, OwnAlertsOnly

-----------------------------------------------------------------------------
(* Where a request goes in a step.                                         *)
Stays(r) ==
    \/ requests'[r] = requests[r]
    \/ requests'[r] = None
    \/ requests'[r].at # "upsert"

(* How a step may change a request.                                        *)
LEMMA RequestStep ==
  ASSUME TypeOK, [Next]_vars, NEW r \in Requests
  PROVE  Stays(r) \/ Lookup(r) \/ Count(r)
<1>1. ASSUME NEW q \in Requests, NEW c \in Children, NEW e \in Endpoints,
             BeginSubscribe(q, c, e) \/ BeginUnsubscribe(q, c, e)
      PROVE  Stays(r)
  <2>1. \/ requests'[r] = requests[r]
        \/ requests'[r] = [kind |-> "subscribe", child |-> c, endpoint |-> e,
                           at |-> "lookup"]
        \/ requests'[r] = [kind |-> "unsubscribe", child |-> c, endpoint |-> e,
                           at |-> "delete"]
    BY <1>1 DEF BeginSubscribe, BeginUnsubscribe, TypeOK
  <2>2. CASE requests'[r] = [kind |-> "subscribe", child |-> c,
                             endpoint |-> e, at |-> "lookup"]
    <3>1. requests'[r].at = "lookup"
      BY <2>2
    <3> QED BY <3>1 DEF Stays
  <2>3. CASE requests'[r] = [kind |-> "unsubscribe", child |-> c,
                             endpoint |-> e, at |-> "delete"]
    <3>1. requests'[r].at = "delete"
      BY <2>3
    <3> QED BY <3>1 DEF Stays
  <2> QED BY <2>1, <2>2, <2>3 DEF Stays
<1>2. ASSUME NEW q \in Requests, q # r, Serve(q) PROVE Stays(r)
  BY <1>2 DEF Serve, Lookup, Count, Upsert, Delete, GoOn, Return, Stays, TypeOK
<1>3. ASSUME NEW q \in Requests, RequestFails(q) \/ Upsert(q) \/ Delete(q)
      PROVE  Stays(r)
  BY <1>3 DEF RequestFails, Upsert, Delete, Return, Stays, TypeOK
<1>4. CASE UNCHANGED requests
  BY <1>4 DEF Stays
<1>5. CASE Restart
  BY <1>5 DEF Restart, Stays
<1>6. CASE UNCHANGED vars
  BY <1>6 DEF vars, Stays
<1> QED
  BY <1>1, <1>2, <1>3, <1>4, <1>5, <1>6, TaskFrame, EventFrame, ExpireFrame
  DEF Next, Serve

(* What a step adds to the endpoints that have a row of a child or may get *)
(* one: nothing, unless a request finds the child within its limit.        *)
WithinLimit(c) ==
    /\ Cardinality(Of(c)) < Limit
    /\ Of(c)' = Of(c)

(* The rows a child has or may get only grow below the limit.              *)
LEMMA PotentialStep ==
  ASSUME TypeOK, [Next]_vars, NEW c \in Children
  PROVE  Potential(c)' \subseteq Potential(c) \/ WithinLimit(c)
<1> SUFFICES ASSUME ~WithinLimit(c), NEW e \in Potential(c)'
             PROVE  e \in Potential(c)
  OBVIOUS
<1>1. CASE e \in Of(c)'
  <2>1. e \in Endpoints /\ rows'[e] # None /\ rows'[e].child = c
    BY <1>1 DEF Of
  <2>2. CASE RowsKept
    BY <2>1, <2>2 DEF RowsKept, Of, Potential
  <2>3. ASSUME NEW r \in Requests, Upsert(r) PROVE e \in Potential(c)
    <3>1. CASE e = requests[r].endpoint
      <4>1. rows'[e].child = requests[r].child
        BY <2>1, <2>3, <3>1 DEF Upsert, TypeOK
      <4>2. r \in Wanting(c)
        BY <2>1, <2>3, <4>1 DEF Upsert, Wanting
      <4> QED BY <3>1, <4>2 DEF Potential
    <3>2. CASE e # requests[r].endpoint
      <4>1. rows'[e] = rows[e]
        BY <2>1, <2>3, <3>2 DEF Upsert, TypeOK
      <4> QED BY <2>1, <4>1 DEF Of, Potential
    <3> QED BY <3>1, <3>2
  <2> QED BY <2>2, <2>3, TableStep
<1>2. ASSUME NEW r \in Wanting(c)', e = requests'[r].endpoint
      PROVE  e \in Potential(c)
  <2>1. /\ r \in Requests /\ requests'[r] # None
        /\ requests'[r].at = "upsert" /\ requests'[r].child = c
    BY <1>2 DEF Wanting, At
  <2>2. CASE requests'[r] = requests[r]
    BY <1>2, <2>1, <2>2 DEF Wanting, At, Potential
  <2>3. CASE Lookup(r)
    <3>1. requests[r] \in Request
      BY <2>1, <2>3, Distinct DEF Lookup, At
    <3>2. PICK q \in {"upsert", "count"} :
            /\ requests' = [requests EXCEPT ![r] = [requests[r] EXCEPT !.at = q]]
            /\ q = IF requests[r].endpoint \in Of(requests[r].child)
                     THEN "upsert" ELSE "count"
      BY <2>3 DEF Lookup, GoOn
    <3>3. requests'[r] = [requests[r] EXCEPT !.at = q]
      BY <2>1, <3>2 DEF TypeOK
    <3>4. /\ requests'[r].at = q /\ requests'[r].child = requests[r].child
          /\ requests'[r].endpoint = requests[r].endpoint
      BY <3>1, <3>3 DEF Request
    <3> QED BY <1>2, <2>1, <3>2, <3>4 DEF Potential
  <2>4. CASE Count(r)
    <3>1. requests[r] \in Request /\ Cardinality(Of(c)) \in Nat
      <4>1. Of(c) \subseteq Endpoints
        BY DEF Of
      <4> QED
        BY <2>1, <2>4, <4>1, Distinct, Constants, FS_Subset, FS_CardinalityType
        DEF Count, At
    <3>2. /\ requests' = [requests EXCEPT ![r] = [requests[r] EXCEPT !.at = "upsert"]]
          /\ ~(Cardinality(Of(requests[r].child)) >= Limit)
      BY <2>1, <2>4 DEF Count, GoOn, Return, TypeOK
    <3>3. requests'[r].child = requests[r].child
      BY <2>1, <3>1, <3>2 DEF TypeOK, Request
    <3>4. Of(c)' = Of(c)
      BY <2>4 DEF Count, table, Of
    <3> QED BY <2>1, <3>1, <3>2, <3>3, <3>4, Constants DEF WithinLimit
  <2> QED BY <2>1, <2>2, <2>3, <2>4, RequestStep DEF Stays
<1> QED BY <1>1, <1>2 DEF Potential

(* The endpoints of a set of requests are no more than the requests.       *)
LEMMA EndpointsOf ==
  ASSUME NEW S, S \subseteq Requests, NEW f
  PROVE  LET T == {f[r].endpoint : r \in S} IN
         IsFiniteSet(T) /\ Cardinality(T) <= Cardinality(Requests)
<1> DEFINE T == {f[r].endpoint : r \in S}
           g == [r \in S |-> f[r].endpoint]
<1>1. g \in Surjection(S, T)
  BY DEF Surjection
<1>2. IsFiniteSet(S) /\ Cardinality(S) <= Cardinality(Requests)
  BY Constants, FS_Subset
<1> HIDE DEF g, T
<1>3. IsFiniteSet(T) /\ Cardinality(T) <= Cardinality(S)
  BY <1>1, <1>2, FS_Surjection
<1>4. {Cardinality(T), Cardinality(S), Cardinality(Requests)} \subseteq Nat
  BY <1>2, <1>3, Constants, FS_CardinalityType
<1>5. Cardinality(T) <= Cardinality(Requests)
  BY <1>2, <1>3, <1>4
<1> QED BY <1>3, <1>5 DEF T

(* Every step keeps the bound on those rows.                               *)
LEMMA BoundedStep ==
  ASSUME TypeOK, Bounded, [Next]_vars
  PROVE  Bounded'
<1> SUFFICES ASSUME NEW c \in Children
             PROVE  Cardinality(Potential(c)') <= Limit + Cardinality(Requests) - 1
  BY DEF Bounded
<1>0. IsFiniteSet(Of(c)) /\ Cardinality(Of(c)) \in Nat
  <2>1. Of(c) \subseteq Endpoints
    BY DEF Of
  <2> QED BY <2>1, Constants, FS_Subset, FS_CardinalityType
<1>1. IsFiniteSet(Potential(c)) /\ Cardinality(Potential(c)) \in Nat
  <2>1. Wanting(c) \subseteq Requests
    BY DEF Wanting
  <2>2. IsFiniteSet({requests[r].endpoint : r \in Wanting(c)})
    BY <2>1, EndpointsOf
  <2> QED BY <1>0, <2>2, FS_Union, FS_CardinalityType DEF Potential
<1>2. CASE Potential(c)' \subseteq Potential(c)
  <2>1. IsFiniteSet(Potential(c)') /\ Cardinality(Potential(c)') <= Cardinality(Potential(c))
    BY <1>1, <1>2, FS_Subset
  <2>2. Cardinality(Potential(c)') \in Nat
    BY <2>1, FS_CardinalityType
  <2>3. Cardinality(Potential(c)) <= Limit + Cardinality(Requests) - 1
    BY DEF Bounded
  <2> QED BY <1>1, <2>1, <2>2, <2>3, Constants
<1>3. CASE WithinLimit(c)
  <2> DEFINE T == {requests'[r].endpoint : r \in Wanting(c)'}
  <2>1. Wanting(c)' \subseteq Requests
    BY DEF Wanting
  <2>2. IsFiniteSet(T) /\ Cardinality(T) <= Cardinality(Requests)
    BY <2>1, EndpointsOf
  <2>3. Potential(c)' = Of(c) \cup T
    BY <1>3 DEF WithinLimit, Potential
  <2> HIDE DEF T
  <2>4. Cardinality(T) \in Nat /\ Cardinality(Of(c) \cap T) \in Nat
    BY <1>0, <2>2, FS_CardinalityType, FS_Intersection
  <2>5. Cardinality(Of(c) \cup T) = Cardinality(Of(c)) + Cardinality(T)
                                     - Cardinality(Of(c) \cap T)
    BY <1>0, <2>2, FS_Union
  <2>6. Cardinality(Of(c)) < Limit
    BY <1>3 DEF WithinLimit
  <2> QED BY <1>0, <2>2, <2>3, <2>4, <2>5, <2>6, Constants
<1> QED BY <1>2, <1>3, PotentialStep

-----------------------------------------------------------------------------
(* The threshold logic on one event v of a child whose last one was w.     *)
LEMMA Threshold ==
  ASSUME NEW v \in Int, NEW w \in Int, NEW old, old.last = w,
         w \in 1 .. 5 => ~old.armed, w > 5 => old.armed
  PROVE  /\ Alert(old, v) <=> v > w \/ (v \in 1 .. 5 /\ w \notin 1 .. 5)
         /\ v \in 1 .. 5 => ~Armed(old, v)
         /\ v > 5 => Armed(old, v)
  BY DEF Alert, Armed

(* Same value again, while armed: one to five minutes alert and disarm.    *)
LEMMA FirstThreshold ==
  ASSUME NEW v \in Int, NEW old, old.last = v, old.armed
  PROVE  /\ Alert(old, v) <=> v \in 1 .. 5
         /\ v \in 1 .. 5 => ~Armed(old, v)
         /\ v > 5 => Armed(old, v)
  BY DEF Alert, Armed

(* An element of a sequence is in its set.                                 *)
LEMMA Elements ==
  ASSUME NEW S, NEW s \in Seq(S), NEW i \in 1 .. Len(s)
  PROVE  s[i] \in S
  OBVIOUS

(* The parts of a sequence with one more element.                          *)
LEMMA AppendParts ==
  ASSUME NEW S, NEW s \in Seq(S), NEW x
  PROVE  /\ Len(Append(s, x)) = Len(s) + 1
         /\ Append(s, x)[Len(s) + 1] = x
         /\ \A i \in 1 .. Len(s) : Append(s, x)[i] = s[i]
  OBVIOUS

(* A decision in order keeps what the threshold logic knows.               *)
LEMMA DecideKnows ==
  ASSUME TypeOK, Dispatched, NEW t \in tasks, Decide(t),
         NEW c \in Children, c = t.event[1], InOrder(c)',
         InOrder(c) => Known(c)
  PROVE  Known(c)'
<1> DEFINE k == t.event[2]
           s == sent[c]
           v == s[k]
           n == Len(handled[c])
           old == IF recent[c] = None THEN [last |-> v, armed |-> TRUE]
                                      ELSE recent[c]
<1>1. /\ handled[c] \in Seq(Nat) /\ n \in Nat
      /\ s \in Seq(Values) /\ Len(s) \in Nat /\ k \in 1 .. Len(s)
  BY DEF TypeOK, Dispatched, Decide
<1>2. /\ recent' = [recent EXCEPT ![c] = [last |-> v, armed |-> Armed(old, v)]]
      /\ handled' = [handled EXCEPT ![c] = Append(@, k)]
      /\ alerted' = IF Alert(old, v) THEN [alerted EXCEPT ![c] = @ \cup {k}]
                                     ELSE alerted
      /\ sent' = sent
  BY DEF Decide
<1>3. handled'[c] = Append(handled[c], k)
  BY <1>2 DEF TypeOK
<1>4. Len(handled'[c]) = n + 1 /\ handled'[c][n + 1] = k
  BY <1>1, <1>3, AppendParts
<1>5. \A i \in 1 .. n : handled'[c][i] = handled[c][i]
  BY <1>1, <1>3, AppendParts
<1> HIDE DEF k, n
<1>45. \A i \in 1 .. Len(handled'[c]) : handled'[c][i] = i
  BY DEF InOrder
<1>46. n + 1 \in 1 .. n + 1 /\ \A i \in 1 .. n : i \in 1 .. n + 1
  BY <1>1
<1>6. k = n + 1
  BY <1>4, <1>45, <1>46
<1>7. InOrder(c)
  BY <1>4, <1>45, <1>46, <1>5 DEF InOrder, n
<1>8. /\ alerted[c] = {i \in 1 .. n : Due(s, i)}
      /\ n = 0 <=> recent[c] = None
      /\ n > 0 => /\ recent[c].last = s[n]
                  /\ s[n] \in 1 .. 5 => ~recent[c].armed
                  /\ s[n] > 5 => recent[c].armed
  BY <1>7 DEF Known, n
<1>9. v \in Values /\ v \in Int
  BY <1>1, Elements, Constants
<1>10. /\ Alert(old, v) <=> Due(s, k)
       /\ v \in 1 .. 5 => ~Armed(old, v)
       /\ v > 5 => Armed(old, v)
  <2>1. CASE n = 0
    <3>1. recent[c] = None
      BY <1>8, <2>1
    <3>2. old.last = v /\ old.armed
      BY <3>1
    <3> HIDE DEF old
    <3>3. Due(s, k) <=> v \in 1 .. 5
      BY <1>1, <1>6, <2>1 DEF Due
    <3> QED BY <1>9, <3>2, <3>3, FirstThreshold
  <2>2. CASE n > 0
    <3>1. /\ recent[c] # None /\ recent[c].last = s[n]
          /\ s[n] \in 1 .. 5 => ~recent[c].armed
          /\ s[n] > 5 => recent[c].armed
      BY <1>1, <1>8, <2>2
    <3>2. old = recent[c]
      BY <3>1
    <3>3. s[n] \in Int
      <4>1. n \in 1 .. Len(s)
        BY <1>1, <1>6, <2>2
      <4> QED BY <1>1, <4>1, Elements, Constants
    <3>4. Due(s, k) <=> v > s[n] \/ (v \in 1 .. 5 /\ s[n] \notin 1 .. 5)
      <4>1. k > 1 /\ k - 1 = n
        BY <1>1, <1>6, <2>2
      <4> QED BY <4>1 DEF Due
    <3> HIDE DEF old
    <3> QED BY <1>9, <3>1, <3>2, <3>3, <3>4, Threshold
  <2> QED BY <1>1, <2>1, <2>2
<1>11. recent'[c] = [last |-> v, armed |-> Armed(old, v)]
  BY <1>2 DEF TypeOK
<1>12. Armed(old, v) \in BOOLEAN
  BY DEF Armed
<1>13. recent'[c] # None
  <2>1. recent'[c] \in Snapshot
    BY <1>9, <1>11, <1>12 DEF Snapshot
  <2> QED BY <2>1, Constants
<1>14. alerted'[c] = IF Due(s, k) THEN alerted[c] \cup {k} ELSE alerted[c]
  BY <1>2, <1>10 DEF TypeOK
<1>15. alerted'[c] = {i \in 1 .. n + 1 : Due(s, i)}
  <2>1. alerted[c] = {i \in 1 .. n : Due(s, i)}
    BY <1>8
  <2>2. 1 .. n + 1 = (1 .. n) \cup {n + 1}
    BY <1>1
  <2> QED BY <1>6, <1>14, <2>1, <2>2
<1>16. /\ recent'[c].last = v
       /\ v \in 1 .. 5 => ~recent'[c].armed
       /\ v > 5 => recent'[c].armed
  BY <1>10, <1>11
<1>17. sent'[c] = s /\ n + 1 <= Len(s) /\ n + 1 # 0
  BY <1>1, <1>2, <1>6
<1> HIDE DEF old
<1> QED BY <1>4, <1>6, <1>13, <1>15, <1>16, <1>17 DEF Known

(* Events that come later do not change which of the first are due.        *)
LEMMA AppendKnows ==
  ASSUME TypeOK, NEW c \in Children, NEW d \in Children, NEW v \in Values,
         Dispatch(d, v), Known(c)
  PROVE  Known(c)'
<1> DEFINE n == Len(handled[c])
<1>1. UNCHANGED <<handled, alerted, recent>> /\ n \in Nat
  BY DEF Dispatch, TypeOK
<1>2. sent[c] \in Seq(Values) /\ n <= Len(sent[c])
  BY DEF TypeOK, Known
<1>3. sent'[c] = sent[c] \/ sent'[c] = Append(sent[c], v)
  BY DEF Dispatch, TypeOK
<1>4. n <= Len(sent'[c]) /\ \A i \in 1 .. n : sent'[c][i] = sent[c][i]
  <2> DEFINE q == Append(sent[c], v)
  <2>1. Len(q) = Len(sent[c]) + 1 /\ Len(sent[c]) \in Nat
    BY <1>2
  <2>2. \A i \in 1 .. Len(sent[c]) : q[i] = sent[c][i]
    BY <1>2
  <2>3. \A i \in 1 .. n : i \in 1 .. Len(sent[c])
    BY <1>1, <1>2, <2>1
  <2> HIDE DEF q, n
  <2>4. CASE sent'[c] = sent[c]
    BY <1>1, <1>2, <2>4
  <2>5. CASE sent'[c] = q
    BY <1>1, <1>2, <2>1, <2>2, <2>3, <2>5
  <2> QED BY <1>3, <2>4, <2>5 DEF q
<1>5. \A i \in 1 .. n : i > 1 => i - 1 \in 1 .. n
  BY <1>1
<1>6. \A i \in 1 .. n : Due(sent'[c], i) <=> Due(sent[c], i)
  BY <1>4, <1>5 DEF Due
<1>7. n > 0 => n \in 1 .. n
  BY <1>1
<1> QED BY <1>1, <1>4, <1>6, <1>7 DEF Known

(* Every step keeps what the threshold logic knows.                        *)
LEMMA AlertsStep ==
  ASSUME TypeOK, Dispatched, Alerts, [Next]_vars
  PROVE  Alerts'
<1> SUFFICES ASSUME NEW c \in Children, InOrder(c)' PROVE Known(c)'
  BY DEF Alerts
<1>0. InOrder(c) => Known(c)
  BY DEF Alerts
<1>1. CASE UNCHANGED events
  BY <1>0, <1>1 DEF events, InOrder, Known
<1>2. ASSUME NEW d \in Children, NEW v \in Values, Dispatch(d, v)
      PROVE  Known(c)'
  <2>1. InOrder(c)
    BY <1>2 DEF Dispatch, InOrder
  <2> QED BY <1>0, <1>2, <2>1, AppendKnows
<1>3. ASSUME NEW t \in tasks, Decide(t) PROVE Known(c)'
  <2>1. CASE c = t.event[1]
    BY <1>0, <1>3, <2>1, DecideKnows
  <2>2. CASE c # t.event[1]
    <3>1. /\ handled'[c] = handled[c] /\ alerted'[c] = alerted[c]
          /\ recent'[c] = recent[c] /\ sent' = sent
      BY <1>3, <2>2 DEF Decide, TypeOK
    <3> QED BY <1>0, <3>1 DEF InOrder, Known
  <2> QED BY <2>1, <2>2
<1>4. CASE Restart
  <2>1. /\ handled'[c] = <<>> /\ alerted'[c] = {} /\ recent'[c] = None
        /\ sent'[c] = <<>>
    BY <1>4 DEF Restart
  <2> QED BY <2>1 DEF Known
<1>5. CASE UNCHANGED vars
  BY <1>1, <1>5 DEF vars
<1>6. ASSUME NEW t \in tasks, Run(t) \/ TaskFails(t), ~Decide(t)
      PROVE  UNCHANGED events
  BY <1>6 DEF Run, List, Deliver, Refuse, Mark, Remove, TaskFails
<1> QED
  BY <1>1, <1>2, <1>3, <1>4, <1>5, <1>6, RequestFrame, EventFrame, ExpireFrame
  DEF Next

-----------------------------------------------------------------------------
(* A row goes in two ways: by a request for it, or by the removal of an    *)
(* endpoint that is gone.                                                  *)
LEMMA LiveStep ==
  ASSUME TypeOK, Gone, [Next]_vars,
         NEW e \in alive, rows[e] # None, rows'[e] = None
  PROVE  \E r \in Requests :
           /\ At(r, "delete")
           /\ requests[r].endpoint = e /\ requests[r].child = rows[e].child
<1>0. e \in Endpoints
  BY DEF TypeOK
<1>1. ASSUME NEW r \in Requests, Upsert(r) PROVE FALSE
  <2>1. requests[r] \in Request /\ nextId \in Nat
    BY <1>1, Distinct DEF Upsert, At, TypeOK
  <2> DEFINE id == IF rows[requests[r].endpoint] = None THEN nextId
                   ELSE rows[requests[r].endpoint].id
             row == [id |-> id, child |-> requests[r].child, error |-> FALSE]
  <2>2. row \in Row
    <3>1. requests[r].endpoint \in Endpoints /\ requests[r].child \in Children
      BY <2>1 DEF Request
    <3>2. id \in Nat
      BY <2>1, <3>1, Distinct DEF Row
    <3> QED BY <3>1, <3>2 DEF Row
  <2>3. rows'[e] = IF e = requests[r].endpoint THEN row ELSE rows[e]
    BY <1>0, <1>1 DEF Upsert, TypeOK
  <2> QED BY <2>2, <2>3, Constants
<1>2. ASSUME NEW t \in tasks, Remove(t) PROVE FALSE
  <2>1. e = t.endpoint
    BY <1>0, <1>2, DeletedKeeps DEF Remove
  <2> QED BY <1>2, <2>1 DEF Remove, Gone
<1>3. ASSUME NEW t \in tasks, Mark(t) PROVE FALSE
  BY <1>0, <1>3, MarkKeeps
<1>4. ASSUME NEW r \in Requests, Delete(r)
      PROVE  /\ At(r, "delete")
             /\ requests[r].endpoint = e /\ requests[r].child = rows[e].child
  BY <1>0, <1>4, DeletedKeeps DEF Delete
<1>5. rows' # rows
  BY <1>0
<1> QED BY <1>1, <1>2, <1>3, <1>4, <1>5, Writers

-----------------------------------------------------------------------------
IInv == TypeOK /\ Dispatched /\ Owned /\ Gone /\ Bounded /\ Alerts

(* The invariant holds at the start.                                       *)
LEMMA InitIInv == Init => IInv
<1> SUFFICES ASSUME Init PROVE IInv
  OBVIOUS
<1>1. TypeOK
  BY Constants DEF Init, TypeOK, Unspent
<1>2. Dispatched /\ Owned /\ Gone
  BY DEF Init, Dispatched, Owned, Gone, OwnAlertsOnly
<1>3. Bounded
  <2> SUFFICES ASSUME NEW c \in Children
               PROVE  Cardinality(Potential(c)) <= Limit + Cardinality(Requests) - 1
    BY DEF Bounded
  <2>1. Potential(c) = {}
    BY DEF Init, Potential, Wanting, Of, At
  <2> QED BY <2>1, FS_EmptySet, Constants
<1>4. Alerts
  BY DEF Init, Alerts, InOrder, Known
<1> QED BY <1>1, <1>2, <1>3, <1>4 DEF IInv

(* Every step keeps the invariant.                                         *)
LEMMA StepIInv == IInv /\ [Next]_vars => IInv'
<1> SUFFICES ASSUME IInv, [Next]_vars PROVE IInv'
  OBVIOUS
<1>1. TypeOK' /\ Dispatched'
  BY TypeStep, DispatchedStep DEF IInv
<1>2. Owned' /\ Gone'
  BY OwnedStep, GoneStep DEF IInv
<1>3. Bounded' /\ Alerts'
  BY BoundedStep, AlertsStep DEF IInv
<1> QED BY <1>1, <1>2, <1>3 DEF IInv

(* The invariant holds always.                                             *)
LEMMA Invariance == Spec => []IInv
  BY InitIInv, StepIInv, PTL DEF Spec

(* Every reachable state has the shape TypeOK says, ids included.          *)
THEOREM TypeCorrect == Spec => []TypeOK
<1>1. IInv => TypeOK
  BY DEF IInv
<1> QED BY <1>1, Invariance, PTL

(* The limit of subscriptions, checked in one query and used in another,   *)
(* is passed by less than the number of requests under way.                *)
THEOREM LimitHolds == Spec => []SubscriptionsBounded
<1>1. IInv => SubscriptionsBounded
  <2> SUFFICES ASSUME IInv, NEW c \in Children
               PROVE  Cardinality(Of(c)) <= Limit + Cardinality(Requests) - 1
    BY DEF SubscriptionsBounded
  <2>1. IsFiniteSet(Potential(c)) /\ Cardinality(Potential(c)) \in Nat
    <3>1. Wanting(c) \subseteq Requests /\ Of(c) \subseteq Endpoints
      BY DEF Wanting, Of
    <3>2. IsFiniteSet({requests[r].endpoint : r \in Wanting(c)})
      BY <3>1, EndpointsOf
    <3>3. IsFiniteSet(Of(c))
      BY <3>1, Constants, FS_Subset
    <3> QED BY <3>2, <3>3, FS_Union, FS_CardinalityType DEF Potential
  <2>2. Of(c) \subseteq Potential(c)
    BY DEF Potential
  <2>3. Cardinality(Of(c)) <= Cardinality(Potential(c)) /\ Cardinality(Of(c)) \in Nat
    BY <2>1, <2>2, FS_Subset, FS_CardinalityType
  <2>4. Cardinality(Potential(c)) <= Limit + Cardinality(Requests) - 1
    BY DEF IInv, Bounded
  <2> QED BY <2>1, <2>3, <2>4, Constants
<1> QED BY <1>1, Invariance, PTL

(* Tasks in order alert exactly what is due, however many events there are.*)
THEOREM AlertsCorrect == Spec => []AlertsAsPromised
<1>1. IInv => AlertsAsPromised
  BY DEF IInv, Alerts, InOrder, Known, AlertsAsPromised
<1> QED BY <1>1, Invariance, PTL

(* No endpoint gets minutes of a child it was never subscribed for.        *)
THEOREM AlertsPrivate == Spec => []OwnAlertsOnly
<1>1. IInv => OwnAlertsOnly
  BY DEF IInv, Owned
<1> QED BY <1>1, Invariance, PTL

(* A working subscription is removed only by a request for just this.      *)
THEOREM LiveStays == Spec => LiveKept
<1>1. IInv /\ [Next]_vars =>
        [\A e \in alive :
            rows[e] # None /\ rows'[e] = None =>
              \E r \in Requests :
                /\ At(r, "delete")
                /\ requests[r].endpoint = e /\ requests[r].child = rows[e].child]_vars
  BY LiveStep DEF IInv
<1> QED BY <1>1, Invariance, PTL DEF Spec, LiveKept

=============================================================================
