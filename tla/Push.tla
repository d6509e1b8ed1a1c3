-------------------------------- MODULE Push --------------------------------
(***************************************************************************)
(* Web push (server/push.rs) and the subscriptions it is sent to           *)
(* (api_push_subscribe, api_push_unsubscribe, the push queries of          *)
(* storage/mod.rs).                                                        *)
(*                                                                         *)
(* Every event is handled by a task of its own: the tasks of one child's   *)
(* events reach the threshold logic in any order, list the subscriptions,  *)
(* and start one more task for each of them, which sends, notes the result *)
(* and removes a subscription whose endpoint is gone.  Requests change the *)
(* table between any two of these queries.                                 *)
(*                                                                         *)
(* The table has at most one row for an endpoint (UNIQUE).  Keys, payloads *)
(* and signatures are left out, and so is a request that is refused for    *)
(* its form or an unknown child: it touches nothing.  A request whose      *)
(* connection is closed leaves at most its last query under way, which is  *)
(* then a slow request here.                                               *)
(***************************************************************************)
EXTENDS Integers, FiniteSets, Sequences

CONSTANTS
    Children,
    Endpoints,     \* push endpoints of browsers
    Requests,      \* requests the server has under way at once
    Values,        \* minutes that events report
    Limit,         \* MAX_PUSH_SUBSCRIPTIONS_PER_CHILD
    None,          \* no row, no snapshot, no request
    MaxWork,       \* bound: events and requests, taken together
    MaxFaults      \* bound: store errors and restarts of the server, together

(* What is kept of a row of the table, and a RemainingSnapshot.            *)
Row == [id : Nat, child : Children, error : BOOLEAN]
Snapshot == [last : Values, armed : BOOLEAN]

ASSUME PushAssumption ==
    /\ Values \subseteq Int
    /\ Limit \in Nat \ {0}
    /\ IsFiniteSet(Requests) /\ Requests # {}
    /\ IsFiniteSet(Endpoints)
    /\ None \notin Children /\ None \notin Row /\ None \notin Snapshot
    /\ {MaxWork, MaxFaults} \subseteq Nat

VARIABLES
    rows,       \* push_subscriptions, by endpoint
    nextId,     \* the next id (AUTOINCREMENT)
    requests,   \* what each request is about and its next query
    sent,       \* the minutes of each child's events, since the server started
    handled,    \* the indices of those its threshold logic has seen, in order
    alerted,    \* the indices it decided to push
    recent,     \* recent_remaining
    tasks,      \* tasks of events and of single sends
    alive,      \* endpoints their push service still knows
    subscribed, \* history: which endpoint was ever subscribed for which child
    delivered,  \* history: which endpoint got minutes of which child
    spent       \* how much of each bound is used up

table == <<rows, nextId, subscribed>>
events == <<sent, handled, alerted, recent>>
vars == <<table, requests, events, tasks, alive, delivered, spent>>

Request == [kind : {"subscribe", "unsubscribe"}, child : Children,
            endpoint : Endpoints, at : {"lookup", "count", "upsert", "delete"}]
Unspent == [work |-> 0, faults |-> 0]

(* An event's task: minutes of a child, or, for child None, the count of   *)
(* pending submissions.                                                    *)
EventTask == [event : (Children \cup {None}) \X Nat, at : {"decide", "list"}]
SendTask == [event : (Children \cup {None}) \X Nat, endpoint : Endpoints,
             id : Nat, child : Children,
             at : {"send", "markSent", "markError", "markGone", "delete"}]

(* PushService::from_config, of a configuration with keys.                 *)
Init ==
    /\ rows = [e \in Endpoints |-> None]
    /\ nextId = 1
    /\ requests = [r \in Requests |-> None]
    /\ sent = [c \in Children |-> <<>>]
    /\ handled = [c \in Children |-> <<>>]
    /\ alerted = [c \in Children |-> {}]
    /\ recent = [c \in Children |-> None]
    /\ tasks = {}
    /\ alive = Endpoints
    /\ subscribed = {}
    /\ delivered = {}
    /\ spent = Unspent

Spend(bound, max) ==
    /\ spent[bound] < max
    /\ spent' = [spent EXCEPT ![bound] = @ + 1]

Of(c) == {e \in Endpoints : rows[e] # None /\ rows[e].child = c}
GoOn(r, query) == requests' = [requests EXCEPT ![r].at = query]
Return(r) == requests' = [requests EXCEPT ![r] = None]
At(r, query) == requests[r] # None /\ requests[r].at = query

-----------------------------------------------------------------------------
(* A browser subscribes; its push service has just given it the endpoint.  *)
BeginSubscribe(r, c, e) ==
    /\ requests[r] = None
    /\ e \in alive
    /\ Spend("work", MaxWork)
    /\ requests' = [requests EXCEPT ![r] =
          [kind |-> "subscribe", child |-> c, endpoint |-> e, at |-> "lookup"]]
    /\ UNCHANGED <<table, events, tasks, alive, delivered>>

(* get_push_subscription_by_endpoint: a renewal is not counted again.      *)
Lookup(r) ==
    /\ At(r, "lookup")
    /\ GoOn(r, IF requests[r].endpoint \in Of(requests[r].child) THEN "upsert"
                                                             ELSE "count")
    /\ UNCHANGED <<table, events, tasks, alive, delivered, spent>>

(* Fault: the limit is taken for the last number that is too small.        *)
Count_OneMore(r) ==
    /\ At(r, "count")
    /\ IF Cardinality(Of(requests[r].child)) > Limit THEN Return(r)
                                                     ELSE GoOn(r, "upsert")
    /\ UNCHANGED <<table, events, tasks, alive, delivered, spent>>

(* push_subscription_count_for_child and the limit.                        *)
Count(r) ==
    /\ At(r, "count")
    /\ IF Cardinality(Of(requests[r].child)) >= Limit THEN Return(r)
                                                      ELSE GoOn(r, "upsert")
    /\ UNCHANGED <<table, events, tasks, alive, delivered, spent>>

(* Fault: the id of a row that was deleted is given again.                 *)
Upsert_SameId(r) ==
    LET e == requests[r].endpoint
        c == requests[r].child
        id == IF rows[e] = None THEN nextId ELSE rows[e].id
    IN
    /\ At(r, "upsert")
    /\ rows' = [rows EXCEPT ![e] = [id |-> id, child |-> c, error |-> FALSE]]
    /\ subscribed' = subscribed \cup {<<e, c>>}
    /\ Return(r)
    /\ UNCHANGED <<nextId, events, tasks, alive, delivered, spent>>

(* upsert_push_subscription: an endpoint that is known changes its child   *)
(* and keeps its id.                                                       *)
Upsert(r) ==
    LET e == requests[r].endpoint
        c == requests[r].child
        id == IF rows[e] = None THEN nextId ELSE rows[e].id
    IN
    /\ At(r, "upsert")
    /\ rows' = [rows EXCEPT ![e] = [id |-> id, child |-> c, error |-> FALSE]]
    /\ nextId' = IF rows[e] = None THEN nextId + 1 ELSE nextId
    /\ subscribed' = subscribed \cup {<<e, c>>}
    /\ Return(r)
    /\ UNCHANGED <<events, tasks, alive, delivered, spent>>

(* A browser logs out, or its user turns the alerts off.                   *)
BeginUnsubscribe(r, c, e) ==
    /\ requests[r] = None
    /\ Spend("work", MaxWork)
    /\ requests' = [requests EXCEPT ![r] =
          [kind |-> "unsubscribe", child |-> c, endpoint |-> e, at |-> "delete"]]
    /\ UNCHANGED <<table, events, tasks, alive, delivered>>

(* Fault: the endpoint alone says which row to delete.                     *)
Deleted_AnyChild(c, e) ==
    rows' = [rows EXCEPT ![e] = None]

(* delete_push_subscription of a child and an endpoint.                    *)
Deleted(c, e) ==
    rows' = [rows EXCEPT ![e] = IF e \in Of(c) THEN None ELSE @]

Delete(r) ==
    /\ At(r, "delete")
    /\ Deleted(requests[r].child, requests[r].endpoint)
    /\ Return(r)
    /\ UNCHANGED <<nextId, subscribed, events, tasks, alive, delivered, spent>>

(* A query of a request fails: the request fails.                          *)
RequestFails(r) ==
    /\ requests[r] # None
    /\ Spend("faults", MaxFaults)
    /\ Return(r)
    /\ UNCHANGED <<table, events, tasks, alive, delivered>>

-----------------------------------------------------------------------------
(* dispatch_event spawns a task.                                           *)
Dispatch(c, v) ==
    /\ Spend("work", MaxWork)
    /\ sent' = [sent EXCEPT ![c] = Append(@, v)]
    /\ tasks' = tasks \cup {[event |-> <<c, Len(sent'[c])>>, at |-> "decide"]}
    /\ UNCHANGED <<table, requests, handled, alerted, recent, alive, delivered>>

DispatchCount ==
    /\ Spend("work", MaxWork)
    /\ tasks' = tasks \cup {[event |-> <<None, spent'.work>>, at |-> "list"]}
    /\ UNCHANGED <<table, requests, events, alive, delivered>>

(* should_push_remaining, with v minutes after old: alert a rise, and what *)
(* comes into 1 .. 5 while the alert is armed ...                          *)
Alert(old, v) == v > old.last \/ (v \in 1 .. 5 /\ old.armed)

(* Fault: a rise within the range arms the next alert.                     *)
Armed_ByRise(old, v) == v > old.last \/ v \notin 1 .. 5

(* ... which it is (sent_threshold is its negation) above the range, and   *)
(* below it unless the minutes rose.                                       *)
Armed(old, v) == v > 5 \/ (v <= 0 /\ v <= old.last)

Decide(t) ==
    LET c == t.event[1]
        v == sent[c][t.event[2]]
        old == IF recent[c] = None THEN [last |-> v, armed |-> TRUE]
                                   ELSE recent[c]
        push == Alert(old, v)
    IN
    /\ t.at = "decide"
    /\ recent' = [recent EXCEPT ![c] = [last |-> v, armed |-> Armed(old, v)]]
    /\ handled' = [handled EXCEPT ![c] = Append(@, t.event[2])]
    /\ alerted' = IF push THEN [alerted EXCEPT ![c] = @ \cup {t.event[2]}]
                            ELSE alerted
    /\ tasks' = (tasks \ {t}) \cup
                  IF push THEN {[t EXCEPT !.at = "list"]} ELSE {}
    /\ UNCHANGED <<table, requests, sent, alive, delivered, spent>>

(* Fault: minutes of a child go to every browser.                          *)
Targets_All(c) == {e \in Endpoints : rows[e] # None}

(* list_push_subscriptions_for_child, list_all_push_subscriptions.         *)
Targets(c) == IF c = None THEN {e \in Endpoints : rows[e] # None} ELSE Of(c)

(* send_to_subscriptions: one task each.                                   *)
List(t) ==
    /\ t.at = "list"
    /\ tasks' = (tasks \ {t}) \cup
          {[event |-> t.event, endpoint |-> e, id |-> rows[e].id,
            child |-> rows[e].child, at |-> "send"] : e \in Targets(t.event[1])}
    /\ UNCHANGED <<table, requests, events, alive, delivered, spent>>

Becomes(t, step) == tasks' = (tasks \ {t}) \cup {[t EXCEPT !.at = step]}
Ends(t) == tasks' = tasks \ {t}

(* The push service takes the message.                                     *)
Deliver(t) ==
    /\ t.at = "send" /\ t.endpoint \in alive
    /\ delivered' = IF t.event[1] = None THEN delivered
                    ELSE delivered \cup {<<t.endpoint, t.event[1]>>}
    /\ Becomes(t, "markSent")
    /\ UNCHANGED <<table, requests, events, alive, spent>>

(* Fault: any failure removes the subscription.                            *)
Refuse_Removes(t) ==
    /\ t.at = "send"
    /\ Becomes(t, "markGone") \/ Ends(t)
    /\ UNCHANGED <<table, requests, events, alive, delivered, spent>>

(* The push service fails for now, or knows the endpoint no more; or the   *)
(* message cannot be built from the keys, and nothing is sent or noted.    *)
Refuse(t) ==
    /\ t.at = "send"
    /\ \/ Becomes(t, IF t.endpoint \in alive THEN "markError" ELSE "markGone")
       \/ Ends(t)
    /\ UNCHANGED <<table, requests, events, alive, delivered, spent>>

(* mark_push_delivery_result finds the row by its id, if it is still there.*)
Mark(t) ==
    /\ t.at \in {"markSent", "markError", "markGone"}
    /\ rows' = [e \in Endpoints |->
                  IF rows[e] # None /\ rows[e].id = t.id
                    THEN [rows[e] EXCEPT !.error = t.at # "markSent"]
                    ELSE rows[e]]
    /\ IF t.at = "markGone" THEN Becomes(t, "delete") ELSE Ends(t)
    /\ UNCHANGED <<nextId, subscribed, requests, events, alive, delivered, spent>>

(* A subscription whose endpoint is gone is removed, for the child it was  *)
(* listed for.                                                             *)
Remove(t) ==
    /\ t.at = "delete"
    /\ Deleted(t.child, t.endpoint)
    /\ Ends(t)
    /\ UNCHANGED <<nextId, subscribed, requests, events, alive, delivered, spent>>

(* A query of a task fails: only a failed mark lets it go on.              *)
TaskFails(t) ==
    /\ t.at \in {"list", "markSent", "markError", "markGone", "delete"}
    /\ Spend("faults", MaxFaults)
    /\ IF t.at = "markGone" THEN Becomes(t, "delete") ELSE Ends(t)
    /\ UNCHANGED <<table, requests, events, alive, delivered>>

-----------------------------------------------------------------------------
(* A browser gives its endpoint up, or its push service does.              *)
Expire(e) ==
    /\ \/ rows[e] # None
       \/ \E r \in Requests : requests[r] # None /\ requests[r].endpoint = e
    /\ alive' = alive \ {e}
    /\ UNCHANGED <<table, requests, events, tasks, delivered, spent>>

(* Only the table outlives the server.                                     *)
Restart ==
    /\ Spend("faults", MaxFaults)
    /\ requests' = [r \in Requests |-> None]
    /\ sent' = [c \in Children |-> <<>>]
    /\ handled' = [c \in Children |-> <<>>]
    /\ alerted' = [c \in Children |-> {}]
    /\ recent' = [c \in Children |-> None]
    /\ tasks' = {}
    /\ UNCHANGED <<table, alive, delivered>>

Serve(r) == Lookup(r) \/ Count(r) \/ Upsert(r) \/ Delete(r)
Run(t) == Decide(t) \/ List(t) \/ Deliver(t) \/ Refuse(t) \/ Mark(t) \/ Remove(t)

Next ==
    \/ \E r \in Requests :
         \/ \E c \in Children, e \in Endpoints :
              BeginSubscribe(r, c, e) \/ BeginUnsubscribe(r, c, e)
         \/ Serve(r) \/ RequestFails(r)
    \/ \E c \in Children, v \in Values : Dispatch(c, v)
    \/ DispatchCount
    \/ \E t \in tasks : Run(t) \/ TaskFails(t)
    \/ \E e \in Endpoints : Expire(e)
    \/ Restart

Spec == Init /\ [][Next]_vars

-----------------------------------------------------------------------------
(* The shape of every variable; ids are never given twice.                 *)
TypeOK ==
    /\ rows \in [Endpoints -> Row \cup {None}]
    /\ nextId \in Nat
    /\ \A e, f \in Endpoints :
         rows[e] # None =>
           /\ rows[e].id < nextId
           /\ rows[f] # None /\ rows[f].id = rows[e].id => e = f
    /\ requests \in [Requests -> Request \cup {None}]
    /\ sent \in [Children -> Seq(Values)]
    /\ handled \in [Children -> Seq(Nat)]
    /\ alerted \in [Children -> SUBSET Nat]
    /\ recent \in [Children -> Snapshot \cup {None}]
    /\ tasks \subseteq EventTask \cup SendTask
    /\ alive \subseteq Endpoints
    /\ subscribed \subseteq Endpoints \X Children
    /\ delivered \subseteq Endpoints \X Children
    /\ spent \in [DOMAIN Unspent -> Nat]

(* The limit is checked in one query and the row written in another, so it *)
(* can be passed; by how much is bounded by the requests under way: never  *)
(* more than one row for each of them but the one that was within it.      *)
SubscriptionsBounded ==
    \A c \in Children :
        Cardinality(Of(c)) <= Limit + Cardinality(Requests) - 1

(* Event i of the minutes s should alert: they rose, or they came into     *)
(* 1 .. 5 ("receive updates when remaining time reaches 5 minutes or       *)
(* increases", README.md:16).                                              *)
Due(s, i) ==
    \/ i > 1 /\ s[i] > s[i - 1]
    \/ s[i] \in 1 .. 5 /\ (i > 1 => s[i - 1] \notin 1 .. 5)

(* As long as the tasks of a child's events come to the threshold logic in *)
(* the order of the events, the alerts decided since the server started    *)
(* are exactly those that are due.                                         *)
AlertsAsPromised ==
    \A c \in Children :
        (\A i \in 1 .. Len(handled[c]) : handled[c][i] = i)
          => alerted[c] = {i \in 1 .. Len(handled[c]) : Due(sent[c], i)}

(* Nobody gets minutes of a child it never subscribed for, however         *)
(* endpoints move from child to child while messages are under way.        *)
OwnAlertsOnly == delivered \subseteq subscribed

(* A subscription whose endpoint still works is removed only by a request  *)
(* that asked for just this: the removal after a failed send, which works  *)
(* with an old list, spares renewed and moved subscriptions.               *)
LiveKept ==
    [][\A e \in alive :
          rows[e] # None /\ rows'[e] = None =>
            \E r \in Requests :
              /\ At(r, "delete")
              /\ requests[r].endpoint = e /\ requests[r].child = rows[e].child]_vars

=============================================================================
