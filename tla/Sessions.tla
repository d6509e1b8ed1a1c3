------------------------------- MODULE Sessions -------------------------------
(***************************************************************************)
(* Login sessions: the tokens gamiscreen-server issues (server/auth.rs,    *)
(* server/mod.rs), the sessions table behind them (storage/mod.rs), and the*)
(* one place where each client keeps its token, the keyring of a device or *)
(* the storage that all tabs of a browser share.                           *)
(*                                                                         *)
(* Tokens are numbered in the order they are issued.  Every query of the   *)
(* sessions table is a step of its own: handlers run, and time passes,     *)
(* between a look at the clock and the query that uses it.  A query that a *)
(* dropped handler leaves to the blocking pool is one whose handler is     *)
(* dropped after it.  Users and children are in the configuration          *)
(* throughout.                                                             *)
(***************************************************************************)
EXTENDS Integers, Sequences, FiniteSets

CONSTANTS
    Browsers,     \* clients with a user's token
    Agents,       \* clients with a device's token
    Handlers,     \* tasks that serve requests
    UserIdle,     \* USER_SESSION_IDLE_DAYS (14)
    UserTtl,      \* USER_TOKEN_TTL_DAYS (30)
    DeviceIdle,   \* DEVICE_SESSION_IDLE_DAYS (30)
    DeviceTtl,    \* DEVICE_TOKEN_TTL_DAYS (60)
    MaxDay,       \* bound: the clock stops here
    MaxTokens,    \* bound: tokens issued
    MaxFaults,    \* bound: queries that fail
    MaxLosses     \* bound: connections that break

Clients == Browsers \cup Agents

ASSUME SessionsAssumption ==
    /\ Browsers \cap Agents = {}
    /\ {UserIdle, UserTtl, DeviceIdle, DeviceTtl} \subseteq Nat
    /\ {MaxDay, MaxTokens, MaxFaults, MaxLosses} \subseteq Nat

VARIABLES
    now,       \* Utc::now() in days
    issued,    \* the claims of every token
    lastUsed,  \* sessions.last_used_at, by jti
    held,      \* the token each client keeps, None for no token
    pc,        \* the next step of each handler
    req,       \* the request it serves
    spent      \* how much of each bound is used up

vars == <<now, issued, lastUsed, held, pc, req, spent>>

None == 0
Tokens == 1..Len(issued)
Claims == [client : Clients, born : Nat, from : Nat]
Ops == {"login", "use", "renew", "stream"}
Request == [op : Ops, client : Clients, token : Nat, fresh : Nat,
            clock : Nat,    \* a look at the clock that a later step uses
            result : {"ok", "unauthorized", "error"}]
Labels == {"idle", "login", "auth", "touch", "create", "delete", "cleanup",
           "reply"}
NoRequest == "none"
Unspent == [faults |-> 0, losses |-> 0]

Idle(c) == IF c \in Agents THEN DeviceIdle ELSE UserIdle
Ttl(c) == IF c \in Agents THEN DeviceTtl ELSE UserTtl

(* decode_and_verify: the signature verifies and exp is not over.          *)
Verifies(t) == now <= issued[t].born + Ttl(issued[t].client)

(* The session of t exists and was used within the idle window that ends at*)
(* a moment.                                                               *)
Alive(t, moment) ==
    /\ t \in DOMAIN lastUsed
    /\ lastUsed[t] >= moment - Idle(issued[t].client)

(* A request with t that meets no other is let in.                         *)
Usable(t) == Verifies(t) /\ Alive(t, now)

Init ==
    /\ now = 0
    /\ issued = <<>>
    /\ lastUsed = [t \in {} |-> 0]
    /\ held = [c \in Clients |-> None]
    /\ pc = [h \in Handlers |-> "idle"]
    /\ req = [h \in Handlers |-> NoRequest]
    /\ spent = Unspent

-----------------------------------------------------------------------------
Spend(bound, max) ==
    /\ spent[bound] < max
    /\ spent' = [spent EXCEPT ![bound] = @ + 1]

GoTo(h, label) == pc' = [pc EXCEPT ![h] = label] /\ UNCHANGED req

(* On to a step that uses the time of this one.                            *)
LookAndGoTo(h, label) ==
    /\ pc' = [pc EXCEPT ![h] = label]
    /\ req' = [req EXCEPT ![h].clock = now]

Reply(h, result) ==
    /\ pc' = [pc EXCEPT ![h] = "reply"]
    /\ req' = [req EXCEPT ![h].result = result, ![h].clock = 0]

Return(h) ==
    /\ pc' = [pc EXCEPT ![h] = "idle"]
    /\ req' = [req EXCEPT ![h] = NoRequest]

(* create_session: a row that exists is left alone.                        *)
Insert(t) == lastUsed' = [u \in DOMAIN lastUsed \cup {t} |->
                            IF u \in DOMAIN lastUsed THEN lastUsed[u] ELSE now]

Drop(t) == lastUsed' = [u \in DOMAIN lastUsed \ {t} |-> lastUsed[u]]

(* A client sends the token it keeps.  The login page is shown to a browser*)
(* without a token; the login command of a device works at any time.       *)
Begin(h, c, op) ==
    /\ pc[h] = "idle"
    /\ IF op = "login" THEN c \in Agents \/ held[c] = None
                       ELSE held[c] # None
    /\ req' = [req EXCEPT ![h] = [op |-> op, client |-> c, token |-> held[c],
                                  fresh |-> None, clock |-> 0,
                                  result |-> "error"]]
    /\ pc' = [pc EXCEPT ![h] = IF op = "login" THEN "login" ELSE "auth"]
    /\ UNCHANGED <<now, issued, lastUsed, held, spent>>

(* require_bearer up to its query: the token verifies, and the cutoff of   *)
(* the idle window is taken from the clock.  The event stream looks at     *)
(* nothing but the token (sse_notifications).                              *)
Verify(h) ==
    LET r == req[h] IN
    /\ pc[h] = "auth"
    /\ \/ ~Verifies(r.token) /\ Reply(h, "unauthorized")
       \/ Verifies(r.token) /\ r.op = "stream" /\ Reply(h, "ok")
       \/ Verifies(r.token) /\ r.op # "stream" /\ LookAndGoTo(h, "touch")
    /\ UNCHANGED <<now, issued, lastUsed, held, spent>>

(* Fault: a use counts for the day after.                                  *)
Touch_Ahead(t, stamp) == lastUsed' = [lastUsed EXCEPT ![t] = stamp + 1]

Touch(t, stamp) == lastUsed' = [lastUsed EXCEPT ![t] = stamp]

(* Fault: the age of the session is not looked at.                         *)
Accepted_AnyAge(h) == req[h].token \in DOMAIN lastUsed

(* The WHERE of the UPDATE, with the cutoff of the earlier step.           *)
Accepted(h) == Alive(req[h].token, req[h].clock)

(* touch_session_with_cutoff, once the blocking task has a connection and  *)
(* the lock: it writes the time it read while it waited for the lock.      *)
Authenticate(h) ==
    LET r == req[h] IN
    /\ pc[h] = "touch"
    /\ \/ /\ Accepted(h)
          /\ \E stamp \in r.clock..now : Touch(r.token, stamp)
          /\ IF r.op = "renew" THEN LookAndGoTo(h, "create") ELSE Reply(h, "ok")
       \/ ~Accepted(h) /\ Reply(h, "unauthorized") /\ UNCHANGED lastUsed
    /\ UNCHANGED <<now, issued, held, spent>>

(* A login, or the registration of a device for a child: refused for the   *)
(* user or the password (401), or for too many attempts, an unknown child  *)
(* or a child without a login (another error); or a token is issued.       *)
Admit(h) ==
    /\ pc[h] = "login"
    /\ LookAndGoTo(h, "create") \/ Reply(h, "unauthorized") \/ Reply(h, "error")
    /\ UNCHANGED <<now, issued, lastUsed, held, spent>>

(* issue_jwt_for_user: exp is taken from the clock before create_session   *)
(* inserts the row.                                                        *)
Create(h) ==
    LET r == req[h]
        t == Len(issued) + 1
    IN
    /\ pc[h] = "create"
    /\ t <= MaxTokens
    /\ \E born \in r.clock..now :
         issued' = Append(issued, [client |-> r.client, born |-> born,
                                   from |-> IF r.op = "renew" THEN r.token
                                                              ELSE None])
    /\ Insert(t)
    /\ req' = [req EXCEPT ![h].fresh = t, ![h].result = "ok", ![h].clock = 0]
    /\ pc' = [pc EXCEPT ![h] = IF r.op = "renew" THEN "delete" ELSE "reply"]
    /\ UNCHANGED <<now, held, spent>>

(* Fault: the answer is sent before the old session is deleted.            *)
DeleteOld_Forgotten(h) ==
    /\ pc[h] = "delete"
    /\ Reply(h, "ok")
    /\ UNCHANGED <<now, issued, lastUsed, held, spent>>

(* api_auth_renew deletes the session of the token it was called with; one *)
(* that is gone already is no error.                                       *)
DeleteOld(h) ==
    /\ pc[h] = "delete"
    /\ Drop(req[h].token)
    /\ Reply(h, "ok")
    /\ UNCHANGED <<now, issued, held, spent>>

(* The old session could not be deleted: the new one is.                   *)
CleanUp(h) ==
    /\ pc[h] = "cleanup"
    /\ Drop(req[h].fresh)
    /\ Reply(h, "error")
    /\ UNCHANGED <<now, issued, held, spent>>

(* A query fails.                                                          *)
Fail(h) ==
    /\ Spend("faults", MaxFaults)
    /\ \/ pc[h] \in {"touch", "create", "cleanup"} /\ Reply(h, "error")
       \/ pc[h] = "delete" /\ GoTo(h, "cleanup")
    /\ UNCHANGED <<now, issued, lastUsed, held>>

(* The answer arrives.  A new token replaces the one that is kept; a       *)
(* browser forgets the token it keeps by then when it reads a 401, unless  *)
(* it is the event stream's.                                               *)
Deliver(h) ==
    LET r == req[h] IN
    /\ pc[h] = "reply"
    /\ held' = [held EXCEPT ![r.client] =
                  IF r.result = "ok" /\ r.op \in {"login", "renew"} THEN r.fresh
                  ELSE IF /\ r.result = "unauthorized" /\ r.op # "stream"
                          /\ r.client \in Browsers
                    THEN None
                  ELSE @]
    /\ Return(h)
    /\ UNCHANGED <<now, issued, lastUsed, spent>>

(* A stream that ended is opened again with the token in its URL, whatever *)
(* its client keeps by then.                                               *)
Reopen(h) ==
    /\ pc[h] = "reply"
    /\ req[h].op = "stream"
    /\ pc' = [pc EXCEPT ![h] = "auth"]
    /\ UNCHANGED <<now, issued, lastUsed, held, req, spent>>

(* The connection breaks: the handler stops where it is, and an answer that*)
(* was on its way is lost (or the new token could not be kept).            *)
Lose(h) ==
    /\ pc[h] # "idle"
    /\ Spend("losses", MaxLosses)
    /\ Return(h)
    /\ UNCHANGED <<now, issued, lastUsed, held>>

(* Logging out of a browser does not tell the server.                      *)
Logout(c) ==
    /\ held[c] # None
    /\ held' = [held EXCEPT ![c] = None]
    /\ UNCHANGED <<now, issued, lastUsed, pc, req, spent>>

Tick ==
    /\ now < MaxDay
    /\ now' = now + 1
    /\ UNCHANGED <<issued, lastUsed, held, pc, req, spent>>

Next ==
    \/ \E h \in Handlers :
         \/ \E c \in Clients, op \in Ops : Begin(h, c, op)
         \/ Admit(h) \/ Verify(h) \/ Authenticate(h) \/ Create(h)
         \/ DeleteOld(h) \/ CleanUp(h)
         \/ Fail(h) \/ Deliver(h) \/ Reopen(h) \/ Lose(h)
    \/ \E c \in Browsers : Logout(c)
    \/ Tick

Spec == Init /\ [][Next]_vars

-----------------------------------------------------------------------------
(* The shape of every variable; a handler that holds a new token is past   *)
(* its creation.                                                           *)
TypeOK ==
    /\ now \in 0..MaxDay
    /\ issued \in Seq(Claims)
    /\ DOMAIN lastUsed \subseteq Tokens
    /\ lastUsed \in [DOMAIN lastUsed -> 0..now]
    /\ held \in [Clients -> Tokens \cup {None}]
    /\ pc \in [Handlers -> Labels]
    /\ req = [h \in Handlers |-> req[h]]
    /\ \A h \in Handlers : IF pc[h] = "idle" THEN req[h] = NoRequest
                                             ELSE req[h] \in Request
    /\ spent \in [DOMAIN Unspent -> Nat]

(* A request under way that took its cutoff while the session of t was     *)
(* young enough for it: it will be let in, however late its query runs.    *)
Passing(h, t) ==
    /\ pc[h] = "touch"
    /\ req[h].token = t
    /\ Verifies(t)
    /\ Alive(t, req[h].clock)

Over(t) == ~Usable(t) /\ \A h \in Handlers : ~Passing(h, t)

(* A login that is over, idle, expired or renewed, stays over, whatever    *)
(* requests with it arrive or are under way.  The one way back is a request*)
(* that was checked before the idle window closed and whose query runs     *)
(* after it (auth.rs:70 and storage/mod.rs:898): until it is answered the  *)
(* login does not count as over.  One that is past exp or was renewed is   *)
(* over at once, with any number of such requests.                         *)
NoRevival == [][\A t \in Tokens : Over(t) => Over(t)']_vars

(* Once a client keeps a renewed token, the session of the token it        *)
(* replaced is gone, through failed queries, lost answers and requests that*)
(* raced the renewal: require_bearer refuses that token.  The event stream *)
(* alone still opens with it until its exp, for it looks at no session     *)
(* (server/mod.rs:860).                                                    *)
ReplacedTokenDead ==
    \A c \in Clients :
        held[c] # None => issued[held[c]].from \notin DOMAIN lastUsed

=============================================================================
