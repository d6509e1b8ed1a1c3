--------------------------- MODULE SessionsProofs ---------------------------
(***************************************************************************)
(* For any number of clients and handlers and any interleaving of their    *)
(* queries: a login that is over, and that no request under way found      *)
(* alive, is never revived, and the session of the token a renewal replaced*)
(* is gone once the client keeps the new one.                              *)
(***************************************************************************)
EXTENDS Sessions, TLAPS

(* A token replaces an earlier one, or none.                               *)
Ancestry == \A t \in Tokens : issued[t].from < t

(* What a handler's locals say of the tables at each of its steps.         *)
LocalsOK(h) ==
    /\ pc[h] # "idle" => req[h].token \in Tokens \cup {None}
    /\ pc[h] \in {"auth", "touch"} =>
         req[h].token \in Tokens /\ req[h].op # "login"
    /\ pc[h] # "idle" /\ req[h].op = "stream" => req[h].token \in Tokens
    /\ pc[h] \in {"touch", "create"} => req[h].clock <= now
    /\ pc[h] = "delete" => /\ req[h].op = "renew"
                           /\ req[h].fresh \in Tokens
                           /\ issued[req[h].fresh].from = req[h].token
    /\ pc[h] = "reply" /\ req[h].result = "ok"
                      /\ req[h].op \in {"login", "renew"} =>
         /\ req[h].fresh \in Tokens
         /\ issued[req[h].fresh].from \notin DOMAIN lastUsed

Locals == \A h \in Handlers : LocalsOK(h)

(* The inductive invariant: a dead predecessor follows a token from the    *)
(* handler that made it to the client that keeps it.                       *)
IInv == TypeOK /\ Ancestry /\ Locals /\ ReplacedTokenDead

-----------------------------------------------------------------------------
(* What no step undoes: tokens keep their claims, and a session that is    *)
(* gone does not come back.                                                *)
Evolves ==
    /\ issued' \in Seq(Claims)
    /\ Tokens \subseteq Tokens'
    /\ \A t \in Tokens : issued'[t] = issued[t]
    /\ \A t \in Tokens \cup {None} :
         t \notin DOMAIN lastUsed => t \notin DOMAIN lastUsed'
    /\ DOMAIN lastUsed' \subseteq Tokens'
    /\ lastUsed' \in [DOMAIN lastUsed' -> 0..now']
    /\ now' \in 0..MaxDay
    /\ now <= now'
    /\ Ancestry'

(* No session belongs to no token.                                         *)
LEMMA NotATokenNone == TypeOK => None \notin DOMAIN lastUsed
  BY DEF TypeOK, Tokens, None

(* Steps that leave the tables and the clock alone.                        *)
LEMMA StillEvolves ==
    ASSUME TypeOK, Ancestry, UNCHANGED <<now, issued, lastUsed>>
    PROVE  Evolves
  BY DEF Evolves, TypeOK, Ancestry, Tokens

(* The clock moves forward and nothing else.                               *)
LEMMA TickEvolves ==
    ASSUME TypeOK, Ancestry, Tick, SessionsAssumption
    PROVE  Evolves
<1>1. /\ now' \in 0..MaxDay /\ now' = now + 1
      /\ issued' = issued /\ lastUsed' = lastUsed
  BY DEF Tick, TypeOK, SessionsAssumption
<1>2. lastUsed' \in [DOMAIN lastUsed' -> 0..now']
  BY <1>1 DEF TypeOK
<1> QED BY <1>1, <1>2 DEF Evolves, TypeOK, Ancestry, Tokens

(* Deleting a session.                                                     *)
LEMMA DropEvolves ==
    ASSUME TypeOK, Ancestry, NEW t, Drop(t), UNCHANGED <<now, issued>>
    PROVE  Evolves
<1>1. /\ DOMAIN lastUsed' = DOMAIN lastUsed \ {t}
      /\ lastUsed' \in [DOMAIN lastUsed' -> 0..now']
  BY DEF Drop, TypeOK
<1> QED BY <1>1 DEF Evolves, TypeOK, Ancestry, Tokens

(* Using a session.                                                        *)
LEMMA TouchEvolves ==
    ASSUME TypeOK, Ancestry, NEW t \in DOMAIN lastUsed,
           NEW stamp \in 0..now, Touch(t, stamp), UNCHANGED <<now, issued>>
    PROVE  Evolves
<1>1. /\ DOMAIN lastUsed' = DOMAIN lastUsed
      /\ lastUsed' \in [DOMAIN lastUsed' -> 0..now']
  BY DEF Touch, TypeOK
<1> QED BY <1>1 DEF Evolves, TypeOK, Ancestry, Tokens

(* Creating a session numbers a token that was not there.                  *)
LEMMA CreateEvolves ==
    ASSUME TypeOK, Ancestry, NEW h \in Handlers, LocalsOK(h), Create(h)
    PROVE  /\ Evolves
           /\ Len(issued') = Len(issued) + 1
           /\ issued'[Len(issued) + 1].from =
                IF req[h].op = "renew" THEN req[h].token ELSE None
<1> DEFINE t == Len(issued) + 1
<1>0. PICK born \in req[h].clock..now :
         issued' = Append(issued,
                     [client |-> req[h].client, born |-> born,
                      from |-> IF req[h].op = "renew" THEN req[h].token ELSE None])
  BY DEF Create
<1> DEFINE claims ==
             [client |-> req[h].client, born |-> born,
              from |-> IF req[h].op = "renew" THEN req[h].token ELSE None]
<1>1. /\ issued' = Append(issued, claims) /\ now' = now
      /\ lastUsed' = [u \in DOMAIN lastUsed \cup {t} |->
                        IF u \in DOMAIN lastUsed THEN lastUsed[u] ELSE now]
  BY <1>0 DEF Create, Insert
<1>2. req[h] \in Request /\ req[h].token \in Tokens \cup {None} /\ born \in Nat
  <2>1. req[h] \in Request /\ req[h].token \in Tokens \cup {None}
    BY DEF Create, TypeOK, LocalsOK
  <2> QED BY <2>1 DEF Request, TypeOK
<1>3. claims \in Claims /\ claims.from < t
  BY <1>2 DEF TypeOK, Request, Claims, Tokens, None
<1> HIDE DEF claims
<1>4. /\ issued' \in Seq(Claims) /\ Len(issued') = t
      /\ issued'[t] = claims /\ \A u \in Tokens : issued'[u] = issued[u]
  BY <1>1, <1>3 DEF TypeOK, Tokens
<1>5. DOMAIN lastUsed' = DOMAIN lastUsed \cup {t}
  BY <1>1
<1>6. lastUsed' \in [DOMAIN lastUsed' -> 0..now']
  BY <1>1, <1>5 DEF TypeOK
<1>7. Ancestry'
  BY <1>3, <1>4 DEF Ancestry, TypeOK, Tokens
<1>8. t \notin Tokens \cup {None} /\ Tokens \subseteq Tokens' /\ t \in Tokens'
  BY <1>4 DEF TypeOK, Tokens, None
<1>9. DOMAIN lastUsed' \subseteq Tokens'
  BY <1>5, <1>8 DEF TypeOK
<1>10. now <= now' /\ \A u \in Tokens \cup {None} :
                         u \notin DOMAIN lastUsed => u \notin DOMAIN lastUsed'
  BY <1>1, <1>5, <1>8 DEF TypeOK
<1>11. Evolves
  BY <1>10, <1>1, <1>4, <1>5, <1>6, <1>7, <1>8, <1>9 DEF Evolves, TypeOK
<1> QED BY <1>4, <1>11 DEF claims

(* The token that another replaces is a token.                             *)
LEMMA FromIsToken ==
    ASSUME TypeOK, Ancestry
    PROVE  \A t \in Tokens : issued[t].from \in Tokens \cup {None}
<1> SUFFICES ASSUME NEW t \in Tokens
             PROVE  issued[t].from \in Tokens \cup {None}
  OBVIOUS
<1>1. issued[t] \in Claims /\ t \in 1..Len(issued) /\ Len(issued) \in Nat
  BY DEF TypeOK, Tokens
<1>2. issued[t].from \in Nat /\ issued[t].from < t
  BY <1>1 DEF Claims, Ancestry
<1> QED BY <1>1, <1>2 DEF Tokens, None

(* A handler that does not move keeps its locals right.                    *)
LEMMA LocalsKept ==
    ASSUME IInv, Evolves, NEW h \in Handlers,
           pc'[h] = pc[h], req'[h] = req[h]
    PROVE  LocalsOK(h)'
<1>1. LocalsOK(h)
  BY DEF IInv, Locals
<1>2. \A t \in Tokens : issued[t].from \in Tokens \cup {None}
  BY FromIsToken DEF IInv
<1>3. \A t \in Tokens : issued[t].from \notin DOMAIN lastUsed =>
                        issued'[t].from \notin DOMAIN lastUsed'
  BY <1>2 DEF Evolves
<1>4. pc[h] = "reply" /\ req[h].result = "ok"
                      /\ req[h].op \in {"login", "renew"} =>
         /\ req[h].fresh \in Tokens'
         /\ issued'[req[h].fresh].from \notin DOMAIN lastUsed'
  BY <1>1, <1>3 DEF LocalsOK, Evolves
<1>5. pc[h] = "delete" => /\ req[h].op = "renew"
                          /\ req[h].fresh \in Tokens'
                          /\ issued'[req[h].fresh].from = req[h].token
  BY <1>1 DEF LocalsOK, Evolves
<1>6. /\ pc[h] # "idle" => req[h].token \in Tokens' \cup {None}
      /\ pc[h] \in {"auth", "touch"} =>
           req[h].token \in Tokens' /\ req[h].op # "login"
      /\ pc[h] # "idle" /\ req[h].op = "stream" => req[h].token \in Tokens'
  BY <1>1 DEF LocalsOK, Evolves
<1>7. pc[h] \in {"touch", "create"} => req[h].clock <= now'
  <2> SUFFICES ASSUME pc[h] \in {"touch", "create"}
               PROVE  req[h].clock <= now'
    OBVIOUS
  <2>1. req[h].clock \in Nat /\ now \in Int /\ now' \in Int
    BY DEF IInv, TypeOK, Request, Evolves
  <2>2. req[h].clock <= now /\ now <= now'
    BY <1>1 DEF LocalsOK, Evolves
  <2> QED BY <2>1, <2>2
<1> QED BY <1>4, <1>5, <1>6, <1>7 DEF LocalsOK, None

(* Clients that keep their token keep it with a dead predecessor.          *)
LEMMA HeldKept ==
    ASSUME IInv, Evolves, held' = held
    PROVE  /\ ReplacedTokenDead'
           /\ held' \in [Clients -> Tokens' \cup {None}]
<1>1. \A t \in Tokens : issued[t].from \in Tokens \cup {None}
  BY FromIsToken DEF IInv
<1>2. held \in [Clients -> Tokens \cup {None}]
  BY DEF IInv, TypeOK
<1>3. \A c \in Clients : held[c] # None => held[c] \in Tokens
  BY <1>2
<1>4. ReplacedTokenDead'
  BY <1>1, <1>3 DEF IInv, ReplacedTokenDead, Evolves, None, Clients
<1>5. held' \in [Clients -> Tokens' \cup {None}]
  BY <1>2 DEF Evolves
<1> QED BY <1>4, <1>5

(* A step of one handler: what is left to show is about its own locals.    *)
LEMMA OneMoves ==
    ASSUME IInv, Evolves, NEW h \in Handlers,
           NEW l \in Labels, NEW r,
           pc' = [pc EXCEPT ![h] = l], req' = [req EXCEPT ![h] = r],
           IF l = "idle" THEN r = NoRequest ELSE r \in Request,
           LocalsOK(h)',
           held' \in [Clients -> Tokens' \cup {None}], ReplacedTokenDead',
           spent' \in [DOMAIN Unspent -> Nat]
    PROVE  IInv'
<1>1. /\ pc' \in [Handlers -> Labels] /\ pc'[h] = l /\ req'[h] = r
      /\ \A g \in Handlers \ {h} : pc'[g] = pc[g] /\ req'[g] = req[g]
  BY DEF IInv, TypeOK
<1>2. \A g \in Handlers : IF pc'[g] = "idle" THEN req'[g] = NoRequest
                                             ELSE req'[g] \in Request
  BY <1>1 DEF IInv, TypeOK
<1>3. req' = [g \in Handlers |-> req'[g]]
  <2>1. DOMAIN req = Handlers
    BY DEF IInv, TypeOK
  <2> QED BY <2>1
<1>5. TypeOK'
  BY <1>1, <1>2, <1>3 DEF TypeOK, Evolves
<1>4. Locals'
  BY <1>1, LocalsKept DEF Locals
<1> QED BY <1>4, <1>5 DEF IInv, Evolves

-----------------------------------------------------------------------------
(* The invariant holds at the start.                                       *)
THEOREM Initially == Init => IInv
<1> SUFFICES ASSUME Init PROVE IInv
  OBVIOUS
<1>1. DOMAIN lastUsed = {} /\ lastUsed \in [DOMAIN lastUsed -> 0..now]
  BY DEF Init
<1>2. spent \in [DOMAIN Unspent -> Nat]
  BY DEF Init, Unspent
<1>3. TypeOK
  BY <1>1, <1>2, SessionsAssumption DEF Init, TypeOK, Labels, Tokens
<1> QED BY <1>3 DEF Init, IInv, Ancestry, Locals, LocalsOK, ReplacedTokenDead,
                    Tokens

(* Spending a bound keeps the counters natural numbers.                    *)
LEMMA SpendTyped ==
    ASSUME TypeOK, NEW b \in DOMAIN Unspent, NEW max, Spend(b, max)
    PROVE  spent' \in [DOMAIN Unspent -> Nat]
  BY DEF Spend, TypeOK, Unspent

(* A handler that moves on serves the same request, with a new look at the *)
(* clock or with the old one.                                              *)
LEMMA MovesOn ==
    ASSUME IInv, NEW h \in Handlers, pc[h] # "idle", NEW l \in Labels \ {"idle"},
           GoTo(h, l) \/ LookAndGoTo(h, l)
    PROVE  \E r \in Request :
              /\ pc' = [pc EXCEPT ![h] = l] /\ pc'[h] = l
              /\ req' = [req EXCEPT ![h] = r] /\ req'[h] = r
              /\ r.op = req[h].op /\ r.token = req[h].token
              /\ r.fresh = req[h].fresh
              /\ LookAndGoTo(h, l) => r.clock = now
<1>1. /\ req[h] \in Request /\ DOMAIN req = Handlers /\ now \in Nat
      /\ pc \in [Handlers -> Labels]
  BY DEF IInv, TypeOK
<1>2. CASE LookAndGoTo(h, l)
  <2> DEFINE r == [req[h] EXCEPT !.clock = now]
  <2>1. /\ r \in Request /\ r.op = req[h].op /\ r.token = req[h].token
        /\ r.fresh = req[h].fresh /\ r.clock = now
    BY <1>1 DEF Request
  <2>2. req' = [req EXCEPT ![h] = r]
    BY <1>2 DEF LookAndGoTo
  <2> HIDE DEF r
  <2> QED BY <1>1, <1>2, <2>1, <2>2 DEF LookAndGoTo
<1>3. CASE GoTo(h, l) /\ ~LookAndGoTo(h, l)
  <2>1. req' = [req EXCEPT ![h] = req[h]]
    BY <1>1, <1>3 DEF GoTo, IInv, TypeOK
  <2> QED BY <1>1, <1>3, <2>1 DEF GoTo
<1> QED BY <1>2, <1>3

(* A handler that answers an error or a 401, or returns, or that lets a    *)
(* request in which asks for no token.                                     *)
LEMMA Answers ==
    ASSUME IInv, Evolves, NEW h \in Handlers, pc[h] # "idle",
           \/ Reply(h, "error") \/ Reply(h, "unauthorized") \/ Return(h)
           \/ Reply(h, "ok") /\ req[h].op \in {"use", "stream"}
    PROVE  /\ LocalsOK(h)'
           /\ \E l \in Labels : \E r :
                /\ pc' = [pc EXCEPT ![h] = l] /\ req' = [req EXCEPT ![h] = r]
                /\ IF l = "idle" THEN r = NoRequest ELSE r \in Request
<1>1. /\ req[h] \in Request /\ req[h].token \in Tokens \cup {None}
      /\ req[h].op = "stream" => req[h].token \in Tokens
  BY DEF IInv, TypeOK, Locals, LocalsOK
<1>2. ASSUME NEW result \in {"ok", "error", "unauthorized"}, Reply(h, result),
             result = "ok" => req[h].op \in {"use", "stream"}
      PROVE  /\ LocalsOK(h)'
             /\ \E l \in Labels : \E r :
                  /\ pc' = [pc EXCEPT ![h] = l] /\ req' = [req EXCEPT ![h] = r]
                  /\ IF l = "idle" THEN r = NoRequest ELSE r \in Request
  <2> DEFINE r == [req[h] EXCEPT !.result = result, !.clock = 0]
  <2>1. /\ r \in Request /\ r.token = req[h].token /\ r.result = result
        /\ r.op = req[h].op
    BY <1>1 DEF Request
  <2>2. pc' = [pc EXCEPT ![h] = "reply"] /\ req' = [req EXCEPT ![h] = r]
    BY <1>1, <1>2 DEF Reply, Request
  <2>3. pc'[h] = "reply" /\ req'[h] = r
    BY <2>2 DEF IInv, TypeOK
  <2> HIDE DEF r
  <2>4. LocalsOK(h)'
    BY <1>1, <1>2, <2>1, <2>3 DEF LocalsOK, Evolves
  <2> QED BY <2>1, <2>2, <2>4 DEF Labels
<1>3. CASE Return(h)
  <2>1. pc'[h] = "idle"
    BY <1>3 DEF Return, IInv, TypeOK
  <2> QED BY <1>3, <2>1 DEF Return, LocalsOK, Labels
<1> QED BY <1>2, <1>3

(* Steps of a handler that leave what clients keep alone.                  *)
LEMMA HandlerStep ==
    ASSUME IInv, Evolves, NEW h \in Handlers, held' = held,
           spent' \in [DOMAIN Unspent -> Nat], LocalsOK(h)',
           \E l \in Labels : \E r :
              /\ pc' = [pc EXCEPT ![h] = l] /\ req' = [req EXCEPT ![h] = r]
              /\ IF l = "idle" THEN r = NoRequest ELSE r \in Request
    PROVE  IInv'
<1>1. PICK l, r :
         /\ l \in Labels
         /\ pc' = [pc EXCEPT ![h] = l] /\ req' = [req EXCEPT ![h] = r]
         /\ IF l = "idle" THEN r = NoRequest ELSE r \in Request
  OBVIOUS
<1> QED BY <1>1, HeldKept, OneMoves

(* Steps that move no handler.                                             *)
LEMMA NoHandlerMoves ==
    ASSUME IInv, Evolves, UNCHANGED <<pc, req, spent>>,
           held' \in [Clients -> Tokens' \cup {None}], ReplacedTokenDead'
    PROVE  IInv'
<1>1. Locals'
  BY LocalsKept DEF Locals
<1>2. TypeOK'
  BY DEF IInv, TypeOK, Evolves
<1> QED BY <1>1, <1>2 DEF IInv, Evolves

(* A request arrives.                                                      *)
LEMMA BeginKeeps ==
    ASSUME IInv, NEW h \in Handlers, NEW c \in Clients,
           NEW op \in Ops, Begin(h, c, op)
    PROVE  IInv'
<1> DEFINE r == [op |-> op, client |-> c, token |-> held[c], fresh |-> None,
                 clock |-> 0, result |-> "error"]
           l == IF op = "login" THEN "login" ELSE "auth"
<1>1. Evolves
  BY StillEvolves DEF Begin, IInv
<1>2. held[c] \in Tokens \cup {None} /\ (op # "login" => held[c] # None)
  BY DEF IInv, TypeOK, Begin
<1>3. r \in Request
  BY <1>2 DEF Request, Tokens, None, Ops
<1>4. pc' = [pc EXCEPT ![h] = l] /\ req' = [req EXCEPT ![h] = r]
  BY DEF Begin
<1>5. pc'[h] = l /\ req'[h] = r
  BY <1>4 DEF IInv, TypeOK
<1>6. Tokens' = Tokens
  BY DEF Begin, Tokens
<1>7. LocalsOK(h)'
  BY <1>2, <1>5, <1>6 DEF LocalsOK
<1> HIDE DEF r
<1> QED BY <1>1, <1>3, <1>4, <1>7, HandlerStep DEF Begin, Labels, IInv, TypeOK

(* A login is admitted, or refused.                                        *)
LEMMA AdmitKeeps ==
    ASSUME IInv, NEW h \in Handlers, Admit(h)
    PROVE  IInv'
<1>1. /\ pc[h] = "login" /\ req[h] \in Request
      /\ req[h].token \in Tokens \cup {None}
      /\ held' = held /\ spent' = spent
  BY DEF Admit, IInv, TypeOK, Locals, LocalsOK
<1>2. Evolves /\ spent' \in [DOMAIN Unspent -> Nat]
  BY <1>1, StillEvolves DEF Admit, IInv, TypeOK
<1>3. CASE LookAndGoTo(h, "create")
  <2>1. PICK r \in Request :
          /\ pc' = [pc EXCEPT ![h] = "create"] /\ pc'[h] = "create"
          /\ req' = [req EXCEPT ![h] = r] /\ req'[h] = r
          /\ r.op = req[h].op /\ r.token = req[h].token
          /\ r.fresh = req[h].fresh /\ r.clock = now
    BY <1>1, <1>3, MovesOn DEF Labels
  <2>2. now' = now /\ now \in Int
    BY DEF Admit, IInv, TypeOK
  <2>3. req[h].op = "stream" => req[h].token \in Tokens
    BY <1>1 DEF IInv, Locals, LocalsOK
  <2>4. LocalsOK(h)'
    BY <1>1, <1>2, <2>1, <2>2, <2>3 DEF LocalsOK, Evolves
  <2> QED BY <1>1, <1>2, <2>1, <2>4, HandlerStep DEF Labels
<1>4. CASE Reply(h, "unauthorized") \/ Reply(h, "error")
  BY <1>1, <1>2, <1>4, Answers, HandlerStep
<1> QED BY <1>3, <1>4 DEF Admit

(* A token is verified, or refused.                                        *)
LEMMA VerifyKeeps ==
    ASSUME IInv, NEW h \in Handlers, Verify(h)
    PROVE  IInv'
<1>1. /\ pc[h] = "auth" /\ req[h] \in Request /\ req[h].token \in Tokens
      /\ req[h].op # "login"
      /\ held' = held /\ spent' = spent /\ UNCHANGED <<now, issued, lastUsed>>
  BY DEF Verify, IInv, TypeOK, Locals, LocalsOK
<1>2. Evolves /\ spent' \in [DOMAIN Unspent -> Nat]
  BY <1>1, StillEvolves DEF IInv, TypeOK
<1>3. CASE LookAndGoTo(h, "touch")
  <2>1. PICK r \in Request :
          /\ pc' = [pc EXCEPT ![h] = "touch"] /\ pc'[h] = "touch"
          /\ req' = [req EXCEPT ![h] = r] /\ req'[h] = r
          /\ r.op = req[h].op /\ r.token = req[h].token /\ r.clock = now
    BY <1>1, <1>3, MovesOn DEF Labels
  <2>2. now' = now /\ now \in Int
    BY <1>1 DEF IInv, TypeOK
  <2>3. LocalsOK(h)'
    BY <1>1, <1>2, <2>1, <2>2 DEF LocalsOK, Evolves
  <2> QED BY <1>1, <1>2, <2>1, <2>3, HandlerStep DEF Labels
<1>4. CASE \/ Reply(h, "unauthorized")
           \/ req[h].op = "stream" /\ Reply(h, "ok")
  BY <1>1, <1>2, <1>4, Answers, HandlerStep
<1> QED BY <1>3, <1>4 DEF Verify

(* A session is touched and its request let in, or refused.                *)
LEMMA AuthenticateKeeps ==
    ASSUME IInv, NEW h \in Handlers, Authenticate(h)
    PROVE  IInv'
<1>1. /\ pc[h] = "touch" /\ req[h] \in Request /\ req[h].token \in Tokens
      /\ req[h].op # "login"
      /\ held' = held /\ spent' = spent /\ UNCHANGED <<now, issued>>
  BY DEF Authenticate, IInv, TypeOK, Locals, LocalsOK
<1>2. spent' \in [DOMAIN Unspent -> Nat]
  BY <1>1 DEF IInv, TypeOK
<1>3. ASSUME Accepted(h), NEW stamp \in req[h].clock..now,
             Touch(req[h].token, stamp),
             IF req[h].op = "renew" THEN LookAndGoTo(h, "create") ELSE Reply(h, "ok")
      PROVE  IInv'
  <2>1. Evolves
    <3>1. req[h].clock \in Nat /\ now \in Nat
      BY <1>1 DEF IInv, TypeOK, Request
    <3>2. stamp \in 0..now
      BY <3>1, <1>3
    <3> QED BY <1>1, <1>3, <3>2, TouchEvolves DEF Accepted, Alive, IInv
  <2>2. CASE req[h].op = "renew"
    <3>1. PICK r \in Request :
            /\ pc' = [pc EXCEPT ![h] = "create"] /\ pc'[h] = "create"
            /\ req' = [req EXCEPT ![h] = r] /\ req'[h] = r
            /\ r.op = req[h].op /\ r.token = req[h].token /\ r.clock = now
      BY <1>1, <1>3, <2>2, MovesOn DEF Labels
    <3>2. now' = now /\ now \in Int
      BY <1>1 DEF IInv, TypeOK
    <3>3. LocalsOK(h)'
      BY <1>1, <2>1, <3>1, <3>2 DEF LocalsOK, Evolves
    <3> QED BY <1>1, <1>2, <2>1, <3>1, <3>3, HandlerStep DEF Labels
  <2>3. CASE req[h].op # "renew"
    <3>1. req[h].op \in {"use", "stream"}
      BY <1>1, <2>3 DEF Request, Ops
    <3> QED BY <1>1, <1>2, <1>3, <2>1, <2>3, <3>1, Answers, HandlerStep
  <2> QED BY <2>2, <2>3
<1>4. CASE Reply(h, "unauthorized") /\ UNCHANGED lastUsed
  <2>1. Evolves
    BY <1>1, <1>4, StillEvolves DEF IInv
  <2> QED BY <1>1, <1>2, <1>4, <2>1, Answers, HandlerStep
<1> QED BY <1>3, <1>4 DEF Authenticate

(* A token is issued: its predecessor is the presented token.              *)
LEMMA CreateKeeps ==
    ASSUME IInv, NEW h \in Handlers, Create(h)
    PROVE  IInv'
<1> DEFINE t == Len(issued) + 1
           r == [req[h] EXCEPT !.fresh = t, !.result = "ok", !.clock = 0]
           l == IF req[h].op = "renew" THEN "delete" ELSE "reply"
<1>1. /\ Evolves /\ Len(issued') = t
      /\ issued'[t].from = IF req[h].op = "renew" THEN req[h].token ELSE None
  BY CreateEvolves DEF IInv, Locals
<1>2. /\ req[h] \in Request /\ req[h].token \in Tokens \cup {None}
      /\ req[h].op = "stream" => req[h].token \in Tokens
      /\ held' = held /\ spent' = spent /\ Len(issued) \in Nat
  BY DEF Create, IInv, TypeOK, Locals, LocalsOK
<1>3. /\ r \in Request /\ r.fresh = t /\ r.token = req[h].token
      /\ r.op = req[h].op /\ r.result = "ok"
  <2>1. t \in Nat
    BY <1>2
  <2> HIDE DEF t
  <2> QED BY <1>2, <2>1 DEF Request
<1>4. pc' = [pc EXCEPT ![h] = l] /\ req' = [req EXCEPT ![h] = r]
  BY <1>2 DEF Create, Request
<1>5. pc'[h] = l /\ req'[h] = r
  BY <1>4 DEF IInv, TypeOK
<1>6. t \in Tokens'
  BY <1>1, <1>2 DEF Tokens
<1> HIDE DEF r
<1>7. None \notin DOMAIN lastUsed'
  BY <1>1, NotATokenNone DEF Evolves, IInv
<1>8. LocalsOK(h)'
  BY <1>1, <1>2, <1>3, <1>5, <1>6, <1>7 DEF LocalsOK, Evolves
<1> QED BY <1>1, <1>2, <1>3, <1>4, <1>8, HandlerStep DEF Labels, IInv, TypeOK

(* The predecessor dies before the new token is answered.                  *)
LEMMA DeleteOldKeeps ==
    ASSUME IInv, NEW h \in Handlers, DeleteOld(h)
    PROVE  IInv'
<1> DEFINE r == [req[h] EXCEPT !.result = "ok", !.clock = 0]
<1>1. /\ req[h] \in Request /\ req[h].token \in Tokens \cup {None}
      /\ req[h].op = "renew" /\ req[h].fresh \in Tokens
      /\ issued[req[h].fresh].from = req[h].token
      /\ held' = held /\ spent' = spent
  BY DEF DeleteOld, IInv, TypeOK, Locals, LocalsOK
<1>2. Evolves
  BY DropEvolves DEF DeleteOld, IInv
<1>3. req[h].token \notin DOMAIN lastUsed'
  BY DEF DeleteOld, Drop
<1>4. /\ r \in Request /\ r.fresh = req[h].fresh /\ r.token = req[h].token
      /\ r.op = req[h].op
  BY <1>1 DEF Request
<1>5. pc' = [pc EXCEPT ![h] = "reply"] /\ req' = [req EXCEPT ![h] = r]
  BY <1>1 DEF DeleteOld, Reply, Request
<1>6. pc'[h] = "reply" /\ req'[h] = r
  BY <1>5 DEF IInv, TypeOK
<1> HIDE DEF r
<1>7. LocalsOK(h)'
  BY <1>1, <1>2, <1>3, <1>4, <1>6 DEF LocalsOK, Evolves
<1> QED BY <1>1, <1>2, <1>4, <1>5, <1>7, HandlerStep DEF Labels, IInv, TypeOK

(* A query fails.                                                          *)
LEMMA FailKeeps ==
    ASSUME IInv, NEW h \in Handlers, Fail(h)
    PROVE  IInv'
<1>1. Evolves /\ held' = held
  BY StillEvolves DEF Fail, IInv
<1>2. spent' \in [DOMAIN Unspent -> Nat]
  BY SpendTyped DEF Fail, IInv, Unspent
<1>3. CASE pc[h] \in {"touch", "create", "cleanup"} /\ Reply(h, "error")
  BY <1>1, <1>2, <1>3, Answers, HandlerStep
<1>4. CASE pc[h] = "delete" /\ GoTo(h, "cleanup")
  <2>1. req[h].op = "renew" /\ req[h].token \in Tokens \cup {None}
    BY <1>4 DEF IInv, Locals, LocalsOK
  <2>2. PICK r \in Request :
          /\ pc' = [pc EXCEPT ![h] = "cleanup"] /\ pc'[h] = "cleanup"
          /\ req' = [req EXCEPT ![h] = r] /\ req'[h] = r
          /\ r.op = req[h].op /\ r.token = req[h].token
    BY <1>4, MovesOn DEF Labels
  <2>3. LocalsOK(h)'
    BY <1>1, <2>1, <2>2 DEF LocalsOK, Evolves
  <2> QED BY <1>1, <1>2, <2>2, <2>3, HandlerStep DEF Labels
<1> QED BY <1>3, <1>4 DEF Fail

(* An answer arrives: the client keeps a token with a dead predecessor.    *)
LEMMA DeliverKeeps ==
    ASSUME IInv, NEW h \in Handlers, Deliver(h)
    PROVE  IInv'
<1>1. /\ Evolves /\ spent' \in [DOMAIN Unspent -> Nat]
      /\ pc[h] = "reply" /\ req[h] \in Request /\ Return(h)
      /\ issued' = issued /\ lastUsed' = lastUsed
  BY StillEvolves DEF Deliver, IInv, TypeOK
<1>2. req[h].result = "ok" /\ req[h].op \in {"login", "renew"} =>
         /\ req[h].fresh \in Tokens
         /\ issued[req[h].fresh].from \notin DOMAIN lastUsed
  BY <1>1 DEF IInv, Locals, LocalsOK
<1>3. /\ DOMAIN held' = Clients /\ DOMAIN held = Clients
      /\ \A c \in Clients :
           \/ held'[c] = held[c]
           \/ held'[c] = None
           \/ /\ req[h].result = "ok" /\ req[h].op \in {"login", "renew"}
              /\ held'[c] = req[h].fresh
  BY DEF Deliver, IInv, TypeOK
<1>4. \A c \in Clients : held'[c] \in Tokens \cup {None}
  BY <1>2, <1>3 DEF IInv, TypeOK
<1>5. held' \in [Clients -> Tokens' \cup {None}]
  <2>1. held' \in [Clients -> Tokens \cup {None}]
    BY <1>3, <1>4 DEF Deliver, IInv, TypeOK
  <2> QED BY <1>1, <2>1 DEF Tokens
<1>6. ReplacedTokenDead'
  <2> SUFFICES ASSUME NEW c \in Clients, held'[c] # None
               PROVE  issued[held'[c]].from \notin DOMAIN lastUsed
    BY <1>1 DEF ReplacedTokenDead, Clients, None
  <2> QED BY <1>2, <1>3 DEF IInv, ReplacedTokenDead
<1>7. pc' = [pc EXCEPT ![h] = "idle"] /\ req' = [req EXCEPT ![h] = NoRequest]
  BY <1>1 DEF Return
<1>8. LocalsOK(h)'
  BY <1>1, Answers
<1> QED BY <1>1, <1>5, <1>6, <1>7, <1>8, OneMoves DEF Labels

(* A stream is opened again.                                               *)
LEMMA ReopenKeeps ==
    ASSUME IInv, NEW h \in Handlers, Reopen(h)
    PROVE  IInv'
<1>1. /\ Evolves /\ held' = held /\ spent' \in [DOMAIN Unspent -> Nat]
      /\ pc[h] = "reply" /\ req[h].op = "stream" /\ req[h] \in Request
  BY StillEvolves DEF Reopen, IInv, TypeOK
<1>2. /\ pc' = [pc EXCEPT ![h] = "auth"] /\ req' = [req EXCEPT ![h] = req[h]]
      /\ pc'[h] = "auth" /\ req'[h] = req[h]
  BY DEF Reopen, IInv, TypeOK
<1>3. req[h].token \in Tokens
  BY <1>1 DEF IInv, Locals, LocalsOK
<1>4. LocalsOK(h)'
  BY <1>1, <1>2, <1>3 DEF LocalsOK, Evolves
<1> QED BY <1>1, <1>2, <1>4, HandlerStep DEF Labels

(* Every step keeps the invariant.                                         *)
THEOREM Steps == IInv /\ [Next]_vars => IInv'
<1> SUFFICES ASSUME IInv, [Next]_vars
             PROVE  IInv'
  OBVIOUS
<1>1. ASSUME NEW h \in Handlers, CleanUp(h) PROVE IInv'
  <2>1. Evolves /\ held' = held /\ spent' \in [DOMAIN Unspent -> Nat]
    BY <1>1, DropEvolves DEF CleanUp, IInv, TypeOK
  <2> QED BY <1>1, <2>1, Answers, HandlerStep DEF CleanUp
<1>2. ASSUME NEW h \in Handlers, Lose(h) PROVE IInv'
  <2>1. Evolves /\ held' = held
    BY <1>2, StillEvolves DEF Lose, IInv
  <2>2. spent' \in [DOMAIN Unspent -> Nat]
    BY <1>2, SpendTyped DEF Lose, IInv, Unspent
  <2> QED BY <1>2, <2>1, <2>2, Answers, HandlerStep DEF Lose
<1>3. ASSUME NEW c \in Browsers, Logout(c) PROVE IInv'
  <2>1. Evolves
    BY <1>3, StillEvolves DEF Logout, IInv
  <2>2. /\ held' \in [Clients -> Tokens \cup {None}]
        /\ \A d \in Clients : held'[d] = held[d] \/ held'[d] = None
    BY <1>3 DEF Logout, IInv, TypeOK
  <2>3. /\ issued' = issued /\ lastUsed' = lastUsed /\ Tokens' = Tokens
        /\ UNCHANGED <<pc, req, spent>>
    BY <1>3 DEF Logout, Tokens
  <2>4. ReplacedTokenDead'
    BY <2>2, <2>3 DEF IInv, ReplacedTokenDead, Clients, None
  <2> QED BY <2>1, <2>2, <2>3, <2>4, NoHandlerMoves
<1>4. ASSUME Tick PROVE IInv'
  <2>1. Evolves
    BY <1>4, TickEvolves, SessionsAssumption DEF IInv
  <2> QED BY <1>4, <2>1, HeldKept, NoHandlerMoves DEF Tick
<1>5. CASE UNCHANGED vars
  <2>1. Evolves
    BY <1>5, StillEvolves DEF vars, IInv
  <2> QED BY <1>5, <2>1, HeldKept, NoHandlerMoves DEF vars
<1> QED BY <1>1, <1>2, <1>3, <1>4, <1>5, BeginKeeps, AdmitKeeps, VerifyKeeps,
           AuthenticateKeeps, CreateKeeps, DeleteOldKeeps, FailKeeps, DeliverKeeps,
           ReopenKeeps DEF Next

(* IInv holds in every reachable state.                                    *)
THEOREM Invariance == Spec => []IInv
  BY Initially, Steps, PTL DEF Spec

(* The variables keep their shape.                                         *)
THEOREM TypeCorrect == Spec => []TypeOK
<1>1. IInv => TypeOK
  BY DEF IInv
<1> QED BY Invariance, <1>1, PTL

(* A client never keeps a token whose predecessor still opens the API.     *)
THEOREM PredecessorDead == Spec => []ReplacedTokenDead
<1>1. IInv => ReplacedTokenDead
  BY DEF IInv
<1> QED BY Invariance, <1>1, PTL

-----------------------------------------------------------------------------
(* What makes a token usable, or lets a request with it pass: its claims,  *)
(* its session and the clock.  Handlers can only lose what they had.       *)
LEMMA StaysOver ==
    ASSUME TypeOK, TypeOK', NEW t \in Tokens, Over(t),
           t \in Tokens', issued'[t] = issued[t], now' >= now,
           t \in DOMAIN lastUsed' =>
              t \in DOMAIN lastUsed /\ lastUsed'[t] = lastUsed[t],
           \A h \in Handlers :
              pc'[h] = "touch" /\ req'[h].token = t =>
                 /\ pc[h] = "touch" /\ req[h].token = t
                 /\ req'[h].clock = req[h].clock
    PROVE  Over(t)'
<1> DEFINE k == issued[t].client
           exp == issued[t].born + Ttl(k)
<1>1. /\ now \in Int /\ now' \in Int /\ Idle(k) \in Int /\ exp \in Int
      /\ t \in DOMAIN lastUsed => lastUsed[t] \in Int
  <2>1. issued[t] \in Claims
    BY DEF TypeOK, Tokens
  <2>2. Idle(k) \in Int /\ Ttl(k) \in Int
    BY SessionsAssumption DEF Idle, Ttl
  <2>3. now \in Int /\ now' \in Int /\ (t \in DOMAIN lastUsed => lastUsed[t] \in Int)
    BY DEF TypeOK
  <2>4. issued[t].born \in Int
    BY <2>1 DEF Claims
  <2> HIDE DEF k
  <2> QED BY <2>2, <2>3, <2>4
<1>2. Verifies(t)' => Verifies(t)
  <2>1. /\ Verifies(t) <=> now <= exp
        /\ Verifies(t)' <=> now' <= exp
    BY DEF Verifies, Ttl
  <2> HIDE DEF exp
  <2> QED BY <1>1, <2>1
<1>3. \A m : t \in DOMAIN lastUsed' /\ lastUsed'[t] >= m - Idle(issued'[t].client)
              => Alive(t, m)
  BY DEF Alive
<1>4. Alive(t, now)' => Alive(t, now)
  <2> SUFFICES ASSUME Alive(t, now)' PROVE Alive(t, now)
    OBVIOUS
  <2>1. t \in DOMAIN lastUsed /\ lastUsed[t] >= now' - Idle(k)
    BY DEF Alive, Idle, Clients
  <2>2. lastUsed[t] >= now - Idle(k)
    <3> HIDE DEF k
    <3> QED BY <1>1, <2>1
  <2> QED BY <2>1, <2>2 DEF Alive
<1>5. ~Usable(t)'
  BY <1>2, <1>4 DEF Over, Usable
<1>6. ASSUME NEW h \in Handlers PROVE ~Passing(h, t)'
  <2> SUFFICES ASSUME Passing(h, t)' PROVE Passing(h, t)
    BY DEF Over
  <2>1. /\ pc'[h] = "touch" /\ req'[h].token = t /\ Verifies(t)'
        /\ t \in DOMAIN lastUsed'
        /\ lastUsed'[t] >= req'[h].clock - Idle(issued'[t].client)
    BY DEF Passing, Alive, Idle
  <2>2. /\ pc[h] = "touch" /\ req[h].token = t
        /\ req'[h].clock = req[h].clock
    BY <2>1
  <2>3. Alive(t, req[h].clock)
    BY <2>1, <2>2, <1>3
  <2> QED BY <1>2, <2>1, <2>2, <2>3 DEF Passing
<1> QED BY <1>5, <1>6 DEF Over

(* No step revives a login that is over.                                   *)
THEOREM OverStepsOver ==
    ASSUME IInv, IInv', [Next]_vars, NEW t \in Tokens, Over(t)
    PROVE  Over(t)'
<1>1. /\ TypeOK /\ TypeOK' /\ now \in Int /\ t \in 1..Len(issued)
  BY DEF IInv, TypeOK, Tokens
<1>2. ASSUME issued' = issued, now' >= now,
             t \in DOMAIN lastUsed' =>
                t \in DOMAIN lastUsed /\ lastUsed'[t] = lastUsed[t],
             \A h \in Handlers : pc'[h] = "touch" => pc[h] = "touch" /\ req'[h] = req[h]
      PROVE  Over(t)'
  BY <1>1, <1>2, StaysOver DEF Tokens
<1>3. ASSUME NEW h \in Handlers, UNCHANGED <<issued, now>>,
             t \in DOMAIN lastUsed' =>
                t \in DOMAIN lastUsed /\ lastUsed'[t] = lastUsed[t],
             NEW l \in Labels \ {"touch"}, NEW r,
             pc' = [pc EXCEPT ![h] = l], req' = [req EXCEPT ![h] = r]
      PROVE  Over(t)'
  <2>1. \A g \in Handlers : pc'[g] = "touch" => pc[g] = "touch" /\ req'[g] = req[g]
    BY <1>3 DEF IInv, TypeOK
  <2> QED BY <1>1, <1>2, <1>3, <2>1
<1>4. ASSUME NEW h \in Handlers, Verify(h) PROVE Over(t)'
  <2>1. UNCHANGED <<issued, now, lastUsed>> /\ pc[h] = "auth"
    BY <1>4 DEF Verify
  <2>2. CASE ~LookAndGoTo(h, "touch")
    <3>1. \E result : Reply(h, result)
      BY <1>4, <2>2 DEF Verify
    <3> QED BY <1>3, <2>1, <3>1 DEF Reply, Labels
  <2>3. CASE LookAndGoTo(h, "touch")
    <3>1. /\ pc'[h] = "touch" /\ req'[h].clock = now /\ req'[h].token = req[h].token
          /\ \A g \in Handlers \ {h} : pc'[g] = pc[g] /\ req'[g] = req[g]
      <4>1. req[h] \in Request /\ DOMAIN req = Handlers /\ DOMAIN pc = Handlers
        BY <2>1 DEF IInv, TypeOK
      <4> QED BY <2>3, <4>1 DEF LookAndGoTo, Request
    <3>2. ~Passing(h, t)'
      <4> SUFFICES ASSUME Passing(h, t)' PROVE Usable(t)
        BY DEF Over
      <4>1. Verifies(t) /\ Alive(t, now)
        BY <2>1, <3>1 DEF Passing, Verifies, Alive
      <4> QED BY <4>1 DEF Usable
    <3>3. \A g \in Handlers \ {h} : ~Passing(g, t)'
      BY <2>1, <3>1 DEF Over, Passing, Verifies, Alive
    <3>4. ~Usable(t)'
      BY <2>1 DEF Over, Usable, Verifies, Alive
    <3> QED BY <3>2, <3>3, <3>4 DEF Over
  <2> QED BY <2>2, <2>3
<1>5. ASSUME NEW h \in Handlers, Authenticate(h) PROVE Over(t)'
  <2>1. UNCHANGED <<issued, now>> /\ pc[h] = "touch"
    BY <1>5 DEF Authenticate
  <2>2. \E l \in Labels \ {"touch"} : \E r :
           pc' = [pc EXCEPT ![h] = l] /\ req' = [req EXCEPT ![h] = r]
    BY <1>5 DEF Authenticate, Reply, LookAndGoTo, Labels
  <2>3. CASE t # req[h].token \/ UNCHANGED lastUsed
    <3>1. t \in DOMAIN lastUsed' => t \in DOMAIN lastUsed /\ lastUsed'[t] = lastUsed[t]
      BY <1>5, <2>3 DEF Authenticate, Touch
    <3> QED BY <1>3, <2>1, <2>2, <3>1
  <2>4. CASE t = req[h].token /\ Accepted(h)
    <3>1. ~Verifies(t)
      BY <2>1, <2>4 DEF Over, Passing, Accepted
    <3>2. ~Verifies(t)'
      BY <2>1, <3>1 DEF Verifies
    <3> QED BY <3>2 DEF Over, Usable, Passing
  <2> QED BY <1>5, <2>3, <2>4 DEF Authenticate
<1>6. ASSUME NEW h \in Handlers, Create(h) PROVE Over(t)'
  <2>1. Evolves /\ Len(issued') = Len(issued) + 1
    BY <1>6, CreateEvolves DEF IInv, Locals
  <2>2. t # Len(issued) + 1
    BY <1>1 DEF TypeOK
  <2>3. t \in DOMAIN lastUsed' => t \in DOMAIN lastUsed /\ lastUsed'[t] = lastUsed[t]
    BY <1>6, <2>2 DEF Create, Insert
  <2>4. now' >= now
    BY <1>1, <1>6 DEF Create
  <2>5. \A g \in Handlers : pc'[g] = "touch" => pc[g] = "touch" /\ req'[g] = req[g]
    <3>1. /\ DOMAIN pc = Handlers /\ DOMAIN req = Handlers
          /\ pc'[h] # "touch"
          /\ \A g \in Handlers \ {h} : pc'[g] = pc[g] /\ req'[g] = req[g]
      BY <1>6 DEF Create, IInv, TypeOK
    <3> QED BY <3>1
  <2> QED BY <1>1, <2>1, <2>3, <2>4, <2>5, StaysOver DEF Evolves
<1>7. ASSUME NEW h \in Handlers, DeleteOld(h) \/ CleanUp(h) PROVE Over(t)'
  <2>1. /\ t \in DOMAIN lastUsed' => t \in DOMAIN lastUsed /\ lastUsed'[t] = lastUsed[t]
        /\ UNCHANGED <<issued, now>>
    BY <1>7 DEF DeleteOld, CleanUp, Drop
  <2>2. \E r : pc' = [pc EXCEPT ![h] = "reply"] /\ req' = [req EXCEPT ![h] = r]
    BY <1>7 DEF DeleteOld, CleanUp, Reply
  <2> QED BY <1>3, <2>1, <2>2 DEF Labels
<1>8. ASSUME NEW h \in Handlers,
             \/ \E c \in Clients, op \in Ops : Begin(h, c, op)
             \/ Admit(h) \/ Fail(h) \/ Deliver(h) \/ Reopen(h) \/ Lose(h)
      PROVE  Over(t)'
  <2>1. UNCHANGED <<issued, now, lastUsed>>
    BY <1>8 DEF Begin, Admit, Fail, Deliver, Reopen, Lose
  <2>2. \E l \in Labels \ {"touch"} : \E r :
           pc' = [pc EXCEPT ![h] = l] /\ req' = [req EXCEPT ![h] = r]
    <3>1. req = [req EXCEPT ![h] = req[h]]
      BY DEF IInv, TypeOK
    <3> QED BY <1>8, <3>1 DEF Begin, Admit, Fail, Deliver, Reopen, Lose, Reply, Return,
                              GoTo, LookAndGoTo, Labels
  <2> QED BY <1>3, <2>1, <2>2
<1>9. CASE \/ \E c \in Browsers : Logout(c)
           \/ Tick \/ UNCHANGED vars
  BY <1>1, <1>2, <1>9 DEF Logout, Tick, vars
<1> QED BY <1>4, <1>5, <1>6, <1>7, <1>8, <1>9 DEF Next

(* A login that is over - idle, expired, renewed - and that no request     *)
(* under way found alive is never revived.                                 *)
THEOREM LoginsStayOver == Spec => NoRevival
<1>1. IInv /\ IInv' /\ [Next]_vars => [\A t \in Tokens : Over(t) => Over(t)']_vars
  BY OverStepsOver
<1> QED BY <1>1, Invariance, PTL DEF Spec, NoRevival

=============================================================================
