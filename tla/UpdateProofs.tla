---------------------------- MODULE UpdateProofs ----------------------------
(***************************************************************************)
(* What is proved about Update, for any agents, versions and releases.  The*)
(* invariant follows a binary from the choice of its release to the rename:*)
(* a target is a release that fitted the server, and a staged file is the  *)
(* whole of its target.                                                    *)
(***************************************************************************)
EXTENDS Update, TLAPS

(* A release for this platform that fitted a version of the server.        *)
Fits(v) ==
    /\ \E r \in published : r.version = v /\ r.listed /\ r.asset = "own"
    /\ \E w \in told : IsCompatible(v, w)

Sound(a) ==
    /\ agent[a].at = "choose" => agent[a].asked \in told
    /\ agent[a].at \in {"fetch", "install", "exec"} => Fits(agent[a].target)
    /\ agent[a].at = "install" =>
         agent[a].file = [version |-> agent[a].target, whole |-> TRUE]

IInv ==
    /\ TypeOK
    /\ server \in told
    /\ exe.whole
    /\ exe.version = First \/ Fits(exe.version)
    /\ \A a \in Agents : Sound(a)

-----------------------------------------------------------------------------
AgentRecord == [at : Stages, version : Version, asked : Servers \cup {None},
                target : Version \cup {None}, file : File \cup {None}]

Coherent(p) ==
    /\ p \in AgentRecord
    /\ p.asked # None <=> p.at = "choose"
    /\ p.target # None <=> p.at \in {"fetch", "install", "exec"}
    /\ p.file # None <=> p.at = "install"

(* The type of the agents is that of each of them.                         *)
LEMMA TypeByAgent ==
    TypeOK <=>
      /\ server \in Servers /\ published \subseteq Releases /\ exe \in File
      /\ DOMAIN agent = Agents /\ agent = [a \in Agents |-> agent[a]]
      /\ \A a \in Agents : Coherent(agent[a])
      /\ told \subseteq Servers
      /\ spent \in [DOMAIN Unspent -> Nat]
BY DEF TypeOK, Coherent, AgentRecord

(* A step of one agent that leaves the others, the server and the releases *)
(* alone keeps the invariant if that agent and the binary end up sound.    *)
LEMMA OneAgent ==
    ASSUME IInv, NEW a \in Agents, NEW p,
           agent' = [agent EXCEPT ![a] = p],
           Coherent(p),
           p.at = "choose" => p.asked \in told,
           p.at \in {"fetch", "install", "exec"} => Fits(p.target),
           p.at = "install" =>
             p.file = [version |-> p.target, whole |-> TRUE],
           exe' \in File, exe'.whole,
           exe'.version = First \/ Fits(exe'.version),
           spent' \in [DOMAIN Unspent -> Nat],
           UNCHANGED <<server, published, told>>
    PROVE  IInv'
<1>1. /\ DOMAIN agent = Agents
      /\ \A b \in Agents : Coherent(agent[b])
      /\ server \in Servers /\ published \subseteq Releases
      /\ told \subseteq Servers
  BY TypeByAgent DEF IInv
<1>2. agent'[a] = p /\ \A b \in Agents : b # a => agent'[b] = agent[b]
  BY <1>1
<1>3. DOMAIN agent' = Agents /\ agent' = [b \in Agents |-> agent'[b]]
  BY <1>1
<1>4. \A b \in Agents : Coherent(agent'[b])
  BY <1>1, <1>2
<1>5. TypeOK'
  <2>1. (/\ server \in Servers /\ published \subseteq Releases /\ exe \in File
         /\ DOMAIN agent = Agents /\ agent = [b \in Agents |-> agent[b]]
         /\ \A b \in Agents : Coherent(agent[b])
         /\ told \subseteq Servers
         /\ spent \in [DOMAIN Unspent -> Nat])'
    BY <1>1, <1>3, <1>4 DEF Coherent
  <2> QED  BY <2>1 DEF TypeOK, Coherent, AgentRecord
<1>6. \A v : Fits(v) => Fits(v)'
  BY DEF Fits, IsCompatible, Later
<1>7. \A b \in Agents : Sound(b)'
  <2>1. Sound(a)'
    <3>1. agent'[a].at = p.at /\ agent'[a].asked = p.asked
          /\ agent'[a].target = p.target /\ agent'[a].file = p.file
      BY <1>2
    <3>2. told' = told
      OBVIOUS
    <3>3. p.at \in {"fetch", "install", "exec"} => Fits(p.target)'
      BY <1>6
    <3> QED  BY <3>1, <3>2, <3>3 DEF Sound
  <2>2. ASSUME NEW b \in Agents, b # a PROVE Sound(b)'
    BY <2>2, <1>2, <1>6 DEF Sound, IInv
  <2> QED  BY <2>1, <2>2
<1> QED
  BY <1>5, <1>6, <1>7 DEF IInv

(* A step of the world around the agents.                                  *)
LEMMA Around ==
    ASSUME IInv, UNCHANGED <<exe, agent>>,
           published \subseteq published', published' \subseteq Releases,
           told \subseteq told', told' \subseteq Servers, server' \in told',
           spent' \in [DOMAIN Unspent -> Nat]
    PROVE  IInv'
<1>1. \A v : Fits(v) => Fits(v)'
  BY DEF Fits, IsCompatible, Later
<1>2. TypeOK'
  BY DEF TypeOK, IInv
<1>3. \A a \in Agents : Sound(a)'
  BY <1>1 DEF Sound, IInv
<1> QED
  BY <1>1, <1>2, <1>3 DEF IInv

-----------------------------------------------------------------------------
(* Using up a bound keeps the counters natural.                            *)
LEMMA SpendType ==
    ASSUME spent \in [DOMAIN Unspent -> Nat], NEW b \in DOMAIN Unspent, NEW max,
           Spend(b, max)
    PROVE  spent' \in [DOMAIN Unspent -> Nat]
BY DEF Spend

(* An agent that is off has neither target nor file.                       *)
LEMMA OffCoherent == Coherent(Off) /\ Off.at = "off"
<1>1. Off \in AgentRecord
  BY UpdateAssumption DEF Off, AgentRecord, Stages, File
<1> QED
  BY <1>1 DEF Coherent, Off

(* What the invariant says of one agent and of the binary.                 *)
LEMMA Facts ==
    ASSUME IInv, NEW a \in Agents
    PROVE  /\ Coherent(agent[a]) /\ Sound(a)
           /\ exe \in File /\ exe.whole
           /\ exe.version = First \/ Fits(exe.version)
           /\ spent \in [DOMAIN Unspent -> Nat]
           /\ published \subseteq Releases /\ server \in told
BY TypeByAgent DEF IInv

(* Going on with the binary that runs.                                     *)
LEMMA GiveUpKeeps ==
    ASSUME IInv, NEW a \in Agents, GiveUp(a),
           UNCHANGED <<server, published, exe, told, spent>>
    PROVE  IInv'
<1> DEFINE p == [at |-> "meter", version |-> agent[a].version, asked |-> None,
                 target |-> None, file |-> None]
<1>1. agent' = [agent EXCEPT ![a] = p]
  BY DEF GiveUp, Becomes
<1>2. Coherent(p)
  BY Facts, UpdateAssumption DEF Coherent, AgentRecord, Stages
<1>3. /\ exe' \in File /\ exe'.whole
      /\ exe'.version = First \/ Fits(exe'.version)
      /\ spent' \in [DOMAIN Unspent -> Nat]
  BY Facts
<1>4. p.at = "meter"
  OBVIOUS
<1> HIDE DEF p
<1> QED
  BY <1>1, <1>2, <1>3, <1>4, OneAgent

(* An agent ends, wherever it was.                                         *)
LEMMA EndsKeeps ==
    ASSUME IInv, NEW a \in Agents, Ends(a),
           UNCHANGED <<server, published, exe, told>>,
           spent' \in [DOMAIN Unspent -> Nat]
    PROVE  IInv'
<1>1. agent' = [agent EXCEPT ![a] = Off]
  BY DEF Ends
<1>2. /\ exe' \in File /\ exe'.whole
      /\ exe'.version = First \/ Fits(exe'.version)
  BY Facts
<1> QED
  BY <1>1, <1>2, OffCoherent, OneAgent

(* An agent starts from the shared binary.                                 *)
LEMMA LoadsKeeps ==
    ASSUME IInv, NEW a \in Agents, Loads(a),
           UNCHANGED <<server, published, exe, told, spent>>
    PROVE  IInv'
<1> DEFINE p == [at |-> "ask", version |-> exe.version, asked |-> None,
                 target |-> None, file |-> None]
<1>1. agent' = [agent EXCEPT ![a] = p]
  BY DEF Loads
<1>2. Coherent(p)
  BY Facts, UpdateAssumption DEF Coherent, AgentRecord, Stages, File
<1>3. /\ exe' \in File /\ exe'.whole
      /\ exe'.version = First \/ Fits(exe'.version)
      /\ spent' \in [DOMAIN Unspent -> Nat]
  BY Facts
<1>4. p.at = "ask"
  OBVIOUS
<1> HIDE DEF p
<1> QED
  BY <1>1, <1>2, <1>3, <1>4, OneAgent

(* What the server answers is a version it has.                            *)
LEMMA AskKeeps ==
    ASSUME IInv, NEW a \in Agents, Ask(a)
    PROVE  IInv'
<1>1. CASE GiveUp(a)
  BY <1>1, GiveUpKeeps DEF Ask
<1> DEFINE p == [at |-> "choose", version |-> agent[a].version,
                 asked |-> server, target |-> None, file |-> None]
<1>2. CASE agent' = [agent EXCEPT ![a] = p]
  <2>1. server \in told /\ server \in Servers /\ server # None
    BY TypeByAgent, UpdateAssumption DEF IInv
  <2>2. Coherent(p)
    BY <2>1, Facts, UpdateAssumption DEF Coherent, AgentRecord, Stages
  <2>3. UNCHANGED <<server, published, exe, told, spent>>
    BY DEF Ask
  <2>4. /\ exe' \in File /\ exe'.whole
        /\ exe'.version = First \/ Fits(exe'.version)
        /\ spent' \in [DOMAIN Unspent -> Nat]
    BY <2>3, Facts
  <2>5. p.at = "choose" /\ p.asked \in told
    BY <2>1
  <2> HIDE DEF p
  <2> QED
    BY <1>2, <2>2, <2>3, <2>4, <2>5, OneAgent
<1> QED
  BY <1>1, <1>2 DEF Ask

(* A chosen release fits the version the server had when it was asked.     *)
LEMMA ChooseKeeps ==
    ASSUME IInv, NEW a \in Agents, Choose(a)
    PROVE  IInv'
<1>1. CASE GiveUp(a)
  BY <1>1, GiveUpKeeps DEF Choose
<1>2. ASSUME NEW seen \in SUBSET Candidates(agent[a].version, agent[a].asked),
             NEW r \in Selected(seen),
             Becomes(a, "fetch", r.version, None)
      PROVE  IInv'
  <2> DEFINE p == [at |-> "fetch", version |-> agent[a].version, asked |-> None,
                   target |-> r.version, file |-> None]
  <2>1. agent' = [agent EXCEPT ![a] = p]
    BY <1>2 DEF Becomes
  <2>2. /\ r \in published /\ r.listed /\ r.asset = "own"
        /\ IsCompatible(r.version, agent[a].asked)
    BY <1>2 DEF Selected, Candidates
  <2>3. r.version \in Version
    BY <2>2, Facts, UpdateAssumption DEF Release
  <2>4. Coherent(p)
    <3>1. p \in AgentRecord
      BY <2>3, Facts DEF Coherent, AgentRecord, Stages
    <3>2. p.target # None
      BY <2>3, UpdateAssumption
    <3> QED  BY <3>1, <3>2 DEF Coherent
  <2>5. Fits(p.target)
    <3>1. agent[a].asked \in told
      BY Facts DEF Choose, Sound
    <3> QED  BY <2>2, <3>1 DEF Fits
  <2>6. UNCHANGED <<server, published, exe, told, spent>>
    BY DEF Choose
  <2>7. /\ exe' \in File /\ exe'.whole
        /\ exe'.version = First \/ Fits(exe'.version)
        /\ spent' \in [DOMAIN Unspent -> Nat]
    BY <2>6, Facts
  <2>8. p.at = "fetch"
    OBVIOUS
  <2> HIDE DEF p
  <2> QED
    BY <2>1, <2>4, <2>5, <2>6, <2>7, <2>8, OneAgent
<1> QED
  BY <1>1, <1>2 DEF Choose

(* Only a verified file is staged, so it is whole.                         *)
LEMMA FetchKeeps ==
    ASSUME IInv, NEW a \in Agents, Fetch(a)
    PROVE  IInv'
<1>1. CASE GiveUp(a)
  BY <1>1, GiveUpKeeps DEF Fetch
<1>2. ASSUME NEW whole \in BOOLEAN,
             Verified([version |-> agent[a].target, whole |-> whole]),
             Becomes(a, "install", agent[a].target,
                     [version |-> agent[a].target, whole |-> whole])
      PROVE  IInv'
  <2> DEFINE f == [version |-> agent[a].target, whole |-> TRUE]
  <2> DEFINE p == [at |-> "install", version |-> agent[a].version, asked |-> None,
                   target |-> agent[a].target, file |-> f]
  <2>1. whole = TRUE
    BY <1>2 DEF Verified
  <2>2. agent' = [agent EXCEPT ![a] = p]
    BY <1>2, <2>1 DEF Becomes
  <2>3. agent[a].at = "fetch"
    BY DEF Fetch
  <2>4. agent[a].target # None /\ agent[a].target \in Version
    BY <2>3, Facts DEF Coherent, AgentRecord
  <2>5. f \in File /\ f # None
    <3>1. f \in File
      BY <2>4 DEF File
    <3>2. None \notin File
      BY UpdateAssumption
    <3> HIDE DEF f
    <3> QED  BY <3>1, <3>2
  <2>6. Coherent(p)
    BY <2>4, <2>5, Facts DEF Coherent, AgentRecord, Stages
  <2>7. Fits(p.target)
    BY <2>3, Facts DEF Sound
  <2>8. UNCHANGED <<server, published, exe, told, spent>>
    BY DEF Fetch
  <2>9. /\ exe' \in File /\ exe'.whole
        /\ exe'.version = First \/ Fits(exe'.version)
        /\ spent' \in [DOMAIN Unspent -> Nat]
    BY <2>8, Facts
  <2>10. p.at = "install" /\ p.file = [version |-> p.target, whole |-> TRUE]
    OBVIOUS
  <2> HIDE DEF p
  <2> QED
    BY <2>2, <2>6, <2>7, <2>8, <2>9, <2>10, OneAgent
<1> QED
  BY <1>1, <1>2 DEF Fetch

(* The rename puts a whole file of a release that fitted in place.         *)
LEMMA InstallKeeps ==
    ASSUME IInv, NEW a \in Agents, Install(a)
    PROVE  IInv'
<1>1. CASE /\ exe' = agent[a].file
           /\ Becomes(a, "exec", agent[a].target, None)
           /\ UNCHANGED spent
  <2> DEFINE p == [at |-> "exec", version |-> agent[a].version, asked |-> None,
                   target |-> agent[a].target, file |-> None]
  <2>1. agent' = [agent EXCEPT ![a] = p]
    BY <1>1 DEF Becomes
  <2>2. /\ agent[a].at = "install"
        /\ UNCHANGED <<server, published, told>>
    BY DEF Install
  <2>3. /\ Fits(agent[a].target)
        /\ agent[a].file = [version |-> agent[a].target, whole |-> TRUE]
    BY <2>2, Facts DEF Sound
  <2>4. agent[a].target # None /\ agent[a].target \in Version
    BY <2>2, Facts DEF Coherent, AgentRecord
  <2>5. Coherent(p)
    BY <2>4, Facts DEF Coherent, AgentRecord, Stages
  <2>6. exe'.version = agent[a].target /\ exe'.whole /\ exe' \in File
    BY <1>1, <2>3, <2>4 DEF File
  <2>7. spent' \in [DOMAIN Unspent -> Nat]
    BY <1>1, Facts
  <2>8. p.at = "exec" /\ p.target = agent[a].target
    OBVIOUS
  <2> HIDE DEF p
  <2> QED
    BY <2>1, <2>2, <2>3, <2>5, <2>6, <2>7, <2>8, OneAgent
<1>2. CASE Spend("faults", MaxFaults) /\ Ends(a) /\ UNCHANGED exe
  <2>1. spent' \in [DOMAIN Unspent -> Nat]
    BY <1>2, Facts, SpendType DEF Unspent
  <2>2. UNCHANGED <<server, published, exe, told>>
    BY <1>2 DEF Install
  <2> QED
    BY <1>2, <2>1, <2>2, EndsKeeps
<1> QED
  BY <1>1, <1>2 DEF Install

(* Executing what is there by now.                                         *)
LEMMA ExecKeeps ==
    ASSUME IInv, NEW a \in Agents, Exec(a)
    PROVE  IInv'
<1>1. CASE Loads(a) /\ UNCHANGED spent
  BY <1>1, LoadsKeeps DEF Exec
<1>2. CASE Spend("faults", MaxFaults) /\ Ends(a)
  <2>1. spent' \in [DOMAIN Unspent -> Nat]
    BY <1>2, Facts, SpendType DEF Unspent
  <2> QED
    BY <1>2, <2>1, EndsKeeps DEF Exec
<1> QED
  BY <1>1, <1>2 DEF Exec

(* An agent is ended from outside.                                         *)
LEMMA KillKeeps ==
    ASSUME IInv, NEW a \in Agents, Kill(a)
    PROVE  IInv'
<1>1. spent' \in [DOMAIN Unspent -> Nat]
  BY Facts, SpendType DEF Kill, Unspent
<1> QED
  BY <1>1, EndsKeeps DEF Kill

(* A new release takes no release away.                                    *)
LEMMA PublishKeeps ==
    ASSUME IInv, NEW r \in Releases, Publish(r)
    PROVE  IInv'
<1>1. /\ spent \in [DOMAIN Unspent -> Nat] /\ published \subseteq Releases
      /\ server \in told /\ told \subseteq Servers
  BY DEF IInv, TypeOK
<1>2. spent' \in [DOMAIN Unspent -> Nat]
  BY <1>1, SpendType DEF Publish, Unspent
<1>3. /\ UNCHANGED <<exe, agent>>
      /\ published \subseteq published' /\ published' \subseteq Releases
      /\ told \subseteq told' /\ told' \subseteq Servers /\ server' \in told'
  BY <1>1 DEF Publish
<1> QED
  BY <1>2, <1>3, Around

(* The versions the server has had only grow.                              *)
LEMMA ChangeServerKeeps ==
    ASSUME IInv, NEW v \in Servers, ChangeServer(v)
    PROVE  IInv'
<1>1. /\ spent \in [DOMAIN Unspent -> Nat] /\ published \subseteq Releases
      /\ server \in told /\ told \subseteq Servers
  BY DEF IInv, TypeOK
<1>2. spent' \in [DOMAIN Unspent -> Nat]
  BY <1>1, SpendType DEF ChangeServer, Unspent
<1>3. /\ UNCHANGED <<exe, agent>>
      /\ published \subseteq published' /\ published' \subseteq Releases
      /\ told \subseteq told' /\ told' \subseteq Servers /\ server' \in told'
  BY <1>1 DEF ChangeServer
<1> QED
  BY <1>2, <1>3, Around

-----------------------------------------------------------------------------
(* The first binary is whole.                                              *)
LEMMA Initially == Init => IInv
<1> SUFFICES ASSUME Init PROVE IInv
  OBVIOUS
<1>1. exe \in File /\ exe.whole /\ exe.version = First
  BY UpdateAssumption DEF Init, File
<1>2. \A a \in Agents : agent[a] = Off
  BY DEF Init
<1>3. spent \in [DOMAIN Unspent -> Nat]
  BY DEF Init, Unspent
<1>4. TypeOK
  BY <1>1, <1>2, <1>3, OffCoherent, TypeByAgent DEF Init
<1>5. \A a \in Agents : Sound(a)
  BY <1>2 DEF Sound, Off
<1> QED
  BY <1>1, <1>4, <1>5 DEF IInv, Init

(* Every step keeps the invariant.                                         *)
LEMMA Inductive == IInv /\ [Next]_vars => IInv'
<1> SUFFICES ASSUME IInv, [Next]_vars PROVE IInv'
  OBVIOUS
<1>1. CASE UNCHANGED vars
  <2>1. UNCHANGED <<exe, agent, published, told, server, spent>>
    BY <1>1 DEF vars
  <2> QED
    BY <2>1, Around DEF IInv, TypeOK
<1>2. ASSUME NEW a \in Agents,
             Ask(a) \/ Choose(a) \/ Fetch(a) \/ Local(a) \/ Kill(a)
      PROVE  IInv'
  <2>1. CASE Choose(a)
    BY <2>1, ChooseKeeps
  <2>2. CASE Fetch(a)
    BY <2>2, FetchKeeps
  <2>3. CASE Install(a)
    BY <2>3, InstallKeeps
  <2>4. CASE Exec(a)
    BY <2>4, ExecKeeps
  <2>5. CASE Start(a)
    BY <2>5, LoadsKeeps DEF Start
  <2>6. CASE Kill(a)
    BY <2>6, KillKeeps
  <2>7. CASE Ask(a)
    BY <2>7, AskKeeps
  <2> QED
    BY <1>2, <2>1, <2>2, <2>3, <2>4, <2>5, <2>6, <2>7 DEF Local
<1>3. ASSUME NEW r \in Releases, Publish(r) PROVE IInv'
  BY <1>3, PublishKeeps
<1>4. ASSUME NEW v \in Servers, ChangeServer(v) PROVE IInv'
  BY <1>4, ChangeServerKeeps
<1> QED
  BY <1>1, <1>2, <1>3, <1>4 DEF Next

(* The variables keep their shape: an agent has a target exactly while it  *)
(* updates and a file exactly before the rename (maybe_self_update).       *)
THEOREM TypeCorrect == Spec => []TypeOK
<1>1. IInv => TypeOK
  BY DEF IInv
<1> QED
  BY Initially, Inductive, <1>1, PTL DEF Spec

(* However many agents replace the shared binary, in whatever order, and   *)
(* wherever one of them is ended, the binary is whole, and the first one or*)
(* a listed release that fitted the server (replace_and_restart).          *)
THEOREM BinaryGood == Spec => []InstalledGood
<1>1. IInv => InstalledGood
  BY DEF IInv, Fits, InstalledGood
<1> QED
  BY Initially, Inductive, <1>1, PTL DEF Spec

=============================================================================
