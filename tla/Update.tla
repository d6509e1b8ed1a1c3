------------------------------- MODULE Update -------------------------------
(***************************************************************************)
(* Self-update of the agents of one Linux machine                          *)
(* (gamiscreen-client/src/update.rs, platform/linux/mod.rs).  An agent     *)
(* looks for an update once, before it meters anything: it asks the server *)
(* for its version, picks a release, downloads and verifies it, renames it *)
(* over the binary all agents share, and executes that.  A failure leaves  *)
(* it running what it runs.  systemd starts an agent that has ended.       *)
(*                                                                         *)
(* Versions are <<major, minor, patch>>.  A file is the version it was     *)
(* built from and whether all of it is there.  A staged file belongs to one*)
(* process and nobody else reads it.                                       *)
(***************************************************************************)
EXTENDS Integers, FiniteSets

CONSTANTS
    None,        \* nothing
    Agents,      \* the agents, one for each user
    First,       \* the version that was installed by hand
    Servers,     \* versions the server may have
    Releases,    \* releases that may be published on GitHub
    MaxChanges,  \* bound: new releases and new versions of the server
    MaxKills,    \* bound: agents that are ended from outside
    MaxFaults    \* bound: renames and execs that fail

Version == Nat \X Nat \X Nat
File == [version : Version, whole : BOOLEAN]

(* listed: neither draft nor prerelease, and the tag is a plain version.   *)
(* asset: the client's files that come with a digest are for this platform,*)
(* or for others only, or there are none.                                  *)
Release == [version : Version, listed : BOOLEAN,
            asset : {"own", "foreign", "none"}]

ASSUME UpdateAssumption ==
    /\ First \in Version
    /\ Servers \subseteq Version /\ Servers # {}
    /\ Releases \subseteq Release
    /\ {MaxChanges, MaxKills, MaxFaults} \subseteq Nat
    /\ None \notin Version \cup File

VARIABLES
    server,     \* the version the server has
    published,  \* the releases GitHub lists
    exe,        \* the file all agents are started from
    agent,      \* each agent: its stage, its version, the server's version it
                \* was told, its target, its file
    told,       \* history: the versions the server has had
    spent       \* how much of each bound is used up

vars == <<server, published, exe, agent, told, spent>>

Stages == {"off", "ask", "choose", "fetch", "install", "exec", "meter"}
Unspent == [changes |-> 0, kills |-> 0, faults |-> 0]

Off == [at |-> "off", version |-> First, asked |-> None, target |-> None,
        file |-> None]

Init ==
    /\ server \in Servers
    /\ published = {}
    /\ exe = [version |-> First, whole |-> TRUE]
    /\ agent = [a \in Agents |-> Off]
    /\ told = {server}
    /\ spent = Unspent

Spend(bound, max) ==
    /\ spent[bound] < max
    /\ spent' = [spent EXCEPT ![bound] = @ + 1]

-----------------------------------------------------------------------------
(* The order of semver::Version.                                           *)
Later(v, w) ==
    \/ v[1] > w[1]
    \/ v[1] = w[1] /\ v[2] > w[2]
    \/ v[1] = w[1] /\ v[2] = w[2] /\ v[3] > w[3]

(* is_compatible.                                                          *)
IsCompatible(client, srv) ==
    /\ client[1] = srv[1]
    /\ srv[1] = 0 => client[2] = srv[2]
    /\ ~Later(client, srv)

(* Fault: the version that runs is offered again.                          *)
Candidates_Same(current, asked) ==
    {r \in published : /\ r.listed /\ r.asset # "none"
                       /\ IsCompatible(r.version, asked)
                       /\ ~Later(current, r.version)}

(* collect_candidates, when every digest is fetched.                       *)
Candidates(current, asked) ==
    {r \in published : /\ r.listed /\ r.asset # "none"
                       /\ IsCompatible(r.version, asked)
                       /\ Later(r.version, current)}

(* select_asset takes the highest version and looks for this platform's    *)
(* file in that release only.                                              *)
Selected(seen) ==
    {r \in seen : /\ r.asset = "own"
                  /\ \A o \in seen : ~Later(o.version, r.version)}

-----------------------------------------------------------------------------
(* The stages of maybe_self_update.                                        *)
Becomes(a, at, target, file) ==
    agent' = [agent EXCEPT ![a] = [at |-> at, version |-> agent[a].version,
                                   asked |-> None, target |-> target,
                                   file |-> file]]

(* Fault: giving up keeps the target.                                      *)
GiveUp_Keeps(a) == Becomes(a, "meter", agent[a].target, None)

(* No answer, no release, a failed download or another digest: the agent   *)
(* goes on with the binary it runs.                                        *)
GiveUp(a) == Becomes(a, "meter", None, None)

(* fetch_server_version.                                                   *)
Ask(a) ==
    /\ agent[a].at = "ask"
    /\ \/ agent' = [agent EXCEPT
                      ![a] = [at |-> "choose", version |-> agent[a].version,
                              asked |-> server, target |-> None, file |-> None]]
       \/ GiveUp(a)
    /\ UNCHANGED <<server, published, exe, told, spent>>

(* The releases are listed and their digests fetched, while the server may *)
(* already have another version.  A release whose digests do not come is   *)
(* passed over, and a lower one may be taken.                              *)
Choose(a) ==
    /\ agent[a].at = "choose"
    /\ \/ \E seen \in SUBSET Candidates(agent[a].version, agent[a].asked) :
            \E r \in Selected(seen) : Becomes(a, "fetch", r.version, None)
       \/ GiveUp(a)
    /\ UNCHANGED <<server, published, exe, told, spent>>

(* Fault: the digest is not compared.                                      *)
Verified_Any(file) == TRUE

(* verify_sha256: the digest of the release tells any other content.       *)
Verified(file) == file.whole

(* Download, verify, unpack, stage.                                        *)
Fetch(a) ==
    /\ agent[a].at = "fetch"
    /\ \/ \E whole \in BOOLEAN :
            LET file == [version |-> agent[a].target, whole |-> whole] IN
            /\ Verified(file)
            /\ Becomes(a, "install", agent[a].target, file)
       \/ GiveUp(a)
    /\ UNCHANGED <<server, published, exe, told, spent>>

Ends(a) == agent' = [agent EXCEPT ![a] = Off]

(* replace_and_restart: an atomic rename, or the agent exits.              *)
Install(a) ==
    /\ agent[a].at = "install"
    /\ \/ /\ exe' = agent[a].file
          /\ Becomes(a, "exec", agent[a].target, None)
          /\ UNCHANGED spent
       \/ /\ Spend("faults", MaxFaults)
          /\ Ends(a)
          /\ UNCHANGED exe
    /\ UNCHANGED <<server, published, told>>

(* A process runs the file that is there by now: from its first line.      *)
Loads(a) ==
    /\ exe.whole
    /\ agent' = [agent EXCEPT ![a] = [at |-> "ask", version |-> exe.version,
                                      asked |-> None, target |-> None,
                                      file |-> None]]

Exec(a) ==
    /\ agent[a].at = "exec"
    /\ \/ Loads(a) /\ UNCHANGED spent
       \/ Spend("faults", MaxFaults) /\ Ends(a)
    /\ UNCHANGED <<server, published, exe, told>>

(* systemd: Restart=always.                                                *)
Start(a) ==
    /\ agent[a].at = "off"
    /\ Loads(a)
    /\ UNCHANGED <<server, published, exe, told, spent>>

-----------------------------------------------------------------------------
(* An agent is ended at any point: the user logs out, the machine stops.   *)
Kill(a) ==
    /\ agent[a].at # "off"
    /\ Spend("kills", MaxKills)
    /\ Ends(a)
    /\ UNCHANGED <<server, published, exe, told>>

Publish(r) ==
    /\ r \notin published
    /\ Spend("changes", MaxChanges)
    /\ published' = published \cup {r}
    /\ UNCHANGED <<server, exe, agent, told>>

(* The administrator runs another version of the server, also an older one.*)
ChangeServer(v) ==
    /\ v # server
    /\ Spend("changes", MaxChanges)
    /\ server' = v
    /\ told' = told \cup {v}
    /\ UNCHANGED <<published, exe, agent>>

Local(a) == Install(a) \/ Exec(a) \/ Start(a)

Next ==
    \/ \E a \in Agents : Ask(a) \/ Choose(a) \/ Fetch(a) \/ Local(a) \/ Kill(a)
    \/ \E r \in Releases : Publish(r)
    \/ \E v \in Servers : ChangeServer(v)

Spec == Init /\ [][Next]_vars

(* Steps on the agent's own machine are taken.  The answers of GitHub may  *)
(* take for ever: those requests have no timeout.                          *)
Fairness == \A a \in Agents : WF_vars(Local(a))

FairSpec == Spec /\ Fairness

-----------------------------------------------------------------------------
(* The shape of every variable: an agent keeps the server's version until  *)
(* it has chosen, a target while it updates, and a file of its own between *)
(* the download and the rename.                                            *)
TypeOK ==
    /\ server \in Servers
    /\ published \subseteq Releases
    /\ exe \in File
    /\ agent \in [Agents -> [at : Stages, version : Version,
                             asked : Servers \cup {None},
                             target : Version \cup {None},
                             file : File \cup {None}]]
    /\ \A a \in Agents :
         /\ agent[a].asked # None <=> agent[a].at = "choose"
         /\ agent[a].target # None <=> agent[a].at \in {"fetch", "install", "exec"}
         /\ agent[a].file # None <=> agent[a].at = "install"
    /\ told \subseteq Servers
    /\ spent \in [DOMAIN Unspent -> Nat]

(* Whatever was downloaded, whoever was killed in the middle and however   *)
(* many agents update at once, the shared binary is always whole, and it is*)
(* the first one or a listed release for this platform that fitted a       *)
(* version the server has had.                                             *)
InstalledGood ==
    /\ exe.whole
    /\ \/ exe.version = First
       \/ /\ \E r \in published :
               r.version = exe.version /\ r.listed /\ r.asset = "own"
          /\ \E v \in told : IsCompatible(exe.version, v)

(* Updates come to an end: no agent restarts for ever instead of metering, *)
(* also when several agents replace the binary in turns.                   *)
UpdatesEnd == \A a \in Agents : <>[](agent[a].at \notin {"install", "exec"})

=============================================================================
