----------------------------- MODULE SshConnect -----------------------------
(***************************************************************************)
(* Connecting to a switch over SSH, directly or through jump hosts: the    *)
(* attempts of connect_with_retry and the timeout that cuts one off        *)
(* (ssh/client.rs), the chain of jump hosts (ssh/jump_chain.rs) and the    *)
(* port forwards, each a task that lives on its own (ssh/jump_host.rs).    *)
(*                                                                         *)
(* One client object makes all the attempts; what an attempt leaves in it  *)
(* the next one finds.  What it does once connected is CommandShell; the   *)
(* two are the halves of one client, and a module may extend both.         *)
(***************************************************************************)
EXTENDS Naturals, Sequences, FiniteSets

CONSTANTS
  Credentials,  \* records [jump_hosts, has_auth]; a jump host is [explicit, embedded, env, methods]
  MaxRetries    \* settings.max_retries

NoUser == "none"

JumpHost == [explicit : STRING, embedded : STRING, env : STRING,
             methods : SUBSET {"key", "password"}]

ASSUME ConnectAssumption ==
  /\ Credentials \subseteq [jump_hosts : Seq(JumpHost), has_auth : BOOLEAN]
  /\ MaxRetries \in Nat

VARIABLES
  jump_hosts,   \* the chain that is configured, <<>> for a direct connection
  has_auth,     \* is there a password or a key for the switch?
  addr,         \* self.host and self.port: "switch" or "tunnel"
  original,     \* original_host and original_port of the attempt
  stage,        \* the step of the attempt
  attempt,      \* its number
  chain,        \* jump sessions the attempt or the client holds, as <<attempt, hop>>
  tasks,        \* the port forwards that run: <<attempt, hop>> -> [state, to]
  session,      \* self.session: {} or what it leads to, {[to, via]}
  cutInTunnel   \* was an attempt cut off while addr was the tunnel's? (history)

connectVars ==
  <<jump_hosts, has_auth, addr, original, stage, attempt, chain, tasks, session, cutInTunnel>>

Hop == Len(jump_hosts)
Id(hop) == <<attempt, hop>>

(***************************************************************************)
(* resolve_jump_host: who logs in to a jump host.                          *)
(***************************************************************************)
resolve_username(j, target) ==
  CASE j.explicit # NoUser -> j.explicit
    [] j.explicit = NoUser /\ j.embedded # NoUser -> j.embedded
    [] j.explicit = NoUser /\ j.embedded = NoUser /\ j.env # NoUser -> j.env
    [] OTHER -> target

\* Key first, then password; an error of the one does not keep from the other.
\* Without either there is nothing to try.
authenticate(j, accepted) ==
  \E m \in j.methods : m \in accepted /\ resolve_username(j, "admin") # NoUser

ConnectInit ==
  /\ \E c \in Credentials : jump_hosts = c.jump_hosts /\ has_auth = c.has_auth
  /\ addr = "switch" /\ original = "switch" /\ stage = "attempt" /\ attempt = 1
  /\ chain = {} /\ tasks = <<>> /\ session = {} /\ cutInTunnel = FALSE

\* The attempt ends without a connection: what it held itself is dropped.  A
\* forward is a task of its own; it is not.
AttemptEnds ==
  /\ stage' = "retry" /\ chain' = {}
  /\ UNCHANGED <<jump_hosts, has_auth, attempt>>

(***************************************************************************)
(* connect_with_credentials_unbounded.                                     *)
(***************************************************************************)
connect_with_credentials ==
  /\ stage = "attempt"
  /\ IF jump_hosts = <<>> /\ ~ has_auth
     THEN AttemptEnds /\ UNCHANGED <<addr, original, tasks, session, cutInTunnel>>
     ELSE /\ stage' = IF jump_hosts = <<>> THEN "target" ELSE "hop"
          /\ UNCHANGED <<jump_hosts, has_auth, addr, original, attempt, chain, tasks, session,
                         cutInTunnel>>

(***************************************************************************)
(* JumpHostChain::establish, one hop: every hop is connected directly; it  *)
(* forwards a port to the next hop, the last one to self.host:self.port.   *)
(* Once the chain stands the client points itself at its end, where it     *)
(* connects at once, so that the last forward accepts.  Without credentials*)
(* for the switch it gives up there.                                       *)
(***************************************************************************)
hop == Cardinality(chain) + 1

Forward(h) ==
  [state |-> IF h = Hop /\ has_auth THEN "piping" ELSE "accepting",
   to |-> CASE h < Hop -> "jump host"
            [] h = Hop /\ addr = "switch" -> "switch"
            [] h = Hop /\ addr = "tunnel" -> "jump host's own port"]

establish ==
  /\ stage = "hop"
  /\ \E accepted \in SUBSET {"key", "password"} : authenticate(jump_hosts[hop], accepted)
  /\ tasks' = [id \in DOMAIN tasks \cup {Id(hop)} |->
                 IF id = Id(hop) THEN Forward(hop) ELSE tasks[id]]
  /\ IF hop = Hop THEN original' = addr /\ addr' = "tunnel" ELSE UNCHANGED <<original, addr>>
  /\ IF hop = Hop /\ ~ has_auth
     THEN AttemptEnds
     ELSE /\ chain' = chain \cup {Id(hop)}
          /\ stage' = IF hop = Hop THEN "target" ELSE "hop"
          /\ UNCHANGED <<jump_hosts, has_auth, attempt>>
  /\ UNCHANGED <<session, cutInTunnel>>

establish_fails ==
  /\ stage = "hop"
  /\ AttemptEnds
  /\ UNCHANGED <<addr, original, tasks, session, cutInTunnel>>

(***************************************************************************)
(* connect_with_password and connect_with_key: the session of an earlier   *)
(* attempt is dropped for the new one; the shell may still fail to open.   *)
(***************************************************************************)
Reached ==
  IF jump_hosts = <<>> THEN [to |-> "switch", via |-> <<0, 0>>]
  ELSE [to |-> tasks[Id(Hop)].to, via |-> Id(Hop)]

connect_target ==
  /\ stage = "target"
  /\ jump_hosts # <<>> => Id(Hop) \in DOMAIN tasks
  /\ session' = {Reached}
  /\ stage' = "shell"
  /\ UNCHANGED <<jump_hosts, has_auth, addr, original, attempt, chain, tasks, cutInTunnel>>

\* Host and port become what they were before the tunnel.
\* Mutant of Restored: only when the connection succeeded.
RestoredOnSuccess(ok) == IF ok THEN original ELSE addr

Restored(ok) == original

target_fails ==
  /\ stage \in {"target", "shell"}
  /\ addr' = Restored(FALSE)
  /\ AttemptEnds
  /\ UNCHANGED <<original, tasks, session, cutInTunnel>>

open_shell ==
  /\ stage = "shell"
  /\ addr' = Restored(TRUE)
  /\ stage' = "connected"
  /\ UNCHANGED <<jump_hosts, has_auth, original, attempt, chain, tasks, session, cutInTunnel>>

\* tokio::time::timeout drops the attempt where it stands; nothing is restored.
TimesOut ==
  /\ stage \in {"hop", "target", "shell"}
  /\ cutInTunnel' = (cutInTunnel \/ addr = "tunnel")
  /\ AttemptEnds
  /\ UNCHANGED <<addr, original, tasks, session>>

(***************************************************************************)
(* connect_with_retry; at the end the vendor drops the client.             *)
(***************************************************************************)
connect_with_retry ==
  /\ stage = "retry"
  /\ IF attempt < MaxRetries
     THEN stage' = "attempt" /\ attempt' = attempt + 1 /\ session' = session
     ELSE stage' = "failed" /\ attempt' = attempt /\ session' = {}
  /\ UNCHANGED <<jump_hosts, has_auth, addr, original, chain, tasks, cutInTunnel>>

\* An error of the first half leaves the second out, but the client is dropped then.
disconnect ==
  /\ stage = "connected"
  /\ stage' = "closed" /\ session' = {} /\ chain' = {}
  /\ UNCHANGED <<jump_hosts, has_auth, addr, original, attempt, tasks, cutInTunnel>>

(***************************************************************************)
(* create_port_forward's task: it accepts one connection and pipes it, and *)
(* it ends when either side does.  Until then it holds the jump session.   *)
(***************************************************************************)
InUse(id) ==
  \/ \E s \in session : s.via = id
  \/ stage = "target" /\ id = Id(Hop)

Without(f, id) == [x \in DOMAIN f \ {id} |-> f[x]]

\* Mutant of TaskEnds: the forward accepts another connection.
TaskAcceptsAgain(id) ==
  /\ id \in DOMAIN tasks
  /\ tasks[id].state = "piping" /\ ~ InUse(id)
  /\ tasks' = [tasks EXCEPT ![id].state = "accepting"]
  /\ UNCHANGED <<jump_hosts, has_auth, addr, original, stage, attempt, chain, session, cutInTunnel>>

TaskEnds(id) ==
  /\ id \in DOMAIN tasks
  /\ tasks[id].state = "piping" /\ ~ InUse(id)
  /\ tasks' = Without(tasks, id)
  /\ UNCHANGED <<jump_hosts, has_auth, addr, original, stage, attempt, chain, session, cutInTunnel>>

\* The jump host cannot reach the target, or closes the channel.
ChannelEnds(id) ==
  /\ id \in DOMAIN tasks /\ tasks[id].state = "piping" /\ stage = "target" /\ id = Id(Hop)
  /\ tasks' = Without(tasks, id)
  /\ addr' = Restored(FALSE)
  /\ AttemptEnds
  /\ UNCHANGED <<original, session, cutInTunnel>>

Connects ==
  \/ connect_with_credentials \/ establish \/ establish_fails \/ connect_target
  \/ target_fails \/ open_shell \/ connect_with_retry

Ids == (1..MaxRetries) \X (1..Hop)
ConnectStopped == stage \in {"failed", "closed"} /\ UNCHANGED connectVars

ConnectNext == Connects \/ TimesOut \/ disconnect
        \/ (\E id \in Ids : TaskEnds(id) \/ ChannelEnds(id)) \/ ConnectStopped

\* Every wait of an attempt is under the timeout, and a forward notices that its
\* connection is gone.  Nothing makes the client disconnect.
ConnectFairness ==
  /\ WF_connectVars(Connects)
  /\ \A a \in 1..MaxRetries, h \in 1..2 : WF_connectVars(TaskEnds(<<a, h>>))

ConnectSpec == ConnectInit /\ [][ConnectNext]_connectVars /\ ConnectFairness

(***************************************************************************)
(* Properties.                                                             *)
(***************************************************************************)
JumpSessions == chain \cup DOMAIN tasks

\* A connected client talks to the switch it is for, not to a port of the jump
\* host, unless an earlier attempt was cut off while it pointed at its tunnel
\* (the timeout restores nothing).
ReachesTheSwitch ==
  stage = "connected" /\ ~ cutInTunnel => \A s \in session : s.to = "switch"

\* When a client with one jump host is done, whether it failed, was cut off or
\* was closed, its sessions on the jump host end: no forward stays behind and
\* holds one.  (In a longer chain nobody connects to the forwards of the earlier
\* hops, and without credentials for the switch nobody connects to any: those
\* wait, and hold their sessions, for as long as the program runs.)
JumpSessionsGo ==
  stage \in {"failed", "closed"} /\ Hop <= 1 /\ has_auth ~> JumpSessions = {}

(***************************************************************************)
(* What makes ReachesTheSwitch inductive.                                  *)
(***************************************************************************)
Undisturbed == has_auth /\ ~ cutInTunnel

\* Between two attempts, and while the hops are connected, host and port are
\* those of the switch.
AddressIsRestored ==
  Undisturbed => /\ original = "switch"
                 /\ addr = "switch" \/ (addr = "tunnel" /\ stage \in {"target", "shell"})

\* The last forward of every attempt, those of earlier ones too, leads to the switch.
LastForwardsLeadThere ==
  Undisturbed => \A id \in DOMAIN tasks : id[2] = Hop => tasks[id].to = "switch"

SessionLeadsThere == Undisturbed => \A s \in session : s.to = "switch"

\* Without credentials nothing is connected.
NothingWithoutAuth == ~ has_auth => stage \in {"attempt", "hop", "retry", "failed"}

ConnectInv ==
  /\ jump_hosts \in Seq(JumpHost) /\ has_auth \in BOOLEAN
  /\ AddressIsRestored
  /\ LastForwardsLeadThere
  /\ SessionLeadsThere
  /\ NothingWithoutAuth
=============================================================================
