------------------------------- MODULE Backups -------------------------------
(***************************************************************************)
(* Backups of an application with Percona Backup for MongoDB (PBM).        *)
(* Every unit runs a pbm-agent, which logs in with the password of the     *)
(* backup user; the configuration of PBM and the operation it runs are     *)
(* kept in MongoDB, one for all units.  When the S3 integrator offers new  *)
(* credentials every unit clears that configuration, sets its options one  *)
(* by one, waits until PBM runs nothing and has it resync.  The leader's   *)
(* actions start backups and restores and rotate the password.             *)
(*                                                                         *)
(* A hook or an action goes in steps, one of them at a time on a unit; the *)
(* steps of different units interleave.  What is done to MongoDB or PBM    *)
(* stands at once, a secret is committed only if the action succeeds.      *)
(***************************************************************************)
EXTENDS Naturals

CONSTANTS
  Units,
  FirstLeader,
  Options,       \* options of PBM that come from the S3 integrator
  Starts         \* the deployments to look at, with bounds: credentials offered;
                 \* backups, restores and rotations; commands that fail, hooks killed,
                 \* agents that stop, slow resyncs, changes of leader, refreshes in
                 \* place and removals of the relation

ASSUME UnitsAssumption == FirstLeader \in Units
ASSUME OptionsAssumption == Options # {}
ASSUME StartsAssumption ==
  Starts \subseteq [substrate : {"vm", "k8s"}, chain : BOOLEAN,
                    offers : Nat, actions : Nat, faults : Nat]

VARIABLES
  start,        \* the deployment: its substrate, whether the integrator's credentials
                \* come with a CA chain, and the bounds
  related,      \* there is a relation to the S3 integrator
  offered,      \* the last credentials it offers; 0: none yet
  queue,        \* events before each unit; "late": credentials-changed, deferred
  phase,        \* how far the unit is in its hook or action
  credentials,  \* what set_config_options was given
  left,         \* options it has yet to set
  uri,          \* password its pbm commands use, read once
  config,       \* the options of PBM, by the credentials they are from; 0: not set
  runs,         \* the operation of PBM each agent runs
  synced,       \* the configuration PBM has been resynced with
  active,       \* the agent is up
  agent,        \* password the agent logs in with
  env,          \* the one its environment holds
  secret,       \* the one of the application's secret
  db,           \* the one of MongoDB
  leader,
  upgrading,    \* upgrade_in_progress
  actions, faults,
  failed,       \* history: a unit has given up setting the options of this offer
  lost,         \* history: a resync was refused or interrupted since this offer
  torn          \* history: the last rotation did not reach the secret

pbm == <<config, runs, synced>>
agents == <<active, agent, env>>
passwords == <<secret, db, torn>>
handling == <<phase, credentials, left, uri>>
relation == <<start, related, offered>>
history == <<failed, lost>>
vars == <<relation, queue, handling, pbm, agents, passwords, leader, upgrading,
          actions, faults, history>>

Events == {"changed", "late", "broken", "secret"}
Operations == {"backup", "restore"}
Phases == {"idle", "set", "poll", "command", "wait", "rotate", "restart"} \cup Operations

TypeOK ==
  /\ start \in Starts /\ related \in BOOLEAN /\ offered \in Nat
  /\ queue \in [Units -> SUBSET Events] /\ phase \in [Units -> Phases]
  /\ credentials \in [Units -> Nat] /\ left \in [Units -> SUBSET Options]
  /\ uri \in [Units -> Nat]
  /\ config \in [Options -> Nat] /\ synced \in [Options -> Nat]
  /\ runs \in [Units -> Operations \cup {"none", "resync"}]
  /\ active \in [Units -> BOOLEAN] /\ agent \in [Units -> Nat] /\ env \in [Units -> Nat]
  /\ secret \in Nat /\ db \in Nat
  /\ leader \in Units /\ upgrading \in BOOLEAN
  /\ actions \in Nat /\ faults \in Nat
  /\ failed \in BOOLEAN /\ lost \in BOOLEAN /\ torn \in BOOLEAN

Unset == [o \in Options |-> 0]

Init ==
  /\ start \in Starts /\ related = FALSE /\ offered = 0
  /\ queue = [u \in Units |-> {}] /\ phase = [u \in Units |-> "idle"]
  /\ credentials = [u \in Units |-> 0] /\ left = [u \in Units |-> {}]
  /\ uri = [u \in Units |-> 0]
  /\ config = Unset /\ synced = Unset /\ runs = [u \in Units |-> "none"]
  /\ active = [u \in Units |-> TRUE]
  /\ agent = [u \in Units |-> 0] /\ env = [u \in Units |-> 0] /\ secret = 0 /\ db = 0
  /\ leader = FirstLeader /\ upgrading = FALSE /\ actions = 0 /\ faults = 0
  /\ failed = FALSE /\ lost = FALSE /\ torn = FALSE

-----------------------------------------------------------------------------
(* PBM and its agents *)

Running(kinds) == \E u \in Units : runs[u] \in kinds

\* Agents that PBM can have run an operation: they log in to MongoDB.
Runners == {u \in Units : active[u] /\ agent[u] = db}

\* PBM has options that do not go together, and an agent may say so.
Mixed == \E o, p \in Options : config[o] # 0 /\ config[p] # 0 /\ config[o] # config[p]

\* What get_status may return on unit u, whose commands use password p.
Statuses(u, p) ==
  IF ~active[u] THEN {"waiting"}
  ELSE IF ~related THEN {"none"}
  ELSE IF p # db THEN {"blocked"}
  ELSE {IF Running(Operations) THEN "maintenance"
        ELSE IF Running({"resync"}) THEN "waiting" ELSE "active"}
       \cup (IF Mixed THEN {"blocked"} ELSE {})

\* The operation of unit u's agent ends unfinished as the agent stops.
Interrupt(u) ==
  /\ runs' = [runs EXCEPT ![u] = "none"]
  /\ synced' = IF runs[u] = "resync" THEN Unset ELSE synced

\* The agent of unit u comes up anew with password p.
ComesUp(u, p) ==
  /\ active' = [active EXCEPT ![u] = TRUE]
  /\ env' = [env EXCEPT ![u] = p]
  /\ agent' = [agent EXCEPT ![u] = p]
  /\ Interrupt(u)

Undone(u) == lost' = (lost \/ runs[u] = "resync")

-----------------------------------------------------------------------------
(* Credentials of the S3 integrator *)

Fault == faults < start.faults /\ faults' = faults + 1

Offer ==
  /\ offered < start.offers /\ (offered = 0 \/ related)
  /\ related' = TRUE /\ offered' = offered + 1
  /\ queue' = [u \in Units |-> queue[u] \cup {"changed"}]
  /\ failed' = FALSE /\ lost' = FALSE
  /\ UNCHANGED <<start, handling, pbm, agents, passwords, leader, upgrading,
                 actions, faults>>

RemoveRelation ==
  /\ related /\ related' = FALSE /\ Fault
  /\ queue' = [u \in Units |-> (queue[u] \ {"changed"}) \cup {"broken"}]
  /\ UNCHANGED <<start, offered, handling, pbm, agents, passwords, leader,
                 upgrading, actions, history>>

Idle(u) == phase[u] = "idle"

\* The hook of unit u goes on at p.
Goes(u, p) == phase' = [phase EXCEPT ![u] = p]

(* Mutant: no event.defer(). *)
DefersNever(u, e) == queue' = [queue EXCEPT ![u] = @ \ {e}]

Defers(u, e) == queue' = [queue EXCEPT ![u] = (@ \ {e}) \cup {"late"}]

Changes == {"changed", "late"}

\* credentials-changed is deferred in a refresh and while the agent is down.
DeferCredentials(u) ==
  /\ Idle(u) /\ (upgrading \/ ~active[u])
  /\ \E e \in queue[u] \cap Changes : Defers(u, e)
  /\ UNCHANGED <<relation, handling, pbm, agents, passwords, leader, upgrading, actions,
                 faults, history>>

\* The data the integrator offers, as the hook sees it: none once it has left.
Seen == IF related THEN offered ELSE 0

\* save_ca_cert_to_trust_store, which restarts the agent, and clear_pbm_config_file.
BeginCredentials(u) ==
  /\ Idle(u) /\ ~upgrading /\ active[u] /\ secret = db
  /\ \E e \in queue[u] \cap Changes : queue' = [queue EXCEPT ![u] = @ \ {e}]
  /\ Goes(u, "set") /\ uri' = [uri EXCEPT ![u] = secret]
  /\ credentials' = [credentials EXCEPT ![u] = Seen]
  /\ left' = [left EXCEPT ![u] = IF related THEN Options ELSE {}]
  /\ IF related /\ start.chain THEN ComesUp(u, secret) ELSE UNCHANGED <<agents, runs, synced>>
  /\ config' = Unset
  /\ UNCHANGED <<relation, passwords, leader, upgrading, actions, faults, history>>

\* Either command fails: the status says so and the event is gone.
RefuseCredentials(u) ==
  /\ Idle(u) /\ ~upgrading /\ active[u]
  /\ \/ secret # db /\ UNCHANGED faults
     \/ secret = db /\ Fault
  /\ \E e \in queue[u] \cap Changes : queue' = [queue EXCEPT ![u] = @ \ {e}]
  /\ failed' = TRUE
  /\ UNCHANGED <<relation, handling, pbm, agents, passwords, leader, upgrading, actions,
                 lost>>

\* set_config_options: pbm config --set for one more option.
SetOption(u) ==
  /\ phase[u] = "set" /\ uri[u] = db
  /\ \E o \in left[u] :
       /\ config' = [config EXCEPT ![o] = credentials[u]]
       /\ left' = [left EXCEPT ![u] = @ \ {o}]
  /\ UNCHANGED <<relation, queue, phase, credentials, uri, runs, synced, agents,
                 passwords, leader, upgrading, actions, faults, history>>

\* SetPBMConfigError: the status says so and the event is gone.
GiveUpOptions(u) ==
  /\ phase[u] = "set" /\ left[u] # {}
  /\ \/ uri[u] # db /\ UNCHANGED faults
     \/ uri[u] = db /\ Fault
  /\ Goes(u, "idle") /\ left' = [left EXCEPT ![u] = {}] /\ failed' = TRUE
  /\ UNCHANGED <<relation, queue, credentials, uri, pbm, agents, passwords, leader,
                 upgrading, actions, lost>>

\* resync_config_options: set_environment and start, which on machines does
\* nothing to an agent that is up.
StartAgent(u) ==
  /\ phase[u] = "set" /\ left[u] = {} /\ Goes(u, "poll")
  /\ IF start.substrate = "k8s" \/ ~active[u] THEN ComesUp(u, secret)
     ELSE env' = [env EXCEPT ![u] = secret] /\ UNCHANGED <<active, agent, runs, synced>>
  /\ UNCHANGED <<relation, queue, credentials, left, uri, config, passwords, leader,
                 upgrading, actions, faults, history>>

\* WorkloadServiceError: the status says so and the event is gone.
FailStart(u) ==
  /\ phase[u] = "set" /\ left[u] = {} /\ Fault /\ Goes(u, "idle")
  /\ env' = [env EXCEPT ![u] = secret] /\ active' = [active EXCEPT ![u] = FALSE]
  /\ Interrupt(u) /\ lost' = TRUE
  /\ UNCHANGED <<relation, queue, credentials, left, uri, config, agent, passwords, leader,
                 upgrading, actions, failed>>

\* workload.restart(): snap restart, or Pebble with the layer of the moment.
Restarts(u) ==
  /\ "waiting" \in Statuses(u, uri[u])
  /\ ComesUp(u, IF start.substrate = "k8s" THEN secret ELSE env[u])

\* resync_config_options waits for PBM; when it is not up, or resyncs, the agent
\* is restarted before the next attempt.
RestartAgent(u) ==
  /\ phase[u] = "poll" /\ Restarts(u)
  /\ UNCHANGED <<relation, queue, handling, config, passwords, leader, upgrading, actions,
                 faults, history>>

(* Mutant: PBMBusyError is only reported. *)
NotAgain(u) == UNCHANGED queue

\* The event of the handler is deferred: it begins anew.
Again(u) == Defers(u, "changed")

\* PBMBusyError, after 20 attempts.
Busy(u) ==
  /\ phase[u] = "poll" /\ Goes(u, "idle") /\ Again(u)
  /\ \/ "maintenance" \in Statuses(u, uri[u]) /\ UNCHANGED <<agents, runs, synced>>
     \/ Restarts(u)
  /\ UNCHANGED <<relation, credentials, left, uri, config, passwords, leader, upgrading,
                 actions, faults, history>>

NotBusy(u) ==
  /\ phase[u] = "poll" /\ Statuses(u, uri[u]) \ {"waiting", "maintenance"} # {}
  /\ Goes(u, "command")
  /\ UNCHANGED <<relation, queue, credentials, left, uri, pbm, agents, passwords, leader,
                 upgrading, actions, faults, history>>

\* pbm config --force-resync
ForceResync(u) ==
  /\ phase[u] = "command" /\ uri[u] = db /\ runs = [w \in Units |-> "none"]
  /\ \E r \in Runners : runs' = [runs EXCEPT ![r] = "resync"]
  /\ synced' = config /\ Goes(u, "wait")
  /\ UNCHANGED <<relation, queue, credentials, left, uri, config, agents, passwords,
                 leader, upgrading, actions, faults, history>>

\* PBM does not take the command, or no agent does.
LoseResync(u) ==
  /\ phase[u] = "command"
  /\ uri[u] # db \/ runs # [w \in Units |-> "none"] \/ Runners = {}
  /\ Goes(u, "idle") /\ lost' = TRUE
  /\ UNCHANGED <<relation, queue, credentials, left, uri, pbm, agents, passwords, leader,
                 upgrading, actions, faults, failed>>

\* _wait_pbm_status
EndCredentials(u) ==
  /\ phase[u] = "wait" /\ (~Running({"resync"}) \/ uri[u] # db)
  /\ Goes(u, "idle")
  /\ UNCHANGED <<relation, queue, credentials, left, uri, pbm, agents, passwords, leader,
                 upgrading, actions, faults, history>>

\* ResyncError: the resync takes longer than the 60 attempts.
SlowResync(u) ==
  /\ phase[u] = "wait" /\ Running({"resync"}) /\ Fault
  /\ Goes(u, "idle") /\ Again(u)
  /\ UNCHANGED <<relation, credentials, left, uri, pbm, agents, passwords, leader,
                 upgrading, actions, history>>

\* PBM ends what it runs.
EndOperation ==
  /\ Running(Operations \cup {"resync"}) /\ runs' = [u \in Units |-> "none"]
  /\ UNCHANGED <<relation, queue, handling, config, synced, agents, passwords, leader,
                 upgrading, actions, faults, history>>

-----------------------------------------------------------------------------
(* The agents and their password *)

(* Mutant: an agent that is up is left alone. *)
RestartIfDown(u, p, force) ==
  IF ~active[u] \/ force
  THEN ComesUp(u, p) /\ Undone(u)
  ELSE UNCHANGED <<agents, runs, synced, lost>>

\* configure_and_restart: the agent is restarted when it is down or when its
\* environment is not the one that p makes.
ConfigureAndRestart(u, p, force) ==
  IF ~active[u] \/ env[u] # p \/ force
  THEN ComesUp(u, p) /\ Undone(u)
  ELSE UNCHANGED <<agents, runs, synced, lost>>

\* secret-changed on a unit other than the one that wrote the secret.
SecretChanged(u) ==
  /\ Idle(u) /\ "secret" \in queue[u] /\ queue' = [queue EXCEPT ![u] = @ \ {"secret"}]
  /\ ConfigureAndRestart(u, secret, FALSE)
  /\ UNCHANGED <<relation, handling, config, passwords, leader, upgrading, actions, faults,
                 failed>>

\* A unit of the peer relation has changed.
RelationChanged(u) ==
  /\ Idle(u) /\ ConfigureAndRestart(u, secret, FALSE)
  /\ UNCHANGED <<relation, queue, handling, config, passwords, leader, upgrading, actions,
                 faults, failed>>

\* perform_self_healing
UpdateStatus(u) == ~upgrading /\ RelationChanged(u)

\* remove_ca_cert_from_trust_store
RelationBroken(u) ==
  /\ Idle(u) /\ "broken" \in queue[u] /\ queue' = [queue EXCEPT ![u] = @ \ {"broken"}]
  /\ ConfigureAndRestart(u, secret, TRUE)
  /\ UNCHANGED <<relation, handling, config, passwords, leader, upgrading, actions, faults,
                 failed>>

-----------------------------------------------------------------------------
(* Actions of the leader *)

Action(u) == Idle(u) /\ u = leader /\ actions < start.actions /\ actions' = actions + 1

\* assert_can_backup and assert_can_restore
CheckOperation(u, op) ==
  /\ Action(u) /\ related /\ (op = "restore" => ~upgrading)
  /\ "active" \in Statuses(u, secret)
  /\ Goes(u, op) /\ uri' = [uri EXCEPT ![u] = secret]
  /\ UNCHANGED <<relation, queue, credentials, left, pbm, agents, passwords, leader,
                 upgrading, faults, history>>

\* PBM takes the command of create_backup_action or restore_backup.
StartOperation(u) ==
  /\ phase[u] \in Operations /\ uri[u] = db /\ runs = [w \in Units |-> "none"]
  /\ \E r \in Runners : runs' = [runs EXCEPT ![r] = phase[u]]
  /\ Goes(u, "idle")
  /\ UNCHANGED <<relation, queue, credentials, left, uri, config, synced, agents, passwords,
                 leader, upgrading, actions, faults, history>>

\* BackupError or RestoreError, or PBM still resyncs at the last attempt.
FailOperation(u) ==
  /\ phase[u] \in Operations
  /\ uri[u] # db \/ runs # [w \in Units |-> "none"] \/ Runners = {}
  /\ Goes(u, "idle")
  /\ UNCHANGED <<relation, queue, credentials, left, uri, pbm, agents, passwords, leader,
                 upgrading, actions, faults, history>>

(* Mutant: no look at what PBM does. *)
MayRotateAnyway(u) == Idle(u)

MayRotate(u) == Statuses(u, secret) \ {"maintenance"} # {}

\* assert_pass_password_checks
CheckPassword(u) ==
  /\ Action(u) /\ ~upgrading /\ MayRotate(u)
  /\ Goes(u, "rotate")
  /\ UNCHANGED <<relation, queue, credentials, left, uri, pbm, agents, passwords, leader,
                 upgrading, faults, history>>

\* set_user_password: MongoDB first.
Rotate(u) ==
  /\ phase[u] = "rotate" /\ db' = db + 1 /\ Goes(u, "restart")
  /\ UNCHANGED <<relation, queue, credentials, left, uri, pbm, agents, secret, torn, leader,
                 upgrading, actions, faults, history>>

\* The agent is restarted and the action succeeds, which commits the secret.
EndRotation(u) ==
  /\ phase[u] = "restart" /\ Goes(u, "idle")
  /\ ConfigureAndRestart(u, db, FALSE)
  /\ secret' = db /\ torn' = FALSE
  /\ queue' = [w \in Units |-> IF w = u THEN queue[w] ELSE queue[w] \cup {"secret"}]
  /\ UNCHANGED <<relation, credentials, left, uri, config, db, leader, upgrading, actions,
                 faults, failed>>

\* The agent does not start: the action fails and the secret is what it was.
FailRotation(u) ==
  /\ phase[u] = "restart" /\ Goes(u, "idle") /\ Fault
  /\ active' = [active EXCEPT ![u] = FALSE] /\ env' = [env EXCEPT ![u] = db]
  /\ Interrupt(u) /\ Undone(u) /\ torn' = TRUE
  /\ UNCHANGED <<relation, queue, credentials, left, uri, config, agent, secret, db, leader,
                 upgrading, actions, failed>>

-----------------------------------------------------------------------------
(* The environment *)

\* The machine or the charm dies: juju runs the hook again, not the action.
Crash(u) ==
  /\ ~Idle(u) /\ Fault /\ Goes(u, "idle") /\ left' = [left EXCEPT ![u] = {}]
  /\ queue' = [queue EXCEPT ![u] =
                 IF phase[u] \in {"set", "poll", "command", "wait"} THEN @ \cup {"late"}
                 ELSE @]
  /\ torn' = (torn \/ phase[u] = "restart")
  /\ UNCHANGED <<relation, credentials, uri, pbm, agents, secret, db, leader, upgrading,
                 actions, history>>

AgentStops(u) ==
  /\ active[u] /\ active' = [active EXCEPT ![u] = FALSE] /\ Fault
  /\ Interrupt(u) /\ Undone(u)
  /\ UNCHANGED <<relation, queue, handling, config, agent, env, passwords, leader, upgrading,
                 actions, failed>>

Elect(u) ==
  /\ u # leader /\ leader' = u /\ Fault
  /\ UNCHANGED <<relation, queue, handling, pbm, agents, passwords, upgrading, actions,
                 history>>

BeginUpgrade ==
  /\ ~upgrading /\ upgrading' = TRUE /\ Fault
  /\ UNCHANGED <<relation, queue, handling, pbm, agents, passwords, leader, actions, history>>

EndUpgrade ==
  /\ upgrading /\ upgrading' = FALSE
  /\ UNCHANGED <<relation, queue, handling, pbm, agents, passwords, leader, actions, faults,
                 history>>

Hook(u) ==
  \/ DeferCredentials(u) \/ BeginCredentials(u) \/ RefuseCredentials(u)
  \/ SecretChanged(u) \/ RelationBroken(u)

Goon(u) ==
  \/ SetOption(u) \/ GiveUpOptions(u) \/ StartAgent(u) \/ FailStart(u) \/ RestartAgent(u)
  \/ Busy(u) \/ NotBusy(u) \/ ForceResync(u) \/ LoseResync(u) \/ EndCredentials(u)
  \/ SlowResync(u) \/ StartOperation(u) \/ FailOperation(u)
  \/ Rotate(u) \/ EndRotation(u) \/ FailRotation(u)

Next ==
  \/ Offer \/ RemoveRelation \/ EndOperation \/ BeginUpgrade \/ EndUpgrade
  \/ \E u \in Units :
       \/ Hook(u) \/ Goon(u) \/ RelationChanged(u) \/ UpdateStatus(u)
       \/ CheckPassword(u) \/ \E op \in Operations : CheckOperation(u, op)
       \/ Crash(u) \/ AgentStops(u) \/ Elect(u)

Spec == Init /\ [][Next]_vars

Fairness ==
  /\ WF_vars(EndOperation) /\ WF_vars(EndUpgrade)
  /\ \A u \in Units : WF_vars(Hook(u)) /\ WF_vars(Goon(u)) /\ WF_vars(UpdateStatus(u))

FairSpec == Spec /\ Fairness

-----------------------------------------------------------------------------
(* Properties.                                                             *)

Whole == [o \in Options |-> offered]

(* Once no unit has the credentials before it or is setting them, the      *)
(* options of PBM are the last ones offered, all of them, whatever the     *)
(* units cleared and set under each other's feet.                          *)
WholeConfig ==
  related /\ ~failed /\ (\A u \in Units : queue[u] \cap Changes = {} /\ left[u] = {})
    => config = Whole

(* PBM is resynced with the last credentials offered, unless a unit gave   *)
(* up or a resync was refused or interrupted: nothing does that one again. *)
Resynced == <>[](related /\ ~failed /\ ~lost => synced = Whole)

(* Every agent is up and logs in, unless a rotation failed half-way.  On   *)
(* machines set_environment of resync_config_options may have come before  *)
(* secret-changed, which then leaves an agent with the old password.       *)
AgentsFollow ==
  <>[](torn \/ \A u \in Units :
         /\ active[u] /\ env[u] = db
         /\ start.substrate = "k8s" \/ offered = 0 => agent[u] = db)

(* The password is not rotated while PBM backs up or restores, as long as  *)
(* get_status can tell: the agents are up, the relation is there and one   *)
(* leader did both.                                                        *)
PasswordKept ==
  [][db' # db /\ Running(Operations) => faults > 0 \/ offered > 1]_vars
=============================================================================
