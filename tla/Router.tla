------------------------------- MODULE Router -------------------------------
(***************************************************************************)
(* Mongos routers on machines and their relation to a config-server.  The  *)
(* leader of the routers asks for a database; the leader of the            *)
(* config-server makes a user and answers with its credentials, the key    *)
(* file and the URI of its replica set.  Each router then writes the last  *)
(* two down and (re)starts its mongos, and the leader passes the           *)
(* credentials on to the client.  Each unit handles the events of the      *)
(* relation on its own; who leads may change in between.                   *)
(*                                                                         *)
(* A hook is a step, except that the events a unit has deferred, which it  *)
(* handles again at the start of its next hook, are a step of their own.   *)
(***************************************************************************)
EXTENDS Naturals

CONSTANTS
  Units,         \* units of the routers' application
  FirstLeader,
  Highest, Lowest,   \* the first unit to be refreshed, and the last one
  MaxRelations, MaxHosts, MaxElections, MaxFaults     \* bounds

ASSUME UnitsAssumption == {FirstLeader, Highest, Lowest} \subseteq Units
ASSUME BoundsAssumption ==
  /\ MaxRelations \in Nat /\ MaxHosts \in Nat
  /\ MaxElections \in Nat /\ MaxFaults \in Nat

VARIABLES
  rel,            \* number of relations to a config-server so far; the last one's id
  related,        \* that one has not been removed
  hosts,          \* version of the config-server's hosts
  requested,      \* the routers' databag holds the database they ask for
  shared,         \* the config-server's holds credentials and key file
  uri,            \* and this version of its URI; 0: none
  plain,          \* and all that in plain fields, not in secrets
  since,          \* the URI it held when it last raised relation-changed
  stage,          \* how far each unit is with the relation
  changed,        \* relation-changed is yet to come to the unit
  deferred,       \* events the unit has deferred
  noticed,        \* the unit has seen the credentials come
  conf,           \* version of key file and URI written on the unit
  proc,           \* its mongos
  loaded,         \* version that mongos was last started with
  leader,
  creds,          \* relation whose credentials the application's secret holds; 0: none
  dbInitialised,  \* db_initialised
  given,          \* relation whose credentials the client's databag holds; 0: none
  upgrading,      \* upgrade_in_progress
  refused,        \* the first unit's pre-refresh check failed
  elections, faults,
  moved,          \* history: the leader changed while credentials were on their way
  kept            \* history: units whose mongos was not stopped, and should have been

configServer == <<hosts, requested, shared, uri, plain, since>>
events == <<stage, changed, deferred, noticed>>
mongos == <<conf, proc, loaded>>
client == <<creds, dbInitialised, given>>
refresh == <<upgrading, refused>>
vars == <<rel, related, configServer, events, mongos, leader, client, refresh,
          elections, faults, moved, kept>>

Stages == {"out", "joining", "in", "leaving"}
Events == {"created", "changed"}

TypeOK ==
  /\ rel \in Nat /\ related \in BOOLEAN
  /\ hosts \in Nat /\ requested \in BOOLEAN /\ shared \in BOOLEAN /\ uri \in Nat
  /\ plain \in BOOLEAN /\ since \in Nat
  /\ stage \in [Units -> Stages] /\ changed \in [Units -> BOOLEAN]
  /\ deferred \in [Units -> SUBSET Events] /\ noticed \in [Units -> BOOLEAN]
  /\ conf \in [Units -> Nat] /\ proc \in [Units -> {"down", "starting", "up"}]
  /\ loaded \in [Units -> Nat]
  /\ leader \in Units /\ creds \in Nat /\ dbInitialised \in BOOLEAN /\ given \in Nat
  /\ upgrading \in BOOLEAN /\ refused \in BOOLEAN /\ elections \in Nat /\ faults \in Nat
  /\ moved \in BOOLEAN /\ kept \subseteq Units

\* The routers may be in the middle of a refresh as they are related.
Init ==
  /\ rel = 0 /\ related = FALSE
  /\ hosts = 1 /\ requested = FALSE /\ shared = FALSE /\ uri = 0
  /\ plain = FALSE /\ since = 0
  /\ stage = [u \in Units |-> "out"] /\ changed = [u \in Units |-> FALSE]
  /\ deferred = [u \in Units |-> {}] /\ noticed = [u \in Units |-> FALSE]
  /\ conf = [u \in Units |-> 0] /\ proc = [u \in Units |-> "down"]
  /\ loaded = [u \in Units |-> 0]
  /\ leader = FirstLeader /\ creds = 0 /\ dbInitialised = FALSE /\ given = 0
  /\ upgrading \in BOOLEAN /\ refused = FALSE /\ elections = 0 /\ faults = 0
  /\ moved = FALSE /\ kept = {}

-----------------------------------------------------------------------------
(* Juju: the relation, the leader *)

\* There is one cluster relation at a time; it is gone when every unit has left it.
Relate ==
  /\ rel < MaxRelations /\ ~related /\ \A u \in Units : stage[u] = "out"
  /\ rel' = rel + 1 /\ related' = TRUE
  /\ requested' = FALSE /\ shared' = FALSE /\ uri' = 0 /\ plain' = FALSE /\ since' = 0
  /\ stage' = [u \in Units |-> "joining"]
  /\ UNCHANGED <<hosts, changed, deferred, noticed, mongos, leader, client, refresh,
                 elections, faults, moved, kept>>

\* Units that have not joined yet never do.
Unrelate ==
  /\ related /\ related' = FALSE
  /\ stage' = [u \in Units |-> IF stage[u] = "in" THEN "leaving" ELSE "out"]
  /\ UNCHANGED <<rel, configServer, changed, deferred, noticed, mongos, leader, client,
                 refresh, elections, faults, moved, kept>>

\* A change that leaves the credentials with a leader who will remove them.
Harmless(l) ==
  \/ related /\ given = rel /\ stage[l] = "in"
  \/ \A u \in Units : stage[u] \in {"out", "joining"}

Elect(l) ==
  /\ l # leader /\ elections < MaxElections
  /\ leader' = l /\ elections' = elections + 1
  /\ moved' = (moved \/ ~Harmless(l))
  /\ UNCHANGED <<rel, related, configServer, events, mongos, client, refresh, faults,
                 kept>>

Fault == faults < MaxFaults /\ faults' = faults + 1

\* The checks before and after the restart of unit u ask for its mongos and for the
\* credentials to log in to it, as soon as there ever was one.
ChecksPass(u) == dbInitialised => proc[u] = "up" /\ creds = rel

\* juju refresh, at any later moment.
BeginUpgrade ==
  /\ ~upgrading /\ upgrading' = TRUE /\ Fault
  /\ refused' = ~ChecksPass(Highest)
  /\ UNCHANGED <<rel, related, configServer, events, mongos, leader, client, elections,
                 moved, kept>>

\* A unit is not refreshed before those with higher numbers passed their checks.
Blocked == upgrading /\ (refused \/ \E u \in Units \ {Lowest} : ~ChecksPass(u))

\* It restarted mongos on units S with what is written there; on the others it was
\* rolled back, or mongos does not run.
EndUpgrade ==
  /\ upgrading /\ upgrading' = FALSE
  /\ \E S \in SUBSET {u \in Units : proc[u] # "down"} :
       /\ loaded' = [u \in Units |-> IF u \in S THEN conf[u] ELSE loaded[u]]
       /\ kept' = kept \ S
  /\ UNCHANGED <<rel, related, configServer, events, conf, proc, leader, client, refused,
                 elections, faults, moved>>

-----------------------------------------------------------------------------
(* The config-server *)

In(u) == stage[u] = "in"

\* Every router is to have a relation-changed, which finds URI v in the databag.
Announce(v) ==
  /\ changed' = [u \in Units |-> changed[u] \/ In(u)]
  /\ since' = v

\* A unit that joins raises relation-changed in the routers, one that leaves does not.
\* Between two relations this stands for another config-server too.
HostsChange ==
  /\ hosts < MaxHosts /\ hosts' = hosts + 1
  /\ \/ related /\ Announce(uri)
     \/ UNCHANGED <<changed, since>>
  /\ UNCHANGED <<rel, related, requested, shared, uri, plain, stage, deferred, noticed,
                 mongos, leader, client, refresh, elections, faults, moved, kept>>

\* What is written in secrets the databag has already does not change the databag.
Publish ==
  /\ uri' = hosts
  /\ IF shared /\ ~plain THEN UNCHANGED <<changed, since>> ELSE Announce(hosts)
  /\ UNCHANGED <<rel, related, hosts, requested, stage, deferred, noticed, mongos, leader,
                 client, refresh, elections, faults, moved, kept>>

ShareSecret ==
  /\ related /\ requested /\ (~shared \/ uri # hosts)
  /\ shared' = TRUE /\ UNCHANGED plain
  /\ Publish

\* Fields written before the routers said which of them go in secrets make the
\* relation stay with plain fields.
UpdateConfigServerDb ==
  /\ related /\ uri # hosts
  /\ plain' = (plain \/ ~requested) /\ UNCHANGED shared
  /\ Publish

-----------------------------------------------------------------------------
(* The routers *)

RelationCreated(u) ==
  /\ stage[u] = "joining"
  /\ stage' = [stage EXCEPT ![u] = "in"]
  /\ changed' = [changed EXCEPT ![u] = TRUE]
  /\ requested' = (requested \/ u = leader)
  /\ UNCHANGED <<rel, related, hosts, shared, uri, plain, since, deferred, noticed,
                 mongos, leader, client, refresh, elections, faults, moved, kept>>

Joined(u) == stage[u] \in {"in", "leaving"}

HasEvents(u) == changed[u] \/ deferred[u] # {}

\* database-created comes with the relation-changed that brings the credentials.
Created(u) == "created" \in deferred[u] \/ (changed[u] /\ shared /\ ~noticed[u])

\* share_credentials_to_clients, not in the middle of a refresh
Credentials(u) == IF Created(u) /\ u = leader THEN rel ELSE creds


\* The events of unit u are done with, all but those in again.
Handled(u, again) ==
  /\ changed' = [changed EXCEPT ![u] = FALSE]
  /\ noticed' = [noticed EXCEPT ![u] = noticed[u] \/ (changed[u] /\ shared)]
  /\ deferred' = [deferred EXCEPT ![u] = again]

(* Mutant: relation-changed alone is deferred. *)
DeferChanged(u) ==
  /\ HasEvents(u) /\ upgrading
  /\ Handled(u, {"changed"})
  /\ UNCHANGED <<rel, related, configServer, stage, mongos, leader, client, refresh,
                 elections, faults, moved, kept>>

Defer(u) ==
  /\ HasEvents(u) /\ upgrading
  /\ Handled(u, {"changed"} \cup {e \in {"created"} : Created(u)})
  /\ UNCHANGED <<rel, related, configServer, stage, mongos, leader, client, refresh,
                 elections, faults, moved, kept>>

(* Mutant: key file and URI are those of the relation the event was of. *)
InformedOnce(u) == shared /\ uri # 0

\* What update_mongos_and_restart needs is there.
Informed(u) == Joined(u) /\ shared /\ uri # 0

Skip(u) ==
  /\ HasEvents(u) /\ ~upgrading /\ ~Informed(u)
  /\ Handled(u, {}) /\ creds' = Credentials(u)
  /\ UNCHANGED <<rel, related, configServer, stage, mongos, leader, dbInitialised, given,
                 refresh, elections, faults, moved, kept>>

(* Mutant: no look at whether mongos runs. *)
FitsWritten(u) == conf[u] = uri

Fits(u) == conf[u] = uri /\ proc[u] = "up"

\* The end of update_mongos_and_restart, mongos being up: the client is given
\* credentials, but not in place of others.
Conclude(u) ==
  /\ Handled(u, {}) /\ creds' = Credentials(u)
  /\ IF u = leader
     THEN dbInitialised' = TRUE /\ given' = IF given = 0 THEN creds' ELSE given
     ELSE UNCHANGED <<dbInitialised, given>>

Confirm(u) ==
  /\ HasEvents(u) /\ ~upgrading /\ Informed(u) /\ Fits(u)
  /\ Conclude(u)
  /\ UNCHANGED <<rel, related, configServer, stage, mongos, leader, refresh, elections,
                 faults, moved, kept>>

MustRestart(u) == HasEvents(u) /\ ~upgrading /\ Informed(u) /\ ~Fits(u)

\* mongos of unit u is stopped, its environment set and mongos started.
Starts(u, p) ==
  /\ conf' = [conf EXCEPT ![u] = uri]
  /\ proc' = [proc EXCEPT ![u] = p]
  /\ loaded' = [loaded EXCEPT ![u] = uri]
  /\ kept' = kept \ {u}

Restart(u) ==
  /\ MustRestart(u) /\ Starts(u, "up")
  /\ Conclude(u)
  /\ UNCHANGED <<rel, related, configServer, stage, leader, refresh, elections, faults,
                 moved>>

\* mongos is not up in the minute the hook waits for it.
RestartSlowly(u) ==
  /\ MustRestart(u) /\ Starts(u, "starting") /\ Fault
  /\ Handled(u, {"changed"}) /\ creds' = Credentials(u)
  /\ UNCHANGED <<rel, related, configServer, stage, leader, dbInitialised, given,
                 refresh, elections, moved>>

ComesUp(u) ==
  /\ proc[u] = "starting" /\ proc' = [proc EXCEPT ![u] = "up"]
  /\ UNCHANGED <<rel, related, configServer, events, conf, loaded, leader, client,
                 refresh, elections, faults, moved, kept>>

\* Key file and environment are written; then the snap service cannot be stopped, or
\* not be started again, and the hook fails.  Juju runs it again.
HookFails(u) ==
  /\ MustRestart(u) /\ Fault
  /\ conf' = [conf EXCEPT ![u] = uri]
  /\ \/ /\ UNCHANGED proc
        /\ kept' = kept \cup {v \in {u} : proc[u] # "down" /\ loaded[u] # uri}
     \/ /\ proc' = [proc EXCEPT ![u] = "down"] /\ UNCHANGED kept
  /\ UNCHANGED <<rel, related, configServer, events, loaded, leader, client, refresh,
                 elections, moved>>

\* leader-elected, update-status and the events of the peers
ShareConnectionInfo(u) ==
  /\ u = leader /\ dbInitialised /\ creds # 0 /\ given = 0
  /\ given' = creds
  /\ UNCHANGED <<rel, related, configServer, events, mongos, leader, creds, dbInitialised,
                 refresh, elections, faults, moved, kept>>

(* Mutant: the client's databag is left. *)
CleanUpSecret(u) ==
  IF u = leader THEN creds' = 0 /\ UNCHANGED given ELSE UNCHANGED <<creds, given>>

CleanUp(u) ==
  IF u = leader THEN creds' = 0 /\ given' = 0 ELSE UNCHANGED <<creds, given>>

\* The unit's deferred events come first and no longer find the relation, so that they
\* end there, except a relation-changed that a refresh has deferred once more.
RelationBroken(u) ==
  /\ stage[u] = "leaving"
  /\ stage' = [stage EXCEPT ![u] = "out"]
  /\ changed' = [changed EXCEPT ![u] = FALSE]
  /\ noticed' = [noticed EXCEPT ![u] = FALSE]
  /\ deferred' = [deferred EXCEPT ![u] = {e \in {"changed"} \cap deferred[u] : upgrading}]
  /\ proc' = [proc EXCEPT ![u] = "down"] /\ kept' = kept \ {u}
  /\ CleanUp(u)
  /\ UNCHANGED <<rel, related, configServer, conf, loaded, leader, dbInitialised,
                 refresh, elections, faults, moved>>

-----------------------------------------------------------------------------
HandleEvents(u) ==
  Defer(u) \/ Skip(u) \/ Confirm(u) \/ Restart(u) \/ RestartSlowly(u) \/ HookFails(u)

UnitStep(u) ==
  \/ RelationCreated(u) \/ HandleEvents(u) \/ ComesUp(u) \/ ShareConnectionInfo(u)
  \/ RelationBroken(u)

Next ==
  \/ Relate \/ Unrelate \/ HostsChange \/ ShareSecret \/ UpdateConfigServerDb
  \/ BeginUpgrade \/ EndUpgrade
  \/ \E u \in Units : Elect(u) \/ UnitStep(u)

Spec == Init /\ [][Next]_vars

\* Juju runs the hooks it has, retries those that fail, and runs update-status, which
\* handles the deferred events again; a start and a refresh come to an end.
Fairness ==
  /\ WF_vars(ShareSecret) /\ WF_vars(~Blocked /\ EndUpgrade)
  /\ \A u \in Units :
       /\ WF_vars(RelationCreated(u)) /\ WF_vars(HandleEvents(u)) /\ WF_vars(ComesUp(u))
       /\ WF_vars(ShareConnectionInfo(u)) /\ WF_vars(RelationBroken(u))

FairSpec == Spec /\ Fairness

-----------------------------------------------------------------------------
(* Properties *)

\* What application and client hold are the credentials of the last relation, and
\* once every unit has left it they hold none, unless the leader changed while the
\* credentials were on their way (relation-created, database-created and
\* relation-broken do their part only on the unit that leads as it runs them, and
\* credentials the client has are not replaced).
CredentialsCurrent ==
  moved \/ /\ {creds, given} \subseteq {0, rel}
           /\ (~related /\ \A u \in Units : stage[u] = "out") => creds = 0 /\ given = 0

\* No mongos runs on a unit that is not in a relation: relation-broken stops it, and an
\* event deferred before that does not start it again (update_mongos_and_restart reads
\* key file and URI of the relation as it is now).
NoneOutside == \A u \in Units : ~Joined(u) => proc[u] = "down"

\* A router comes to run with the URI that the last relation-changed found in the
\* databag, or a later one, through changes of the hosts, slow starts, refreshes and
\* hooks that fail; unless one failed to stop mongos when it had written the URI: run
\* again, it takes mongos for restarted.
RoutersFollow ==
  \A u \in Units :
    (In(u) /\ shared) ~> \/ ~In(u) \/ u \in kept \/ Blocked
                         \/ proc[u] = "up" /\ loaded[u] >= since

\* The client is given the credentials of a relation that stays, unless the leader
\* changed while they were on their way.
ClientConnects == related ~> (~related \/ moved \/ given = rel \/ Blocked)

=============================================================================
