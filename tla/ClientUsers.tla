----------------------------- MODULE ClientUsers -----------------------------
(***************************************************************************)
(* The MongoDB users an application makes for the applications related to  *)
(* it: the clients of a replica set, or the mongos routers (on machines)   *)
(* of a config-server, whose handlers share the code.  The leader creates  *)
(* a user when a client requests its database, publishes the credentials   *)
(* in the relation, and drops the user when the relation goes away.        *)
(*                                                                         *)
(* What a handler does to MongoDB stands at once; what it writes in a      *)
(* databag is committed only if the hook succeeds, otherwise juju runs the *)
(* hook again before any other.  Passwords are told apart by whether they  *)
(* log in.  Juju shows a broken relation's data to the relation-broken     *)
(* hook itself, no longer to one that was deferred.                        *)
(***************************************************************************)
EXTENDS Naturals

CONSTANTS
  Units,         \* units of the application
  FirstLeader,   \* the one juju elects first
  Clients,       \* the relations, by the application at their other end
  Roles,         \* extra-user-roles a client may ask for
  MaxFaults      \* bound: hooks that die or do not reach MongoDB, changes of
                 \* leader, units removed and in-place refreshes, together

ASSUME UnitsAssumption == FirstLeader \in Units
ASSUME BoundsAssumption == MaxFaults \in Nat

Nothing == "nothing"
ASSUME RolesAssumption == Roles # {} /\ Nothing \notin Roles
Events == Clients \X {"changed", "broken", "scaled", "late"}

VARIABLES
  kind,           \* "replication" or "config-server"
  leader,
  present,        \* units that have not been removed
  leaving,        \* units juju is removing
  dbInitialised,
  upgrading,      \* upgrade_in_progress
  relation,       \* what juju knows of each relation
  request,        \* roles asked for in the client's databag, with the database
  user,           \* the client's user in MongoDB, by its roles
  credentials,    \* what our databag offers the client
  managed,        \* managed-users, in the peer databag
  data,           \* clients whose database exists in MongoDB
  queue,          \* events each unit has before it; "late": broken, deferred
  failing,        \* the event of the hook juju runs again on each unit
  faults,
  disturbed       \* history: clients who lost an event or credentials on the way

vars == <<kind, leader, present, leaving, dbInitialised, upgrading, relation,
          request, user, credentials, managed, data, queue, failing, faults,
          disturbed>>

application == <<kind, leader, present, leaving, dbInitialised, upgrading>>
mongo == <<user, data>>
databags == <<credentials, managed>>

TypeOK ==
  /\ kind \in {"replication", "config-server"} /\ leader \in Units
  /\ present \subseteq Units /\ leaving \subseteq Units
  /\ dbInitialised \in BOOLEAN /\ upgrading \in BOOLEAN
  /\ relation \in [Clients -> {"absent", "there", "removed"}]
  /\ request \in [Clients -> Roles \cup {Nothing}]
  /\ user \in [Clients -> Roles \cup {Nothing}]
  /\ credentials \in [Clients -> {"none", "working", "wrong"}]
  /\ managed \subseteq Clients /\ data \subseteq Clients
  /\ queue \in [Units -> SUBSET Events] /\ failing \in [Units -> SUBSET Events]
  /\ faults \in 0..MaxFaults /\ disturbed \subseteq Clients

Init ==
  /\ kind \in {"replication", "config-server"} /\ leader = FirstLeader
  /\ present = Units /\ leaving = {} /\ dbInitialised = FALSE /\ upgrading = FALSE
  /\ relation = [c \in Clients |-> "absent"]
  /\ request = [c \in Clients |-> Nothing] /\ user = [c \in Clients |-> Nothing]
  /\ credentials = [c \in Clients |-> "none"]
  /\ managed = {} /\ data = {}
  /\ queue = [u \in Units |-> {}] /\ failing = [u \in Units |-> {}]
  /\ faults = 0 /\ disturbed = {}

-----------------------------------------------------------------------------
(* Hooks *)

Routers == kind = "config-server"

\* The relations the model of unit u lists.
Listed(u) == {c \in Clients : relation[c] = "there" \/ <<c, "broken">> \in queue[u]}

\* Whether a handler of unit u goes on past its checks.
Serves(u) == dbInitialised /\ u = leader /\ ~upgrading

\* Juju runs a hook that failed before any other; ops emits what was deferred
\* before the event of the hook, and a router's late event raises.
Turn(u, e) ==
  /\ e \in queue[u] /\ u \in present
  /\ failing[u] \subseteq {e}
  /\ Routers /\ Serves(u) => \A c \in Clients : <<c, "late">> \in queue[u] => e[2] = "late"

\* Unit u told of something: the events that are new to its queue.
Tell(events) == [u \in Units |-> IF u \in present THEN queue[u] \cup events ELSE queue[u]]

\* The hook of event e succeeds on unit u.
Handled(u, e) ==
  /\ queue' = [queue EXCEPT ![u] = @ \ {e}]
  /\ failing' = [failing EXCEPT ![u] = {}]

\* The hook of event e raises, or dies, on unit u.
Raised(u, e) ==
  /\ failing' = [failing EXCEPT ![u] = {e}]
  /\ UNCHANGED <<queue, databags>>

Fault == faults < MaxFaults /\ faults' = faults + 1

(* Mutant: a client whose databag has credentials is taken to have its user. *)
CreatedUnpublished(C) == {c \in C : user[c] = Nothing /\ credentials[c] = "none"}

\* Clients among C whose user is made: one that exists is left alone.
Created(C) == {c \in C : user[c] = Nothing}

UsersAdded(C) == [c \in Clients |-> IF c \in Created(C) THEN request[c] ELSE user[c]]

\* The users of the clients in C are added, and said so in the databags.
AddUsers(C) ==
  /\ user' = UsersAdded(C)
  /\ credentials' = [c \in Clients |-> IF c \in Created(C) THEN "working" ELSE credentials[c]]
  /\ managed' = IF Routers THEN managed ELSE managed \cup Created(C)

-----------------------------------------------------------------------------
(* The application *)

\* The leader's start hook: the users of the relations there are, one by one, until
\* one of them has requested nothing yet and the hook is deferred.
Start(u) ==
  /\ u = leader /\ ~dbInitialised /\ failing[u] = {} /\ u \in present
  /\ LET asked == {c \in Listed(u) : request[c] # Nothing} IN
     \E C \in SUBSET asked :
       /\ C = Listed(u) \/ asked # Listed(u)
       /\ AddUsers(C)
       /\ dbInitialised' = (C = Listed(u))
  /\ UNCHANGED <<kind, leader, present, leaving, upgrading, relation, request, data,
                 queue, failing, faults, disturbed>>

\* Handlers that return before they do anything.
Skip(u) ==
  /\ \E e \in queue[u] :
       /\ Turn(u, e)
       /\ \/ u # leader /\ (Routers => dbInitialised)
          \/ ~Routers /\ ~dbInitialised
          \/ e[2] = "scaled"
       /\ Handled(u, e)
       /\ disturbed' = IF u = leader /\ e[2] = "broken" /\ user[e[1]] # Nothing
                         THEN disturbed \cup {e[1]} ELSE disturbed
  /\ UNCHANGED <<application, relation, request, mongo, databags, faults>>

\* relation-changed and database-requested.  The user is added if missing; one that
\* exists is not updated.
Changed(u, c) ==
  LET e == <<c, "changed">> IN
  /\ Turn(u, e) /\ Serves(u) /\ c \in Listed(u)
  /\ \/ AddUsers({c}) /\ Handled(u, e) /\ UNCHANGED <<faults, disturbed>>
     \/ /\ user[c] = Nothing /\ user' = UsersAdded({c})      \* dies before it commits
        /\ Raised(u, e) /\ Fault /\ disturbed' = disturbed \cup {c}
  /\ UNCHANGED <<application, relation, request, data>>

\* Whether remove_user finds the client among the managed users: add_user has just
\* put it there if the user was missing.
Remembered(c) == c \in managed \/ (~Routers /\ user[c] = Nothing)

(* Mutant: remove_user before add_user, which makes the user again. *)
DroppedFirst(c) == [user EXCEPT ![c] = request[c]]

Dropped(c) == [user EXCEPT ![c] = Nothing]

(* Mutant: managed-users is not saved. *)
ForgottenUnsaved(c) == managed

Forgotten(c) == managed \ {c}

\* relation-broken of a relation that was removed.
Broken(u, c) ==
  LET e == <<c, "broken">> IN
  /\ Turn(u, e) /\ Serves(u) /\ request[c] # Nothing
  /\ user' = Dropped(c)
  /\ \/ /\ Remembered(c)
        /\ queue' = [queue EXCEPT ![u] = @ \ {e, <<c, "changed">>}]
        /\ failing' = [failing EXCEPT ![u] = {}]
        /\ managed' = Forgotten(c)
        /\ data' \in {data, data \ {c}}                      \* auto-delete
        /\ credentials' = [credentials EXCEPT ![c] = "none"]
        /\ UNCHANGED <<faults, disturbed>>
     \/ /\ ~Remembered(c) /\ Raised(u, e)                    \* KeyError
        /\ UNCHANGED <<data, faults, disturbed>>
     \/ /\ Raised(u, e) /\ Fault /\ UNCHANGED disturbed      \* dies before it commits
        /\ data' = data \/ (Remembered(c) /\ data' = data \ {c})
  /\ UNCHANGED <<application, relation, request>>

\* relation-broken of a relation that never requested a database, or one that finds
\* its data gone because it was deferred: add_user raises, which a replica set
\* answers by deferring for ever.
NotRequested(u, c) ==
  /\ \E k \in {"broken", "late"} :
       LET e == <<c, k>> IN
       /\ Turn(u, e) /\ Serves(u) /\ (k = "broken" => request[c] = Nothing)
       /\ IF Routers THEN Raised(u, e)
          ELSE /\ Handled(u, e) /\ UNCHANGED databags
  /\ UNCHANGED <<application, relation, request, mongo, faults, disturbed>>

\* relation-broken deferred: for a refresh in progress, for MongoDB out of reach, by
\* a config-server also before the set is initialised.
Defer(u, c) ==
  LET e == <<c, "broken">> IN
  /\ Turn(u, e)
  /\ \/ u = leader /\ dbInitialised /\ upgrading /\ UNCHANGED faults
     \/ Routers /\ ~dbInitialised /\ UNCHANGED faults
     \/ ~Routers /\ Serves(u) /\ Fault
  /\ queue' = [queue EXCEPT ![u] = (@ \ {e, <<c, "changed">>}) \cup {<<c, "late">>}]
  /\ failing' = [failing EXCEPT ![u] = {}]
  /\ disturbed' = disturbed \cup {c}
  /\ UNCHANGED <<application, relation, request, mongo, databags>>

(* Mutant: the credentials are made anew each time. *)
IncompleteAlways(u, c) == c \in Listed(u) /\ request[c] # Nothing

\* Clients whose databag has no credentials yet.
Incomplete(u, c) == c \in Listed(u) /\ request[c] # Nothing /\ credentials[c] = "none"

\* update-status outside of a refresh, or the departure of a peer at any time: the
\* leader completes the databags of its clients, with a new password if there is none.
UpdateRelatedHosts(u) ==
  /\ u = leader /\ u \in present /\ dbInitialised /\ ~Routers /\ failing[u] = {}
  /\ credentials' = [c \in Clients |->
       IF Incomplete(u, c) THEN "wrong" ELSE credentials[c]]
  /\ UNCHANGED <<application, relation, request, mongo, managed, queue, failing, faults, disturbed>>

-----------------------------------------------------------------------------
(* Juju, the operator and the clients *)

Relate(c) ==
  /\ relation[c] = "absent"
  /\ relation' = [relation EXCEPT ![c] = "there"]
  /\ UNCHANGED <<application, request, mongo, databags, queue, failing, faults, disturbed>>

\* A client requests its database; a router may later ask for other roles.
Request(c) ==
  /\ relation[c] = "there"
  /\ \E r \in Roles :
       /\ request[c] = Nothing \/ (Routers /\ request[c] = "default" /\ r = "admin")
       /\ request' = [request EXCEPT ![c] = r]
  /\ queue' = Tell({<<c, "changed">>})
  /\ UNCHANGED <<application, relation, mongo, databags, failing, faults, disturbed>>

UseDatabase(c) ==
  /\ relation[c] = "there" /\ credentials[c] = "working" /\ user[c] # Nothing
  /\ data' = data \cup {c}
  /\ UNCHANGED <<application, relation, request, user, databags, queue, failing, faults, disturbed>>

RemoveRelation(c) ==
  /\ relation[c] = "there"
  /\ relation' = [relation EXCEPT ![c] = "removed"]
  /\ queue' = Tell({<<c, "broken">>})
  /\ UNCHANGED <<application, request, mongo, databags, failing, faults, disturbed>>

(* Mutant: the departing unit is not told from ours. *)
BreaksUnnoted(c) == <<c, "broken">>

\* How relation-broken goes on a unit that is removed: check_relation_broken_or_
\* scale_down has noted it.
Breaks(c) == <<c, "scaled">>

ScaleDown(u) ==
  /\ u \in present \ leaving /\ present \ leaving # {u} /\ dbInitialised /\ Fault
  /\ leaving' = leaving \cup {u}
  /\ queue' = [queue EXCEPT ![u] =
       @ \cup {Breaks(c) : c \in {d \in Clients : relation[d] = "there"}}]
  /\ UNCHANGED <<kind, leader, present, dbInitialised, upgrading, relation, request,
                 mongo, databags, failing, disturbed>>

\* Clients an event of whom the leader has before it, and unit u no longer.
Missed(u) == {c \in Clients : \E e \in queue[leader] \ queue[u] : e[1] = c /\ e[2] # "scaled"}

Lead(u) ==
  /\ u \in present \ leaving /\ u # leader
  /\ leader' = u /\ disturbed' = disturbed \cup Missed(u)

\* Before the set is initialised a change of leader is the concern of ReplicaSet.
LeaderElected(u) ==
  /\ Lead(u) /\ dbInitialised /\ Fault
  /\ UNCHANGED <<kind, present, leaving, dbInitialised, upgrading, relation, request,
                 mongo, databags, queue, failing>>

\* A unit on its way out has run its last hook.
Gone(u) ==
  /\ u \in leaving \cap present /\ \A e \in queue[u] : e[2] # "scaled"
  /\ present' = present \ {u}
  /\ \/ u = leader /\ \E v \in Units : Lead(v)
     \/ u # leader /\ UNCHANGED <<leader, disturbed>>
  /\ UNCHANGED <<kind, leaving, dbInitialised, upgrading, relation, request, mongo,
                 databags, queue, failing, faults>>

BeginUpgrade ==
  /\ ~upgrading /\ dbInitialised /\ Fault
  /\ upgrading' = TRUE
  /\ UNCHANGED <<kind, leader, present, leaving, dbInitialised, relation, request, mongo,
                 databags, queue, failing, disturbed>>

EndUpgrade ==
  /\ upgrading /\ upgrading' = FALSE
  /\ UNCHANGED <<kind, leader, present, leaving, dbInitialised, relation, request, mongo,
                 databags, queue, failing, faults, disturbed>>

Client(c) == Relate(c) \/ Request(c) \/ UseDatabase(c) \/ RemoveRelation(c)

Handle(u) ==
  Skip(u) \/ \E c \in Clients : Changed(u, c) \/ Broken(u, c) \/ NotRequested(u, c) \/ Defer(u, c)

Next ==
  \/ \E c \in Clients : Client(c)
  \/ \E u \in Units :
       \/ Handle(u) \/ Start(u) \/ UpdateRelatedHosts(u)
       \/ ScaleDown(u) \/ LeaderElected(u) \/ Gone(u)
  \/ BeginUpgrade \/ EndUpgrade

Spec == Init /\ [][Next]_vars

\* Juju runs the hooks of the units that are there, a start that was deferred again
\* with every one of them; a unit on its way out leaves, a refresh ends.  None of
\* these can go on for ever and keep another one from happening.
Progress == (\E u \in Units : Handle(u) \/ Start(u) \/ Gone(u)) \/ EndUpgrade

FairSpec == Spec /\ WF_vars(Progress)

-----------------------------------------------------------------------------
(* What the handlers promise *)

\* A client loses its user, and its database, only when the relation was removed: not
\* when one of the application's own units is, whose relations break all the same.
UsersKept ==
  [][\A c \in Clients :
       \/ user[c] # Nothing /\ user'[c] = Nothing
       \/ c \in data \ data'
       => relation[c] = "removed" /\ user'[c] = Nothing]_vars

\* Credentials that log in are not replaced by others as long as the relation is
\* there, whatever handlers and refreshes come later.
CredentialsStay ==
  [][\A c \in Clients :
       relation[c] = "there" /\ credentials[c] = "working" => credentials'[c] = "working"]_vars

\* managed-users, saved at the end of a hook, keeps up with MongoDB, written in the
\* middle of it: a managed user exists, or the leader still has to remove it.
ManagedExist ==
  \A c \in managed :
    user[c] # Nothing \/ <<c, "broken">> \in queue[leader] \/ c \in disturbed

\* A hook of the leader that juju has to run again holds everything back.
HeldBack == failing[leader] # {}

\* A client that requests a database is offered credentials that log in, although
\* update-status may have offered it others before its user was made.
CredentialsConverge ==
  \A c \in Clients :
    relation[c] = "there" /\ request[c] # Nothing ~>
      \/ credentials[c] = "working" \/ relation[c] = "removed"
      \/ c \in disturbed \/ HeldBack

\* The user of a relation that was removed is dropped in the end, and not made again
\* by a handler that comes late.
RemovedGone ==
  \A c \in Clients :
    relation[c] = "removed" ~> [](user[c] = Nothing \/ c \in disturbed \/ HeldBack)

\* A relation-broken hook that failed succeeds when juju runs it again.
BrokenEnds ==
  \A u \in Units, c \in Clients :
    failing[u] = {<<c, "broken">>} /\ request[c] # Nothing ~> failing[u] # {<<c, "broken">>}
=============================================================================
