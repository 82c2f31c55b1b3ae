-------------------------- MODULE ClientUsersProofs --------------------------
(***************************************************************************)
(* The users of clients and routers, for any units, clients, roles and any *)
(* number of faults: a client keeps its user and credentials as long as it *)
(* is related, managed-users keeps up with MongoDB, and what a client asks *)
(* for and the end of its relation are done or still before the leader.    *)
(***************************************************************************)
EXTENDS ClientUsers, TLAPS

(* A relation-broken that was not noted as a scale-down comes of a relation *)
(* that was removed.                                                       *)
BrokenRemoved ==
  \A u \in Units, c \in Clients : <<c, "broken">> \in queue[u] => relation[c] = "removed"

(* A client whose relation changed has requested its database.             *)
ChangedAsked ==
  \A u \in Units, c \in Clients : <<c, "changed">> \in queue[u] => request[c] # Nothing

ManagedAsked == \A c \in managed : request[c] # Nothing

(* Nobody drops a user before the set is initialised.                      *)
NotYetDropped == ~dbInitialised => \A c \in managed : user[c] # Nothing

IInv ==
  /\ TypeOK
  /\ BrokenRemoved
  /\ ChangedAsked
  /\ ManagedAsked
  /\ NotYetDropped
  /\ ManagedExist

(* No relation is there at first, nothing is queued and nobody has a user. *)
LEMMA InitIInv == Init => IInv
<1> SUFFICES ASSUME Init PROVE IInv
  OBVIOUS
<1>1. TypeOK
  <2>1. faults \in 0..MaxFaults
    BY BoundsAssumption DEF Init
  <2>2. queue \in [Units -> SUBSET Events] /\ failing \in [Units -> SUBSET Events]
    BY DEF Init
  <2>3. relation \in [Clients -> {"absent", "there", "removed"}]
    BY DEF Init
  <2> QED
    BY <2>1, <2>2, <2>3, UnitsAssumption DEF Init, TypeOK
<1>2. BrokenRemoved /\ ChangedAsked
  BY DEF Init, BrokenRemoved, ChangedAsked
<1>3. ManagedAsked /\ NotYetDropped /\ ManagedExist
  BY DEF Init, ManagedAsked, NotYetDropped, ManagedExist
<1> QED
  BY <1>1, <1>2, <1>3 DEF IInv

(* An event leaves one queue and the others stay as they are.              *)
LEMMA HandledQueue ==
  ASSUME TypeOK, NEW u \in Units, NEW e, Handled(u, e)
  PROVE  /\ queue' \in [Units -> SUBSET Events] /\ failing' \in [Units -> SUBSET Events]
         /\ \A v \in Units : queue'[v] \subseteq queue[v]
         /\ \A v \in Units : \A d \in queue[v] : d # e => d \in queue'[v]
BY DEF TypeOK, Handled

(* The hook of an event that raised keeps it and everything else.          *)
LEMMA RaisedQueue ==
  ASSUME TypeOK, NEW u \in Units, NEW e \in Events, Raised(u, e)
  PROVE  /\ queue' = queue /\ credentials' = credentials /\ managed' = managed
         /\ failing' \in [Units -> SUBSET Events]
BY DEF TypeOK, Raised, databags

(* Events the units are told of are added to those they have.              *)
LEMMA ToldQueue ==
  ASSUME TypeOK, NEW events \in SUBSET Events
  PROVE  /\ Tell(events) \in [Units -> SUBSET Events]
         /\ \A u \in Units : queue[u] \subseteq Tell(events)[u]
         /\ \A u \in Units : Tell(events)[u] \subseteq queue[u] \cup events
BY DEF TypeOK, Tell

(* What the invariant says of the queues survives their growing shorter,   *)
(* unless it is by a relation-broken event of a managed client.            *)
LEMMA QueuesShorten ==
  ASSUME IInv, NEW u \in Units,
         queue' \in [Units -> SUBSET Events],
         \A v \in Units : queue'[v] \subseteq queue[v],
         \A v \in Units \ {u} : queue'[v] = queue[v],
         UNCHANGED <<relation, request>>
  PROVE  BrokenRemoved' /\ ChangedAsked'
BY DEF IInv, BrokenRemoved, ChangedAsked

(* Making users keeps the types, leaves the users there are, and makes one *)
(* for every client it adds to the managed ones.                           *)
LEMMA AddUsersAdds ==
  ASSUME TypeOK, NEW C \in SUBSET Clients, \A c \in C : request[c] # Nothing, AddUsers(C)
  PROVE  /\ user' \in [Clients -> Roles \cup {Nothing}]
         /\ credentials' \in [Clients -> {"none", "working", "wrong"}]
         /\ managed' \subseteq Clients /\ managed \subseteq managed'
         /\ \A c \in Clients : user[c] # Nothing => user'[c] # Nothing
         /\ \A c \in managed' \ managed : c \in C /\ user'[c] # Nothing
         /\ \A c \in Clients : credentials[c] = "working" => credentials'[c] = "working"
BY DEF TypeOK, AddUsers, UsersAdded, Created

(* The deferrals of events and the hooks that die stay within the bound.   *)
LEMMA FaultCounted ==
  ASSUME TypeOK, Fault
  PROVE  faults' \in 0..MaxFaults
BY BoundsAssumption DEF TypeOK, Fault

(* The leader's start hook.                                                *)
LEMMA StartKeeps ==
  ASSUME IInv, NEW u \in Units, Start(u)
  PROVE  IInv'
<1>1. PICK C \in SUBSET {c \in Listed(u) : request[c] # Nothing} :
        AddUsers(C) /\ dbInitialised' = (C = Listed(u))
  BY DEF Start
<1>2. C \in SUBSET Clients /\ \A c \in C : request[c] # Nothing
  BY DEF Listed
<1>3. /\ user' \in [Clients -> Roles \cup {Nothing}]
      /\ credentials' \in [Clients -> {"none", "working", "wrong"}]
      /\ managed' \subseteq Clients /\ managed \subseteq managed'
      /\ \A c \in Clients : user[c] # Nothing => user'[c] # Nothing
      /\ \A c \in managed' \ managed : c \in C /\ user'[c] # Nothing
  BY <1>1, <1>2, AddUsersAdds DEF IInv
<1>4. TypeOK'
  BY <1>1, <1>3 DEF IInv, TypeOK, Start
<1>5. BrokenRemoved' /\ ChangedAsked'
  BY DEF IInv, BrokenRemoved, ChangedAsked, Start
<1>6. ManagedAsked'
  BY <1>2, <1>3 DEF IInv, ManagedAsked, Start
<1>7. \A c \in managed' : user'[c] # Nothing
  BY <1>3 DEF IInv, TypeOK, NotYetDropped, Start
<1>8. NotYetDropped' /\ ManagedExist'
  BY <1>7 DEF NotYetDropped, ManagedExist
<1> QED
  BY <1>4, <1>5, <1>6, <1>8 DEF IInv

(* Handlers that return at once: what the leader lets go is not a managed  *)
(* client's relation-broken event.                                         *)
LEMMA SkipKeeps ==
  ASSUME IInv, NEW u \in Units, Skip(u)
  PROVE  IInv'
<1>1. PICK e \in queue[u] :
        /\ Turn(u, e) /\ Handled(u, e)
        /\ \/ u # leader /\ (Routers => dbInitialised)
           \/ ~Routers /\ ~dbInitialised
           \/ e[2] = "scaled"
        /\ disturbed' = IF u = leader /\ e[2] = "broken" /\ user[e[1]] # Nothing
                          THEN disturbed \cup {e[1]} ELSE disturbed
  BY DEF Skip
<1>2. /\ queue' \in [Units -> SUBSET Events] /\ failing' \in [Units -> SUBSET Events]
      /\ \A v \in Units : queue'[v] \subseteq queue[v]
      /\ \A v \in Units : \A d \in queue[v] : d # e => d \in queue'[v]
      /\ \A v \in Units \ {u} : queue'[v] = queue[v]
  BY <1>1, HandledQueue DEF IInv, TypeOK, Handled
<1>3. e \in Events
  BY DEF IInv, TypeOK
<1>4. disturbed' \subseteq Clients /\ disturbed \subseteq disturbed'
  BY <1>1, <1>3 DEF IInv, TypeOK, Events
<1>5. TypeOK'
  BY <1>2, <1>4 DEF IInv, TypeOK, Skip, application, mongo, databags
<1>6. BrokenRemoved' /\ ChangedAsked'
  BY <1>2, QueuesShorten DEF Skip
<1>7. ManagedAsked' /\ NotYetDropped'
  BY DEF IInv, ManagedAsked, NotYetDropped, Skip, application, mongo, databags
<1>8. ManagedExist'
  <2>1. SUFFICES ASSUME NEW c \in managed', user'[c] = Nothing, c \notin disturbed'
                 PROVE  <<c, "broken">> \in queue'[leader']
    BY DEF ManagedExist
  <2>2. UNCHANGED <<managed, user, leader, dbInitialised>> /\ c \in Clients
    BY <2>1, <1>5 DEF Skip, application, mongo, databags, TypeOK
  <2>3. <<c, "broken">> \in queue[leader] /\ dbInitialised
    BY <2>1, <2>2, <1>4 DEF IInv, ManagedExist, NotYetDropped, TypeOK
  <2>4. u = leader => e # <<c, "broken">>
    BY <2>3, <1>1
  <2> QED
    BY <2>2, <2>3, <2>4, <1>2 DEF IInv, TypeOK
<1> QED
  BY <1>5, <1>6, <1>7, <1>8 DEF IInv

(* relation-changed and database-requested.                                *)
LEMMA ChangedKeeps ==
  ASSUME IInv, NEW u \in Units, NEW c \in Clients, Changed(u, c)
  PROVE  IInv'
<1> DEFINE e == <<c, "changed">>
<1>1. e \in Events /\ request[c] # Nothing /\ dbInitialised
  BY DEF IInv, TypeOK, ChangedAsked, Changed, Turn, Serves, Events
<1>2. CASE AddUsers({c}) /\ Handled(u, e) /\ UNCHANGED <<faults, disturbed>>
  <2>1. /\ user' \in [Clients -> Roles \cup {Nothing}]
        /\ credentials' \in [Clients -> {"none", "working", "wrong"}]
        /\ managed' \subseteq Clients /\ managed \subseteq managed'
        /\ \A d \in Clients : user[d] # Nothing => user'[d] # Nothing
        /\ \A d \in managed' \ managed : d \in {c} /\ user'[d] # Nothing
    BY <1>1, <1>2, AddUsersAdds DEF IInv
  <2>2. /\ queue' \in [Units -> SUBSET Events] /\ failing' \in [Units -> SUBSET Events]
        /\ \A v \in Units : queue'[v] \subseteq queue[v]
        /\ \A v \in Units : \A d \in queue[v] : d # e => d \in queue'[v]
        /\ \A v \in Units \ {u} : queue'[v] = queue[v]
    BY <1>2, HandledQueue DEF IInv, TypeOK, Handled
  <2>3. TypeOK'
    BY <1>2, <2>1, <2>2 DEF IInv, TypeOK, Changed, application
  <2>4. BrokenRemoved' /\ ChangedAsked'
    BY <2>2, QueuesShorten DEF Changed
  <2>5. ManagedAsked' /\ NotYetDropped'
    BY <1>1, <2>1 DEF IInv, ManagedAsked, NotYetDropped, Changed, application
  <2>6. ManagedExist'
    <3>1. SUFFICES ASSUME NEW d \in managed', user'[d] = Nothing, d \notin disturbed'
                   PROVE  <<d, "broken">> \in queue'[leader']
      BY DEF ManagedExist
    <3>2. <<d, "broken">> \in queue[leader]
      BY <1>2, <2>1, <3>1 DEF IInv, ManagedExist
    <3> QED
      BY <3>2, <2>2 DEF IInv, TypeOK, Changed, application
  <2> QED
    BY <2>3, <2>4, <2>5, <2>6 DEF IInv
<1>3. CASE user' = UsersAdded({c}) /\ Raised(u, e) /\ Fault /\ disturbed' = disturbed \cup {c}
  <2>1. queue' = queue /\ credentials' = credentials /\ managed' = managed
        /\ failing' \in [Units -> SUBSET Events] /\ faults' \in 0..MaxFaults
    BY <1>1, <1>3, RaisedQueue, FaultCounted DEF IInv
  <2>2. /\ user' \in [Clients -> Roles \cup {Nothing}]
        /\ \A d \in Clients : user[d] # Nothing => user'[d] # Nothing
    BY <1>3 DEF IInv, TypeOK, UsersAdded, Created
  <2>3. TypeOK'
    BY <1>3, <2>1, <2>2 DEF IInv, TypeOK, Changed, application
  <2> QED
    BY <1>1, <1>3, <2>1, <2>2, <2>3
    DEF IInv, TypeOK, BrokenRemoved, ChangedAsked, ManagedAsked, NotYetDropped, ManagedExist,
        Changed, application
<1> QED
  BY <1>2, <1>3 DEF Changed

(* relation-broken: the user goes from MongoDB at once, and from the       *)
(* managed ones with the event or not at all.                              *)
LEMMA BrokenKeeps ==
  ASSUME IInv, NEW u \in Units, NEW c \in Clients, Broken(u, c)
  PROVE  IInv'
<1> DEFINE e == <<c, "broken">>
<1>1. e \in Events /\ e \in queue[u] /\ u = leader /\ dbInitialised
  BY DEF Broken, Turn, Serves, Events
<1>2. /\ user' \in [Clients -> Roles \cup {Nothing}]
      /\ \A d \in Clients \ {c} : user'[d] = user[d]
  BY DEF Broken, Dropped, IInv, TypeOK
<1>3. data' \subseteq Clients
  BY DEF Broken, IInv, TypeOK
<1>4. CASE /\ queue' = [queue EXCEPT ![u] = @ \ {e, <<c, "changed">>}]
           /\ failing' = [failing EXCEPT ![u] = {}]
           /\ managed' = Forgotten(c)
           /\ credentials' = [credentials EXCEPT ![c] = "none"]
           /\ UNCHANGED <<faults, disturbed>>
  <2>1. /\ queue' \in [Units -> SUBSET Events] /\ failing' \in [Units -> SUBSET Events]
        /\ \A v \in Units : queue'[v] \subseteq queue[v]
        /\ \A v \in Units \ {u} : queue'[v] = queue[v]
    BY <1>4 DEF IInv, TypeOK
  <2>2. managed' = managed \ {c}
    BY <1>4 DEF Forgotten
  <2>3. credentials' \in [Clients -> {"none", "working", "wrong"}]
    BY <1>4 DEF IInv, TypeOK
  <2>4. TypeOK'
    BY <1>2, <1>3, <1>4, <2>1, <2>2, <2>3 DEF IInv, TypeOK, Broken, application
  <2>5. BrokenRemoved' /\ ChangedAsked'
    BY <2>1, QueuesShorten DEF Broken
  <2>6. ManagedAsked' /\ NotYetDropped'
    BY <1>1, <2>2 DEF IInv, ManagedAsked, NotYetDropped, Broken, application
  <2>7. ManagedExist'
    <3>1. SUFFICES ASSUME NEW d \in managed', user'[d] = Nothing, d \notin disturbed'
                   PROVE  <<d, "broken">> \in queue'[leader']
      BY DEF ManagedExist
    <3>2. d # c /\ d \in Clients /\ <<d, "broken">> \in queue[leader]
      BY <1>2, <1>4, <2>2, <3>1 DEF IInv, ManagedExist, TypeOK
    <3>3. <<d, "broken">> # e /\ <<d, "broken">> # <<c, "changed">>
      BY <3>2
    <3>4. queue'[u] = queue[u] \ {e, <<c, "changed">>}
      BY <1>4 DEF IInv, TypeOK
    <3> QED
      BY <1>1, <3>2, <3>3, <3>4 DEF Broken, application
  <2> QED
    BY <2>4, <2>5, <2>6, <2>7 DEF IInv
<1>5. CASE ~Remembered(c) /\ Raised(u, e) /\ UNCHANGED <<data, faults, disturbed>>
  <2>1. queue' = queue /\ credentials' = credentials /\ managed' = managed
        /\ failing' \in [Units -> SUBSET Events]
    BY <1>1, <1>5, RaisedQueue DEF IInv
  <2>2. c \notin managed
    BY <1>5 DEF Remembered
  <2>3. TypeOK'
    BY <1>2, <1>5, <2>1 DEF IInv, TypeOK, Broken, application
  <2> QED
    BY <1>1, <1>2, <1>5, <2>1, <2>2, <2>3
    DEF IInv, TypeOK, BrokenRemoved, ChangedAsked, ManagedAsked, NotYetDropped, ManagedExist,
        Broken, application
<1>6. CASE Raised(u, e) /\ Fault /\ UNCHANGED disturbed
  <2>1. queue' = queue /\ credentials' = credentials /\ managed' = managed
        /\ failing' \in [Units -> SUBSET Events] /\ faults' \in 0..MaxFaults
    BY <1>1, <1>6, RaisedQueue, FaultCounted DEF IInv
  <2>2. TypeOK'
    BY <1>2, <1>3, <1>6, <2>1 DEF IInv, TypeOK, Broken, application
  <2>3. BrokenRemoved' /\ ChangedAsked' /\ ManagedAsked' /\ NotYetDropped'
    BY <1>1, <2>1
    DEF IInv, BrokenRemoved, ChangedAsked, ManagedAsked, NotYetDropped, Broken, application
  <2>4. ManagedExist'
    BY <1>1, <1>2, <1>6, <2>1 DEF IInv, TypeOK, ManagedExist, Broken, application
  <2> QED
    BY <2>2, <2>3, <2>4 DEF IInv
<1> QED
  BY <1>4, <1>5, <1>6 DEF Broken

(* relation-broken without a request: no managed client has it.            *)
LEMMA NotRequestedKeeps ==
  ASSUME IInv, NEW u \in Units, NEW c \in Clients, NotRequested(u, c)
  PROVE  IInv'
<1>1. PICK k \in {"broken", "late"} :
        /\ Turn(u, <<c, k>>) /\ (k = "broken" => request[c] = Nothing)
        /\ IF Routers THEN Raised(u, <<c, k>>)
           ELSE Handled(u, <<c, k>>) /\ UNCHANGED databags
  BY DEF NotRequested
<1> DEFINE e == <<c, k>>
<1>2. e \in Events
  BY DEF Events
<1>3. /\ queue' \in [Units -> SUBSET Events] /\ failing' \in [Units -> SUBSET Events]
      /\ \A v \in Units : queue'[v] \subseteq queue[v]
      /\ \A v \in Units : \A d \in queue[v] : d # e => d \in queue'[v]
      /\ \A v \in Units \ {u} : queue'[v] = queue[v]
      /\ credentials' = credentials /\ managed' = managed
  <2>1. CASE Routers
    BY <2>1, <1>1, <1>2, RaisedQueue DEF IInv, TypeOK
  <2>2. CASE ~Routers
    BY <2>2, <1>1, <1>2, HandledQueue DEF IInv, TypeOK, Handled, databags
  <2> QED
    BY <2>1, <2>2
<1>4. TypeOK'
  BY <1>3 DEF IInv, TypeOK, NotRequested, application, mongo
<1>5. BrokenRemoved' /\ ChangedAsked'
  BY <1>3, QueuesShorten DEF NotRequested
<1>6. ManagedAsked' /\ NotYetDropped'
  BY <1>3 DEF IInv, ManagedAsked, NotYetDropped, NotRequested, application, mongo
<1>7. ManagedExist'
  <2>1. SUFFICES ASSUME NEW d \in managed', user'[d] = Nothing, d \notin disturbed'
                 PROVE  <<d, "broken">> \in queue'[leader']
    BY DEF ManagedExist
  <2>2. d \in managed /\ <<d, "broken">> \in queue[leader]
    BY <1>3, <2>1 DEF IInv, ManagedExist, NotRequested, mongo
  <2>3. <<d, "broken">> # e
    BY <1>1, <2>2 DEF IInv, ManagedAsked
  <2> QED
    BY <1>3, <2>2, <2>3 DEF IInv, TypeOK, NotRequested, application
<1> QED
  BY <1>4, <1>5, <1>6, <1>7 DEF IInv

(* relation-broken deferred: its client is among the disturbed.            *)
LEMMA DeferKeeps ==
  ASSUME IInv, NEW u \in Units, NEW c \in Clients, Defer(u, c)
  PROVE  IInv'
<1> DEFINE e == <<c, "broken">>
           gone == {e, <<c, "changed">>}
<1>1. /\ <<c, "late">> \in Events
      /\ queue' = [queue EXCEPT ![u] = (@ \ gone) \cup {<<c, "late">>}]
      /\ failing' = [failing EXCEPT ![u] = {}]
      /\ disturbed' = disturbed \cup {c}
  BY DEF Defer, Events
<1>2. faults' \in 0..MaxFaults
  BY FaultCounted DEF Defer, IInv, TypeOK
<1>3. queue' \in [Units -> SUBSET Events] /\ failing' \in [Units -> SUBSET Events]
  BY <1>1 DEF IInv, TypeOK
<1>4. TypeOK'
  BY <1>1, <1>2, <1>3 DEF IInv, TypeOK, Defer, application, mongo, databags
<1>5. \A v \in Units : queue'[v] = IF v = u THEN (queue[v] \ gone) \cup {<<c, "late">>} ELSE queue[v]
  BY <1>1 DEF IInv, TypeOK
<1>6. BrokenRemoved' /\ ChangedAsked'
  BY <1>5 DEF IInv, BrokenRemoved, ChangedAsked, Defer
<1>7. ManagedAsked' /\ NotYetDropped'
  BY DEF IInv, ManagedAsked, NotYetDropped, Defer, application, mongo, databags
<1>8. ManagedExist'
  <2>1. SUFFICES ASSUME NEW d \in managed', user'[d] = Nothing, d \notin disturbed'
                 PROVE  <<d, "broken">> \in queue'[leader']
    BY DEF ManagedExist
  <2>2. d # c /\ <<d, "broken">> \in queue[leader]
    BY <1>1, <2>1 DEF IInv, ManagedExist, Defer, mongo, databags
  <2>3. <<d, "broken">> \notin gone
    BY <2>2
  <2>4. leader' = leader /\ leader \in Units
    BY DEF Defer, application, IInv, TypeOK
  <2> HIDE DEF gone
  <2> QED
    BY <1>5, <2>2, <2>3, <2>4
<1> QED
  BY <1>4, <1>6, <1>7, <1>8 DEF IInv

(* update-status writes credentials and nothing else.                      *)
LEMMA UpdateRelatedHostsKeeps ==
  ASSUME IInv, NEW u \in Units, UpdateRelatedHosts(u)
  PROVE  IInv'
BY DEF IInv, TypeOK, BrokenRemoved, ChangedAsked, ManagedAsked, NotYetDropped, ManagedExist,
       UpdateRelatedHosts, application, mongo

(* The clients: a request is told of with its roles, a removal when the    *)
(* relation is gone.                                                       *)
LEMMA ClientKeeps ==
  ASSUME IInv, NEW c \in Clients, Client(c)
  PROVE  IInv'
<1> USE DEF application, mongo, databags
<1>1. CASE Relate(c)
  BY <1>1 DEF IInv, TypeOK, BrokenRemoved, ChangedAsked, ManagedAsked, NotYetDropped,
              ManagedExist, Relate
<1>2. CASE Request(c)
  <2>1. PICK r \in Roles : request' = [request EXCEPT ![c] = r]
    BY <1>2 DEF Request
  <2>2. {<<c, "changed">>} \in SUBSET Events
    BY DEF Events
  <2>3. /\ queue' \in [Units -> SUBSET Events]
        /\ \A u \in Units : queue[u] \subseteq queue'[u]
        /\ \A u \in Units : queue'[u] \subseteq queue[u] \cup {<<c, "changed">>}
    BY <1>2, <2>2, ToldQueue DEF IInv, Request
  <2>4. /\ request' \in [Clients -> Roles \cup {Nothing}]
        /\ request'[c] # Nothing
        /\ \A d \in Clients \ {c} : request'[d] = request[d]
    BY <2>1, RolesAssumption DEF IInv, TypeOK
  <2>5. TypeOK'
    BY <1>2, <2>3, <2>4 DEF IInv, TypeOK, Request
  <2>6. BrokenRemoved' /\ ChangedAsked'
    BY ZenonT(60), <1>2, <2>3, <2>4 DEF IInv, BrokenRemoved, ChangedAsked, Request
  <2>7. ManagedAsked' /\ NotYetDropped'
    BY <1>2, <2>4 DEF IInv, TypeOK, ManagedAsked, NotYetDropped, Request
  <2>8. ManagedExist'
    BY <1>2, <2>3 DEF IInv, TypeOK, ManagedExist, Request
  <2> QED
    BY <2>5, <2>6, <2>7, <2>8 DEF IInv
<1>3. CASE UseDatabase(c)
  BY <1>3 DEF IInv, TypeOK, BrokenRemoved, ChangedAsked, ManagedAsked, NotYetDropped,
              ManagedExist, UseDatabase
<1>4. CASE RemoveRelation(c)
  <2>1. {<<c, "broken">>} \in SUBSET Events
    BY DEF Events
  <2>2. /\ queue' \in [Units -> SUBSET Events]
        /\ \A u \in Units : queue[u] \subseteq queue'[u]
        /\ \A u \in Units : queue'[u] \subseteq queue[u] \cup {<<c, "broken">>}
    BY <1>4, <2>1, ToldQueue DEF IInv, RemoveRelation
  <2>3. relation' \in [Clients -> {"absent", "there", "removed"}]
        /\ relation'[c] = "removed" /\ \A d \in Clients \ {c} : relation'[d] = relation[d]
    BY <1>4 DEF IInv, TypeOK, RemoveRelation
  <2>4. TypeOK'
    BY <1>4, <2>2, <2>3 DEF IInv, TypeOK, RemoveRelation
  <2>5. BrokenRemoved' /\ ChangedAsked'
    BY <1>4, <2>2, <2>3 DEF IInv, BrokenRemoved, ChangedAsked, RemoveRelation
  <2>6. ManagedAsked' /\ NotYetDropped' /\ ManagedExist'
    BY <1>4, <2>2 DEF IInv, TypeOK, ManagedAsked, NotYetDropped, ManagedExist, RemoveRelation
  <2> QED
    BY <2>4, <2>5, <2>6 DEF IInv
<1> QED
  BY <1>1, <1>2, <1>3, <1>4 DEF Client

(* The relations of a unit on its way out break as scaled down.            *)
LEMMA ScaleDownKeeps ==
  ASSUME IInv, NEW u \in Units, ScaleDown(u)
  PROVE  IInv'
<1> DEFINE down == {Breaks(c) : c \in {d \in Clients : relation[d] = "there"}}
<1>1. down \subseteq Events /\ \A e \in down : e[2] = "scaled"
  BY DEF Events, Breaks
<1>2. queue' = [queue EXCEPT ![u] = @ \cup down]
  BY DEF ScaleDown
<1>3. \A c \in Clients : <<c, "broken">> \notin down /\ <<c, "changed">> \notin down
  BY DEF Breaks
<1> HIDE DEF down
<1>4. /\ queue' \in [Units -> SUBSET Events]
      /\ \A v \in Units : queue[v] \subseteq queue'[v]
      /\ \A v \in Units : queue'[v] \subseteq queue[v] \cup down
  BY <1>1, <1>2 DEF IInv, TypeOK
<1>5. faults' \in 0..MaxFaults
  BY FaultCounted DEF ScaleDown, IInv
<1>6. TypeOK'
  BY <1>4, <1>5 DEF IInv, TypeOK, ScaleDown, mongo, databags
<1>7. BrokenRemoved' /\ ChangedAsked'
  BY <1>3, <1>4 DEF IInv, BrokenRemoved, ChangedAsked, ScaleDown
<1>8. ManagedAsked' /\ NotYetDropped' /\ ManagedExist'
  BY <1>4 DEF IInv, TypeOK, ManagedAsked, NotYetDropped, ManagedExist, ScaleDown, mongo, databags
<1> QED
  BY <1>6, <1>7, <1>8 DEF IInv

(* A new leader has the events of the old one, or their clients are among  *)
(* the disturbed.                                                          *)
LEMMA LeadKeeps ==
  ASSUME IInv, NEW u \in Units, Lead(u), UNCHANGED <<mongo, databags, queue>>
  PROVE  leader' \in Units /\ disturbed' \subseteq Clients /\ ManagedExist'
<1>1. leader' = u /\ disturbed' = disturbed \cup Missed(u)
  BY DEF Lead
<1>2. disturbed' \subseteq Clients
  BY <1>1 DEF Missed, IInv, TypeOK
<1>3. ManagedExist'
  <2>1. SUFFICES ASSUME NEW c \in managed', user'[c] = Nothing, c \notin disturbed'
                 PROVE  <<c, "broken">> \in queue'[leader']
    BY DEF ManagedExist
  <2>2. c \in Clients /\ <<c, "broken">> \in queue[leader]
    BY <1>1, <2>1 DEF IInv, ManagedExist, TypeOK, mongo, databags
  <2>3. <<c, "broken">> \notin queue[leader] \ queue[u]
    <3>1. c \notin Missed(u)
      BY <1>1, <2>1
    <3>2. <<c, "broken">>[1] = c /\ <<c, "broken">>[2] # "scaled"
      OBVIOUS
    <3> QED
      BY <3>1, <3>2, <2>2 DEF Missed
  <2> QED
    BY <1>1, <2>2, <2>3
<1> QED
  BY <1>1, <1>2, <1>3

LEMMA LeaderElectedKeeps ==
  ASSUME IInv, NEW u \in Units, LeaderElected(u)
  PROVE  IInv'
<1>1. leader' \in Units /\ disturbed' \subseteq Clients /\ ManagedExist'
  BY LeadKeeps DEF LeaderElected
<1>2. faults' \in 0..MaxFaults
  BY FaultCounted DEF LeaderElected, IInv
<1>3. TypeOK'
  BY <1>1, <1>2 DEF IInv, TypeOK, LeaderElected, mongo, databags
<1>4. BrokenRemoved' /\ ChangedAsked' /\ ManagedAsked' /\ NotYetDropped'
  BY DEF IInv, BrokenRemoved, ChangedAsked, ManagedAsked, NotYetDropped, LeaderElected, mongo,
         databags
<1> QED
  BY <1>1, <1>3, <1>4 DEF IInv

(* A unit leaves, the leader included.                                     *)
LEMMA GoneKeeps ==
  ASSUME IInv, NEW u \in Units, Gone(u)
  PROVE  IInv'
<1>1. UNCHANGED <<mongo, databags, queue>>
  BY DEF Gone
<1>2. leader' \in Units /\ disturbed' \subseteq Clients /\ ManagedExist'
  <2>1. CASE UNCHANGED <<leader, disturbed>>
    BY <2>1, <1>1 DEF IInv, TypeOK, ManagedExist, mongo, databags
  <2>2. ASSUME NEW v \in Units, Lead(v)
        PROVE  leader' \in Units /\ disturbed' \subseteq Clients /\ ManagedExist'
    BY <2>2, <1>1, LeadKeeps
  <2> QED
    BY <2>1, <2>2 DEF Gone
<1>3. present' \subseteq Units
  BY DEF Gone, IInv, TypeOK
<1>4. TypeOK'
  BY <1>2, <1>3 DEF IInv, TypeOK, Gone, mongo, databags
<1>5. BrokenRemoved' /\ ChangedAsked' /\ ManagedAsked' /\ NotYetDropped'
  BY DEF IInv, BrokenRemoved, ChangedAsked, ManagedAsked, NotYetDropped, Gone, mongo, databags
<1> QED
  BY <1>2, <1>4, <1>5 DEF IInv

(* A refresh begins and ends.                                              *)
LEMMA UpgradeKeeps ==
  ASSUME IInv, BeginUpgrade \/ EndUpgrade
  PROVE  IInv'
<1>1. faults' \in 0..MaxFaults
  BY FaultCounted DEF BeginUpgrade, EndUpgrade, IInv, TypeOK
<1>2. TypeOK'
  BY <1>1 DEF IInv, TypeOK, BeginUpgrade, EndUpgrade, mongo, databags
<1> QED
  BY <1>2 DEF IInv, BrokenRemoved, ChangedAsked, ManagedAsked, NotYetDropped, ManagedExist,
              BeginUpgrade, EndUpgrade, mongo, databags

(* Every step keeps the invariant.                                         *)
LEMMA NextKeeps ==
  ASSUME IInv, [Next]_vars
  PROVE  IInv'
<1>1. CASE UNCHANGED vars
  BY <1>1 DEF vars, IInv, TypeOK, BrokenRemoved, ChangedAsked, ManagedAsked, NotYetDropped,
              ManagedExist
<1>2. ASSUME NEW c \in Clients, Client(c)
      PROVE  IInv'
  BY <1>2, ClientKeeps
<1>3. ASSUME NEW u \in Units, Handle(u)
      PROVE  IInv'
  BY <1>3, SkipKeeps, ChangedKeeps, BrokenKeeps, NotRequestedKeeps, DeferKeeps DEF Handle
<1>4. ASSUME NEW u \in Units,
             \/ Start(u) \/ UpdateRelatedHosts(u) \/ ScaleDown(u) \/ LeaderElected(u) \/ Gone(u)
      PROVE  IInv'
  BY <1>4, StartKeeps, UpdateRelatedHostsKeeps, ScaleDownKeeps, LeaderElectedKeeps, GoneKeeps
<1> QED
  BY <1>1, <1>2, <1>3, <1>4, UpgradeKeeps DEF Next

LEMMA IInvAlways == Spec => []IInv
<1>1. IInv /\ [Next]_vars => IInv'
  BY NextKeeps
<1> QED
  BY InitIInv, <1>1, PTL DEF Spec

(* The state of the users, the databags and the queues keeps its types.    *)
THEOREM TypeCorrect == Spec => []TypeOK
<1>1. IInv => TypeOK
  BY DEF IInv
<1> QED
  BY <1>1, IInvAlways, PTL

(* A managed user is in MongoDB, or the leader has yet to run the event    *)
(* that removes it, unless the client is among the disturbed.              *)
THEOREM ManagedAlwaysExist == Spec => []ManagedExist
<1>1. IInv => ManagedExist
  BY DEF IInv
<1> QED
  BY <1>1, IInvAlways, PTL

(* Only a relation-broken event takes a user or its database away.         *)
LEMMA OnlyBrokenDrops ==
  ASSUME IInv, Next
  PROVE  \A c \in Clients :
           \/ user[c] # Nothing /\ user'[c] = Nothing
           \/ c \in data \ data'
           => \E u \in Units : Broken(u, c)
<1> SUFFICES ASSUME NEW c \in Clients,
                    \/ user[c] # Nothing /\ user'[c] = Nothing
                    \/ c \in data \ data'
             PROVE  \E u \in Units : Broken(u, c)
  OBVIOUS
<1>1. ~(UNCHANGED mongo)
  BY DEF mongo
<1>2. ASSUME NEW u \in Units, Start(u)
      PROVE  FALSE
  BY <1>2 DEF Start, AddUsers, UsersAdded, Created, IInv, TypeOK
<1>3. ASSUME NEW u \in Units, NEW d \in Clients, Changed(u, d)
      PROVE  FALSE
  BY <1>3 DEF Changed, AddUsers, UsersAdded, Created, IInv, TypeOK
<1>4. ASSUME NEW d \in Clients, Client(d)
      PROVE  FALSE
  BY <1>1, <1>4 DEF Client, Relate, Request, UseDatabase, RemoveRelation, mongo
<1>5. ASSUME NEW u \in Units, NEW d \in Clients, Broken(u, d)
      PROVE  d = c
  BY <1>5 DEF Broken, Dropped, IInv, TypeOK
<1>6. ASSUME NEW u \in Units, Handle(u)
      PROVE  \E d \in Clients : Broken(u, d)
  BY <1>1, <1>3, <1>6 DEF Handle, Skip, NotRequested, Defer
<1> QED
  BY <1>1, <1>2, <1>4, <1>5, <1>6
  DEF Next, UpdateRelatedHosts, ScaleDown, LeaderElected, Gone, BeginUpgrade, EndUpgrade

(* A client's user and database are taken away only after its relation was *)
(* removed, not by the removal of our own units.                           *)
THEOREM UsersAlwaysKept == Spec => UsersKept
<1> DEFINE Step ==
      \A c \in Clients :
        \/ user[c] # Nothing /\ user'[c] = Nothing
        \/ c \in data \ data'
        => relation[c] = "removed" /\ user'[c] = Nothing
<1>1. IInv /\ [Next]_vars => [Step]_vars
  <2>1. ASSUME IInv, NEW u \in Units, NEW c \in Clients, Broken(u, c)
        PROVE  relation[c] = "removed" /\ user'[c] = Nothing
    BY <2>1 DEF Broken, Dropped, Turn, IInv, TypeOK, BrokenRemoved
  <2> QED
    BY <2>1, OnlyBrokenDrops
<1> QED
  BY <1>1, IInvAlways, PTL DEF Spec, UsersKept

(* Credentials that log in are not replaced as long as the relation is     *)
(* there.                                                                  *)
THEOREM CredentialsAlwaysStay == Spec => CredentialsStay
<1> DEFINE Kept(c) ==
             relation[c] = "there" /\ credentials[c] = "working" => credentials'[c] = "working"
           Step == \A c \in Clients : Kept(c)
<1>1. ASSUME IInv, Next
      PROVE  Step
  <2> SUFFICES ASSUME NEW c \in Clients, relation[c] = "there", credentials[c] = "working"
               PROVE  credentials'[c] = "working"
    OBVIOUS
  <2>1. CASE UNCHANGED credentials
    BY <2>1
  <2>2. ASSUME NEW C, AddUsers(C)
        PROVE  credentials'[c] = "working"
    BY <2>2 DEF AddUsers
  <2>3. ASSUME NEW u \in Units, UpdateRelatedHosts(u)
        PROVE  credentials'[c] = "working"
    BY <2>3 DEF UpdateRelatedHosts, Incomplete
  <2>4. ASSUME NEW u \in Units, NEW d \in Clients, Broken(u, d)
        PROVE  credentials'[c] = "working"
    <3>1. relation[d] = "removed"
      BY <2>4, <1>1 DEF Broken, Turn, IInv, BrokenRemoved
    <3>2. d # c
      BY <3>1
    <3> QED
      BY <2>4, <3>2, <1>1 DEF Broken, Raised, databags, IInv, TypeOK
  <2>5. ASSUME NEW u \in Units, Handle(u)
        PROVE  credentials'[c] = "working"
    <3>1. ASSUME NEW d \in Clients, Changed(u, d)
          PROVE  credentials'[c] = "working"
      BY <3>1, <2>1, <2>2 DEF Changed, Raised, databags
    <3>2. ASSUME NEW d \in Clients, NotRequested(u, d)
          PROVE  credentials'[c] = "working"
      BY <3>2, <2>1 DEF NotRequested, Raised, databags
    <3> QED
      BY <2>1, <2>4, <2>5, <3>1, <3>2 DEF Handle, Skip, Defer, databags
  <2>6. ASSUME NEW u \in Units, Start(u)
        PROVE  credentials'[c] = "working"
    BY <2>6, <2>2 DEF Start
  <2>7. ASSUME NEW d \in Clients, Client(d)
        PROVE  UNCHANGED credentials
    BY <2>7 DEF Client, Relate, Request, UseDatabase, RemoveRelation, databags
  <2> QED
    BY <1>1, <2>1, <2>3, <2>5, <2>6, <2>7
    DEF Next, ScaleDown, LeaderElected, Gone, BeginUpgrade, EndUpgrade, databags
<1>2. IInv /\ [Next]_vars => [Step]_vars
  BY <1>1
<1> QED
  BY <1>2, IInvAlways, PTL DEF Spec, CredentialsStay

-----------------------------------------------------------------------------
(* No client is forgotten: the event that its credentials, or the end of   *)
(* its user, wait for is before the leader.                                *)

(* A client asks in a relation, and then has a user made.                  *)
AskedFirst ==
  \A c \in Clients : /\ relation[c] = "absent" => request[c] = Nothing
                     /\ request[c] = Nothing => user[c] = Nothing

(* A client that asked has credentials that log in as soon as it has a     *)
(* user, and gets one from the start hook or a relation-changed that the   *)
(* leader has yet to handle.                                               *)
CredentialsToCome ==
  \A c \in Clients \ disturbed :
    relation[c] = "there" /\ request[c] # Nothing =>
      IF user[c] # Nothing THEN credentials[c] = "working"
      ELSE ~dbInitialised \/ <<c, "changed">> \in queue[leader]

(* A user whose relation was removed has its end before the leader.        *)
RemovalToCome ==
  \A c \in Clients \ disturbed :
    relation[c] = "removed" /\ user[c] # Nothing => <<c, "broken">> \in queue[leader]

WaitInv ==
  /\ IInv
  /\ leader \in present
  /\ AskedFirst
  /\ CredentialsToCome
  /\ RemovalToCome

Waits == AskedFirst /\ CredentialsToCome /\ RemovalToCome

(* A step that leaves the clients as they are, and the leader's events but *)
(* for those of the disturbed.                                             *)
LEMMA WaitsUnchanged ==
  ASSUME WaitInv, UNCHANGED <<relation, request, user, credentials, dbInitialised>>,
         disturbed \subseteq disturbed',
         \A c \in Clients \ disturbed' :
           /\ <<c, "changed">> \in queue[leader] /\ dbInitialised
                => <<c, "changed">> \in queue'[leader']
           /\ <<c, "broken">> \in queue[leader] /\ user[c] # Nothing
                => <<c, "broken">> \in queue'[leader']
  PROVE  Waits'
BY DEF WaitInv, Waits, AskedFirst, CredentialsToCome, RemovalToCome

(* Users are added, with their credentials, for clients that asked.        *)
LEMMA AddedWaits ==
  ASSUME WaitInv, NEW C \in SUBSET Clients, AddUsers(C),
         \A c \in C : request[c] # Nothing
                      /\ (relation[c] = "removed" => <<c, "broken">> \in queue[leader]),
         UNCHANGED <<leader, relation, request, disturbed>>,
         \A c \in Clients : <<c, "broken">> \in queue[leader] => <<c, "broken">> \in queue'[leader],
         \A c \in Clients \ (C \cup disturbed) :
           relation[c] = "there" /\ request[c] # Nothing /\ user[c] = Nothing =>
             ~dbInitialised' \/ <<c, "changed">> \in queue'[leader]
  PROVE  Waits'
<1>1. /\ \A c \in Clients : user[c] # Nothing => user'[c] = user[c] /\ credentials'[c] = credentials[c]
      /\ \A c \in C : user[c] = Nothing => user'[c] = request[c] /\ credentials'[c] = "working"
      /\ \A c \in Clients \ C : user'[c] = user[c] /\ credentials'[c] = credentials[c]
  BY DEF AddUsers, UsersAdded, Created
<1>2. AskedFirst'
  BY <1>1 DEF WaitInv, AskedFirst
<1>3. ASSUME NEW c \in Clients \ disturbed, relation[c] = "there", request[c] # Nothing
      PROVE  IF user'[c] # Nothing THEN credentials'[c] = "working"
             ELSE ~dbInitialised' \/ <<c, "changed">> \in queue'[leader]
  <2>1. CASE c \in C \/ user[c] # Nothing
    BY <1>1, <1>3, <2>1 DEF WaitInv, CredentialsToCome
  <2>2. CASE c \notin C /\ user[c] = Nothing
    BY <1>1, <1>3, <2>2
  <2> QED
    BY <2>1, <2>2
<1>4. ASSUME NEW c \in Clients \ disturbed, relation[c] = "removed", user'[c] # Nothing
      PROVE  <<c, "broken">> \in queue'[leader]
  <2>1. CASE c \in C
    BY <1>4, <2>1
  <2>2. CASE c \notin C
    BY <1>1, <1>4, <2>2 DEF WaitInv, RemovalToCome
  <2> QED
    BY <2>1, <2>2
<1> QED
  BY <1>2, <1>3, <1>4 DEF Waits, CredentialsToCome, RemovalToCome

LEMMA StartWaits ==
  ASSUME WaitInv, NEW u \in Units, Start(u)
  PROVE  Waits'
<1>1. PICK C \in SUBSET {c \in Listed(u) : request[c] # Nothing} :
        AddUsers(C) /\ dbInitialised' = (C = Listed(u))
  BY DEF Start
<1>2. UNCHANGED <<leader, relation, request, disturbed, queue>> /\ u = leader
  BY DEF Start
<1>3. C \in SUBSET Clients /\ \A c \in C : request[c] # Nothing
  BY DEF Listed
<1>4. \A c \in C : relation[c] = "removed" => <<c, "broken">> \in queue[leader]
  BY <1>2 DEF Listed
<1>5. ASSUME NEW c \in Clients \ C, relation[c] = "there"
      PROVE  ~dbInitialised'
  BY <1>1, <1>5 DEF Listed
<1> QED
  BY <1>1, <1>2, <1>3, <1>4, <1>5, AddedWaits

LEMMA ChangedWaits ==
  ASSUME WaitInv, NEW u \in Units, NEW c \in Clients, Changed(u, c)
  PROVE  Waits'
<1> DEFINE e == <<c, "changed">>
<1>1. /\ u = leader /\ dbInitialised /\ e \in queue[u] /\ request[c] # Nothing
      /\ c \in Listed(u)
      /\ UNCHANGED <<leader, relation, request, dbInitialised>>
  BY DEF Changed, Turn, Serves, application, WaitInv, IInv, ChangedAsked
<1>2. relation[c] = "removed" => <<c, "broken">> \in queue[leader]
  BY <1>1 DEF Listed
<1>3. CASE AddUsers({c}) /\ Handled(u, e) /\ UNCHANGED <<faults, disturbed>>
  <2>1. \A d \in queue[leader] : d # e => d \in queue'[leader]
    BY <1>1, <1>3, HandledQueue DEF WaitInv, IInv
  <2>2. \A d \in Clients : <<d, "broken">> \in queue[leader] => <<d, "broken">> \in queue'[leader]
    BY <2>1
  <2>3. ASSUME NEW d \in Clients \ ({c} \cup disturbed), relation[d] = "there",
               request[d] # Nothing, user[d] = Nothing
        PROVE  <<d, "changed">> \in queue'[leader]
    <3>1. <<d, "changed">> \in queue[leader]
      BY <1>1, <2>3 DEF WaitInv, CredentialsToCome
    <3>2. <<d, "changed">> # e
      BY <2>3
    <3> QED
      BY <2>1, <3>1, <3>2
  <2> HIDE DEF e
  <2> QED
    BY <1>1, <1>2, <1>3, <2>2, <2>3, AddedWaits
<1>4. CASE user' = UsersAdded({c}) /\ Raised(u, e) /\ disturbed' = disturbed \cup {c}
  <2>1. \A d \in Clients \ disturbed' : user'[d] = user[d]
    BY <1>4 DEF UsersAdded, Created
  <2>2. UNCHANGED <<queue, credentials>>
    BY <1>4 DEF Raised, databags
  <2>3. AskedFirst'
    BY <1>1, <1>4 DEF UsersAdded, Created, WaitInv, AskedFirst
  <2> QED
    BY <1>1, <1>4, <2>1, <2>2, <2>3 DEF Waits, WaitInv, CredentialsToCome, RemovalToCome
<1> QED
  BY <1>3, <1>4 DEF Changed

(* An event that is let go of is none that a client waits for, or its      *)
(* client is disturbed.                                                    *)
LEMMA SkipWaits ==
  ASSUME WaitInv, NEW u \in Units, Skip(u)
  PROVE  Waits'
<1> USE DEF application, mongo, databags
<1>1. PICK e \in queue[u] :
        /\ Turn(u, e) /\ Handled(u, e)
        /\ \/ u # leader /\ (Routers => dbInitialised)
           \/ ~Routers /\ ~dbInitialised
           \/ e[2] = "scaled"
        /\ disturbed' = IF u = leader /\ e[2] = "broken" /\ user[e[1]] # Nothing
                          THEN disturbed \cup {e[1]} ELSE disturbed
  BY DEF Skip
<1>2. /\ \A v \in Units : \A d \in queue[v] : d # e => d \in queue'[v]
      /\ \A v \in Units \ {u} : queue'[v] = queue[v]
  BY <1>1, HandledQueue DEF WaitInv, IInv, TypeOK, Handled
<1>3. ASSUME NEW c \in Clients \ disturbed', <<c, "changed">> \in queue[leader], dbInitialised
      PROVE  <<c, "changed">> \in queue'[leader]
  BY <1>1, <1>2, <1>3 DEF WaitInv, IInv, TypeOK
<1>4. ASSUME NEW c \in Clients \ disturbed', <<c, "broken">> \in queue[leader],
             user[c] # Nothing
      PROVE  <<c, "broken">> \in queue'[leader]
  BY <1>1, <1>2, <1>4 DEF WaitInv, IInv, TypeOK
<1> QED
  BY <1>1, <1>3, <1>4, WaitsUnchanged DEF Skip

(* relation-broken takes the user, and with it what was still to be done.  *)
LEMMA BrokenWaits ==
  ASSUME WaitInv, NEW u \in Units, NEW c \in Clients, Broken(u, c)
  PROVE  Waits'
<1>1. /\ u = leader /\ relation[c] = "removed"
      /\ UNCHANGED <<leader, relation, request, dbInitialised, disturbed>>
  BY DEF Broken, Turn, Serves, WaitInv, IInv, BrokenRemoved, application
<1>2. user'[c] = Nothing /\ \A d \in Clients \ {c} : user'[d] = user[d]
  BY DEF Broken, Dropped, WaitInv, IInv, TypeOK
<1>3. \A d \in Clients \ {c} : credentials'[d] = credentials[d]
  BY DEF Broken, Raised, databags, WaitInv, IInv, TypeOK
<1>4. ASSUME NEW d \in Clients \ {c}, NEW k
      PROVE  <<d, k>> \in queue[leader] => <<d, k>> \in queue'[leader]
  BY <1>1 DEF Broken, Raised, WaitInv, IInv, TypeOK
<1> QED
  BY <1>1, <1>2, <1>3, <1>4
     DEF WaitInv, Waits, AskedFirst, CredentialsToCome, RemovalToCome

LEMMA NotRequestedWaits ==
  ASSUME WaitInv, NEW u \in Units, NEW c \in Clients, NotRequested(u, c)
  PROVE  Waits'
<1> USE DEF application, mongo, databags
<1>1. PICK k \in {"broken", "late"} :
        /\ Turn(u, <<c, k>>) /\ (k = "broken" => request[c] = Nothing)
        /\ IF Routers THEN Raised(u, <<c, k>>)
           ELSE Handled(u, <<c, k>>) /\ UNCHANGED databags
  BY DEF NotRequested
<1>2. UNCHANGED <<leader, relation, request, user, credentials, dbInitialised, disturbed>>
  BY <1>1 DEF NotRequested, Raised
<1>3. \A e \in queue[leader] : e # <<c, k>> => e \in queue'[leader]
  <2>1. CASE Routers
    BY <1>1, <2>1 DEF Raised
  <2>2. CASE ~Routers
    BY <1>1, <2>2, HandledQueue DEF WaitInv, IInv, TypeOK
  <2> QED
    BY <2>1, <2>2
<1>4. ASSUME NEW d \in Clients, user[d] # Nothing
      PROVE  <<d, "broken">> # <<c, k>>
  BY <1>1, <1>4 DEF WaitInv, AskedFirst
<1>5. \A d \in Clients : <<d, "changed">> # <<c, k>>
  OBVIOUS
<1> QED
  BY <1>2, <1>3, <1>4, <1>5, WaitsUnchanged

LEMMA DeferWaits ==
  ASSUME WaitInv, NEW u \in Units, NEW c \in Clients, Defer(u, c)
  PROVE  Waits'
<1> USE DEF application, mongo, databags
<1>1. /\ queue' = [queue EXCEPT ![u] = (@ \ {<<c, "broken">>, <<c, "changed">>})
                                        \cup {<<c, "late">>}]
      /\ disturbed' = disturbed \cup {c}
      /\ UNCHANGED <<leader, relation, request, user, credentials, dbInitialised>>
  BY DEF Defer
<1>2. ASSUME NEW d \in Clients \ {c}, NEW k
      PROVE  <<d, k>> \in queue[leader] => <<d, k>> \in queue'[leader]
  BY <1>1 DEF WaitInv, IInv, TypeOK
<1> QED
  BY <1>1, <1>2, WaitsUnchanged

(* Juju, the operator and the clients.                                     *)
LEMMA ClientWaits ==
  ASSUME WaitInv, NEW c \in Clients, Client(c)
  PROVE  Waits'
<1> USE DEF application, mongo, databags
<1>1. TypeOK /\ leader \in present
  BY DEF WaitInv, IInv
<1>2. CASE Relate(c)
  <2>1. \A d \in Clients \ {c} : relation'[d] = relation[d]
    BY <1>1, <1>2 DEF TypeOK, Relate
  <2>2. request[c] = Nothing /\ user[c] = Nothing /\ relation'[c] = "there"
    BY <1>1, <1>2 DEF TypeOK, Relate, WaitInv, AskedFirst
  <2>3. UNCHANGED <<leader, dbInitialised, request, user, credentials, queue, disturbed>>
    BY <1>2 DEF Relate
  <2> QED
    BY <2>1, <2>2, <2>3
       DEF WaitInv, Waits, AskedFirst, CredentialsToCome, RemovalToCome
<1>3. CASE Request(c)
  <2>1. PICK r \in Roles : request' = [request EXCEPT ![c] = r]
    BY <1>3 DEF Request
  <2>2. /\ request'[c] # Nothing /\ relation[c] = "there"
        /\ \A d \in Clients \ {c} : request'[d] = request[d]
    BY <1>1, <1>3, <2>1, RolesAssumption DEF TypeOK, Request
  <2>3. UNCHANGED <<leader, dbInitialised, relation, user, credentials, disturbed>>
    BY <1>3 DEF Request
  <2>4. /\ <<c, "changed">> \in queue'[leader]
        /\ \A e \in queue[leader] : e \in queue'[leader]
    BY <1>1, <1>3 DEF TypeOK, Request, Tell
  <2>5. user[c] # Nothing => request[c] # Nothing
    BY DEF WaitInv, AskedFirst
  <2> QED
    BY <2>2, <2>3, <2>4, <2>5
       DEF WaitInv, Waits, AskedFirst, CredentialsToCome, RemovalToCome
<1>4. CASE UseDatabase(c)
  BY <1>4, WaitsUnchanged DEF UseDatabase
<1>5. CASE RemoveRelation(c)
  <2>1. relation'[c] = "removed" /\ relation[c] = "there"
        /\ \A d \in Clients \ {c} : relation'[d] = relation[d]
    BY <1>1, <1>5 DEF TypeOK, RemoveRelation
  <2>2. UNCHANGED <<leader, dbInitialised, request, user, credentials, disturbed>>
    BY <1>5 DEF RemoveRelation
  <2>3. /\ <<c, "broken">> \in queue'[leader]
        /\ \A e \in queue[leader] : e \in queue'[leader]
    BY <1>1, <1>5 DEF TypeOK, RemoveRelation, Tell
  <2> QED
    BY <2>1, <2>2, <2>3
       DEF WaitInv, Waits, AskedFirst, CredentialsToCome, RemovalToCome
<1> QED
  BY <1>2, <1>3, <1>4, <1>5 DEF Client

(* A new leader has the events of the old one, or their clients are among  *)
(* the disturbed.                                                          *)
LEMMA LeadWaits ==
  ASSUME WaitInv, NEW u \in Units, Lead(u),
         UNCHANGED <<mongo, databags, queue, relation, request, dbInitialised>>
  PROVE  Waits'
<1> USE DEF mongo, databags
<1>1. leader' = u /\ disturbed' = disturbed \cup Missed(u)
  BY DEF Lead
<1>2. ASSUME NEW c \in Clients \ disturbed', NEW k \in {"changed", "broken"},
             <<c, k>> \in queue[leader]
      PROVE  <<c, k>> \in queue[u]
  <2>1. c \notin Missed(u)
    BY <1>1
  <2>2. <<c, k>>[1] = c /\ <<c, k>>[2] # "scaled"
    OBVIOUS
  <2> QED
    BY <1>2, <2>1, <2>2 DEF Missed
<1> QED
  BY <1>1, <1>2, WaitsUnchanged

LEMMA UnitsWait ==
  ASSUME WaitInv, NEW u \in Units, ScaleDown(u) \/ LeaderElected(u) \/ Gone(u)
  PROVE  Waits' /\ leader' \in present'
<1>1. CASE ScaleDown(u)
  <2>1. \A e \in queue[leader] : e \in queue'[leader]
    BY <1>1 DEF ScaleDown, WaitInv, IInv, TypeOK
  <2> QED
    BY <1>1, <2>1, WaitsUnchanged DEF ScaleDown, WaitInv, mongo, databags
<1>2. CASE LeaderElected(u)
  BY <1>2, LeadWaits DEF LeaderElected, Lead
<1>3. CASE Gone(u)
  <2>1. CASE u # leader /\ UNCHANGED <<leader, disturbed>>
    BY <1>3, <2>1, WaitsUnchanged DEF Gone, WaitInv, mongo, databags
  <2>2. ASSUME u = leader, NEW v \in Units, Lead(v)
        PROVE  Waits' /\ leader' \in present'
    BY <1>3, <2>2, LeadWaits DEF Gone, Lead
  <2> QED
    BY <1>3, <2>1, <2>2 DEF Gone
<1> QED
  BY <1>1, <1>2, <1>3

(* update-status gives no client credentials that has some that log in.    *)
LEMMA HostsWait ==
  ASSUME WaitInv, NEW u \in Units, UpdateRelatedHosts(u)
  PROVE  Waits'
<1>1. UNCHANGED <<leader, dbInitialised, relation, request, user, queue, disturbed>>
  BY DEF UpdateRelatedHosts, application, mongo
<1>2. \A c \in Clients : credentials[c] = "working" => credentials'[c] = "working"
  BY DEF UpdateRelatedHosts, Incomplete
<1> QED
  BY <1>1, <1>2 DEF WaitInv, Waits, AskedFirst, CredentialsToCome, RemovalToCome

LEMMA NextWaitInv == WaitInv /\ [Next]_vars => WaitInv'
<1> SUFFICES ASSUME WaitInv, [Next]_vars PROVE Waits' /\ leader' \in present'
  BY NextKeeps DEF WaitInv, Waits
<1>1. CASE UNCHANGED vars \/ BeginUpgrade \/ EndUpgrade
  BY <1>1, WaitsUnchanged DEF vars, BeginUpgrade, EndUpgrade, WaitInv, mongo, databags
<1>2. ASSUME NEW c \in Clients, Client(c)
      PROVE  Waits' /\ leader' \in present'
  BY <1>2, ClientWaits
     DEF Client, Relate, Request, UseDatabase, RemoveRelation, application, WaitInv
<1>3. ASSUME NEW u \in Units, Handle(u)
      PROVE  Waits' /\ leader' \in present'
  <2>1. UNCHANGED application
    BY <1>3 DEF Handle, Skip, Changed, Broken, NotRequested, Defer
  <2> QED
    BY <1>3, <2>1, SkipWaits, ChangedWaits, BrokenWaits, NotRequestedWaits, DeferWaits
       DEF Handle, application, WaitInv
<1>4. ASSUME NEW u \in Units, Start(u) \/ UpdateRelatedHosts(u)
      PROVE  Waits' /\ leader' \in present'
  BY <1>4, StartWaits, HostsWait DEF Start, UpdateRelatedHosts, application, WaitInv
<1>5. ASSUME NEW u \in Units, ScaleDown(u) \/ LeaderElected(u) \/ Gone(u)
      PROVE  Waits' /\ leader' \in present'
  BY <1>5, UnitsWait
<1> QED
  BY <1>1, <1>2, <1>3, <1>4, <1>5 DEF Next

LEMMA WaitInvAlways == Spec => []WaitInv
<1>1. Init => WaitInv
  BY InitIInv, UnitsAssumption
     DEF Init, WaitInv, AskedFirst, CredentialsToCome, RemovalToCome
<1> QED
  BY <1>1, NextWaitInv, PTL DEF Spec

(* A client that asked has credentials that log in, or the leader's start  *)
(* or an event before the leader gives it a user, unless it is among the   *)
(* disturbed.                                                              *)
THEOREM CredentialsAlwaysToCome == Spec => []CredentialsToCome
<1>1. WaitInv => CredentialsToCome
  BY DEF WaitInv
<1> QED
  BY <1>1, WaitInvAlways, PTL

(* A user that outlives its relation has a relation-broken before the      *)
(* leader: no handler that comes late makes one that nothing drops.        *)
THEOREM RemovalAlwaysToCome == Spec => []RemovalToCome
<1>1. WaitInv => RemovalToCome
  BY DEF WaitInv
<1> QED
  BY <1>1, WaitInvAlways, PTL
=============================================================================
