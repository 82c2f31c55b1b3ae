--------------------------------- MODULE Tls ---------------------------------
(***************************************************************************)
(* TLS in a sharded cluster: the certificates of one unit of each of its   *)
(* applications (the leader), requested from a certificates operator,      *)
(* received, renewed and dropped, and the CA by which the config-server    *)
(* tells its shards to use certificates among themselves.                  *)
(*                                                                         *)
(* A unit has two certificates, internal and external.  A hook first runs  *)
(* what earlier hooks deferred, in order, then its own event; the library  *)
(* announces a certificate once.  mongod runs with the configuration and   *)
(* the files of its last restart, whatever the secrets say since.          *)
(***************************************************************************)
EXTENDS Naturals, Sequences

CONSTANTS
  Units,         \* a unit of each application
  ConfigServer,  \* the config-server's; the others are shards
  Starts         \* how it may begin: the units deployed, those among them that have
                 \* their certificates, and a bound on the faults to come: keys set by
                 \* the operator, certificates that expire or are issued anew, pods
                 \* replaced, refreshes and relations made again

ASSUME UnitsAssumption == ConfigServer \in Units
ASSUME StartsAssumption ==
  /\ Starts \subseteq [deployed : SUBSET Units, enabled : SUBSET Units, faults : Nat]
  /\ \A s \in Starts : s.enabled \subseteq s.deployed

Kinds == {"int", "ext"}
Nothing == [csr |-> "nothing"]

Csr == [kind : Kinds, key : Nat, gen : Nat]
Certificate == [csr : Csr, issue : Nat]
Pem == [key : Nat, cert : Certificate]
Event == [type : {"joined", "changed", "broken", "sync", "set-key", "start"}, cert : {Nothing}]
         \cup [type : {"available", "expiring"}, cert : Certificate]

Plain(type) == [type |-> type, cert |-> Nothing]
Available(c) == [type |-> "available", cert |-> c]

VARIABLES
  tls,            \* the relation with the certificates operator
  initialised,    \* db_initialised
  upgrading,      \* upgrade_in_progress
  key, csr, cert, \* the unit's secrets, by kind
  subject,        \* whose name its requests were made in
  asked,          \* requests in our databag
  issued,         \* certificates in the operator's databag
  announced,      \* certificates the library has announced
  pending,        \* juju's events for the unit
  hook,           \* the events of the hook that runs
  deferred,
  files,          \* PEM files on disk, by kind
  running,        \* kinds that mongod was last started with
  started,        \* whether it found their files
  ca,             \* who has the internal CA: the config-server as a secret, shards
                  \* in their relation with it
  sharded,        \* shards related to the config-server
  authUpdated,    \* shards that told it they have its secrets
  outlived,       \* history: units whose last relation-broken left certificates of their
                  \* requests in the queue
  faults          \* still to come

secrets == <<key, csr, cert, subject>>
databag == <<asked, issued, announced>>
queues == <<pending, hook, deferred>>
mongod == <<files, running, started>>
cluster == <<ca, sharded, authUpdated>>
vars == <<tls, initialised, upgrading, secrets, databag, queues, mongod, cluster, outlived, faults>>

TypeOK ==
  /\ tls \in [Units -> {"absent", "none", "related", "leaving", "removed"}]
  /\ initialised \in [Units -> BOOLEAN] /\ upgrading \in [Units -> BOOLEAN]
  /\ key \in [Units -> [Kinds -> Nat]]
  /\ csr \in [Units -> [Kinds -> Csr \cup {Nothing}]]
  /\ cert \in [Units -> [Kinds -> Certificate \cup {Nothing}]]
  /\ subject \in [Units -> {"none", "own", "config-server"}]
  /\ asked \in [Units -> SUBSET Csr] /\ issued \in [Units -> SUBSET Certificate]
  /\ announced \in [Units -> SUBSET Certificate]
  /\ pending \in [Units -> SUBSET {"joined", "changed", "broken", "sync", "start"}]
  /\ hook \in [Units -> Seq(Event)] /\ deferred \in [Units -> Seq(Event)]
  /\ files \in [Units -> [Kinds -> Pem \cup {Nothing}]]
  /\ running \in [Units -> SUBSET Kinds] /\ started \in [Units -> BOOLEAN]
  /\ ca \subseteq Units /\ sharded \subseteq Units \ {ConfigServer}
  /\ authUpdated \subseteq sharded /\ outlived \subseteq Units /\ faults \in Nat

FirstRequest(k) == [kind |-> k, key |-> 1, gen |-> 0]
FirstCertificate(k) == [csr |-> FirstRequest(k), issue |-> 0]

\* A function on the units that tells those that run with certificates from the others.
PerUnit(enabled, there, otherwise) == [u \in Units |-> IF u \in enabled THEN there ELSE otherwise]

Init ==
  \E s \in Starts :
    /\ tls = [u \in Units |-> IF u \notin s.deployed THEN "absent"
                             ELSE IF u \in s.enabled THEN "related" ELSE "none"]
    /\ initialised = [u \in Units |-> u \in s.enabled]
    /\ upgrading = [u \in Units |-> FALSE]
    /\ key = PerUnit(s.enabled, [k \in Kinds |-> 1], [k \in Kinds |-> 0])
    /\ csr = PerUnit(s.enabled, [k \in Kinds |-> FirstRequest(k)], [k \in Kinds |-> Nothing])
    /\ cert = PerUnit(s.enabled, [k \in Kinds |-> FirstCertificate(k)], [k \in Kinds |-> Nothing])
    /\ subject = [u \in Units |-> IF u \notin s.enabled THEN "none"
                                 ELSE IF u = ConfigServer THEN "config-server" ELSE "own"]
    /\ asked = PerUnit(s.enabled, {FirstRequest(k) : k \in Kinds}, {})
    /\ issued = PerUnit(s.enabled, {FirstCertificate(k) : k \in Kinds}, {})
    /\ announced = issued
    /\ pending = [u \in Units |-> IF u \in s.deployed \ s.enabled THEN {"start"} ELSE {}]
    /\ hook = [u \in Units |-> <<>>] /\ deferred = [u \in Units |-> <<>>]
    /\ files = PerUnit(s.enabled, [k \in Kinds |-> [key |-> 1, cert |-> FirstCertificate(k)]],
                                 [k \in Kinds |-> Nothing])
    /\ running = PerUnit(s.enabled, Kinds, {}) /\ started = [u \in Units |-> TRUE]
    /\ ca = s.enabled \cap {ConfigServer} /\ sharded = {} /\ authUpdated = {}
    /\ outlived = {} /\ faults = s.faults

-----------------------------------------------------------------------------
(* Secrets, files and the configuration of mongod *)

\* The charm lists the relation until its relation-broken hook runs.
Related(u) == tls[u] \in {"related", "leaving"}

\* Kinds that mongod is configured for when the certificates are those of map c, whether
\* or not there is a relation to renew them: the external one alone, or both.
Configured(c) == {k \in Kinds : c["ext"] # Nothing /\ c[k] # Nothing}

\* Stored PEM of the kinds that have a certificate.
Pushed(u, c) ==
  [k \in Kinds |-> IF c[k] # Nothing THEN [key |-> key[u][k], cert |-> c[k]] ELSE Nothing]

Fault == faults > 0 /\ faults' = faults - 1

\* mongod restarted with certificates c in the secrets and files f on the disk.
Restart(u, c, f) ==
  /\ running' = [running EXCEPT ![u] = Configured(c)]
  /\ started' = [started EXCEPT ![u] = \A k \in Configured(c) : f[k] # Nothing]

\* mongod does not start, and the charm goes on.
RestartFails(u, c) ==
  /\ Fault
  /\ running' = [running EXCEPT ![u] = Configured(c)]
  /\ started' = [started EXCEPT ![u] = FALSE]

(* Mutant: the certificates of the former keys stay. *)
CertificatesKept(u, K) == cert[u]

WithoutCertificates(u, K) == [k \in Kinds |-> IF k \in K THEN Nothing ELSE cert[u][k]]

\* New keys of the kinds in K, and a request for each; the certificates of the former
\* ones are dropped.
NewRequest(u, k) == [kind |-> k, key |-> key[u][k] + 1, gen |-> 0]

NewRequests(u, K) ==
  /\ key' = [key EXCEPT ![u] = [k \in Kinds |-> IF k \in K THEN @[k] + 1 ELSE @[k]]]
  /\ csr' = [csr EXCEPT ![u] = [k \in Kinds |-> IF k \in K THEN NewRequest(u, k) ELSE @[k]]]
  /\ cert' = [cert EXCEPT ![u] = WithoutCertificates(u, K)]
  /\ subject' = [subject EXCEPT ![u] =
       IF K # Kinds THEN @
       ELSE IF u = ConfigServer \/ u \in sharded THEN "config-server" ELSE "own"]
  /\ asked' = [asked EXCEPT ![u] = @ \cup {NewRequest(u, k) : k \in K}]

-----------------------------------------------------------------------------
(* Hooks *)

\* The event whose handler runs on unit u.
Runs(u, type) == hook[u] # <<>> /\ Head(hook[u]).type = type

Done(u) == hook' = [hook EXCEPT ![u] = Tail(@)] /\ UNCHANGED deferred

Defer(u, e) == deferred' = [deferred EXCEPT ![u] = Append(@, e)]

Deferred(u) ==
  /\ Defer(u, Head(hook[u]))
  /\ hook' = [hook EXCEPT ![u] = Tail(@)]

\* A relation-joined that a refresh deferred finds the relation gone, and raises.
Stuck(u) == Runs(u, "joined") /\ ~Related(u)

\* No hook runs.  One sees what others wrote before it began, and what it writes is
\* seen when it ends: the hooks of the units are run one after the other.
Idle(u) == \A v \in Units : hook[v] = <<>> \/ (v # u /\ Stuck(v))

Begin(u, e) ==
  /\ Idle(u)
  /\ hook' = [hook EXCEPT ![u] = Append(deferred[u], e)]
  /\ deferred' = [deferred EXCEPT ![u] = <<>>]

\* What the config-server writes in its relations with the shards wakes them up.
Publish(new) ==
  /\ ca' = new
  /\ pending' = [s \in Units |->
       IF s \in sharded /\ (s \in ca) # (s \in new) THEN pending[s] \cup {"sync"} ELSE pending[s]]

\* relation-joined.  The library raises when the relation is gone, at every retry.
Joined(u) ==
  /\ Runs(u, "joined")
  /\ \/ upgrading[u] /\ Deferred(u) /\ UNCHANGED <<secrets, asked>>
     \/ ~upgrading[u] /\ Related(u) /\ NewRequests(u, Kinds) /\ Done(u)
  /\ UNCHANGED <<tls, initialised, upgrading, outlived, issued, announced, pending, mongod, cluster, faults>>

\* set-tls-private-key.  It fails during a refresh, and at a key that cannot be read:
\* the internal one is done first.
SetPrivateKey(u) ==
  /\ Runs(u, "set-key") /\ Done(u)
  /\ \/ UNCHANGED <<secrets, asked>>
     \/ ~upgrading[u] /\ \E K \in {{"int"}, Kinds} : NewRequests(u, K)
  /\ UNCHANGED <<tls, initialised, upgrading, outlived, issued, announced, pending, mongod, cluster, faults>>

\* Certificate c becomes one of unit u's, which enables TLS once it has both.
SetCertificate(u, c) ==
  LET k == c.csr.kind
      new == [cert[u] EXCEPT ![k] = c]
  IN
  /\ cert' = [cert EXCEPT ![u] = new]
  /\ IF u = ConfigServer
       THEN Publish(ca \cup sharded \cup {v \in {u} : k = "int"})
       ELSE UNCHANGED <<ca, pending>>
  /\ IF \A j \in Kinds : new[j] # Nothing
       THEN /\ files' = [files EXCEPT ![u] = Pushed(u, new)]
            /\ \/ Restart(u, new, Pushed(u, new)) /\ UNCHANGED faults
               \/ RestartFails(u, new)
            /\ UNCHANGED deferred
       ELSE Defer(u, Available(c)) /\ UNCHANGED <<mongod, faults>>

\* certificate-available.
CertificateAvailable(u, c) ==
  /\ \/ /\ (~initialised[u] \/ upgrading[u])
        /\ Defer(u, Available(c)) /\ UNCHANGED <<cert, ca, pending, mongod, faults>>
     \/ /\ initialised[u] /\ ~upgrading[u] /\ csr[u][c.csr.kind] # c.csr
        /\ UNCHANGED <<cert, ca, pending, mongod, deferred, faults>>
     \/ /\ initialised[u] /\ ~upgrading[u] /\ csr[u][c.csr.kind] = c.csr
        /\ SetCertificate(u, c)
  /\ UNCHANGED <<tls, initialised, upgrading, outlived, key, csr, subject, asked, issued, sharded,
                 authUpdated>>

DeferredCertificate(u) ==
  /\ Runs(u, "available")
  /\ CertificateAvailable(u, Head(hook[u]).cert)
  /\ hook' = [hook EXCEPT ![u] = Tail(@)]
  /\ UNCHANGED announced

\* Certificates the library has not announced yet, of requests of ours.
News(u) == {c \in issued[u] \ announced[u] : c.csr \in asked[u]}

\* relation-changed: the library announces them one by one.
RelationChanged(u) ==
  /\ Runs(u, "changed")
  /\ \/ \E c \in News(u) :
          /\ CertificateAvailable(u, c)
          /\ announced' = [announced EXCEPT ![u] = @ \cup {c}]
          /\ UNCHANGED hook
     \/ /\ News(u) = {} /\ Done(u)
        /\ UNCHANGED <<tls, initialised, upgrading, outlived, secrets, databag, pending, mongod, cluster, faults>>


Renewed(u, k, new) == [csr EXCEPT ![u][k] = new]

\* certificate-expiring: a new request with the same key; the certificate stays.
CertificateExpiring(u) ==
  /\ Runs(u, "expiring") /\ Done(u)
  /\ \/ \E k \in Kinds :
          LET new == [csr[u][k] EXCEPT !.gen = @ + 1] IN
          /\ cert[u][k] = Head(hook[u]).cert
          /\ csr' = Renewed(u, k, new)
          /\ asked' = [asked EXCEPT ![u] = (@ \ {csr[u][k]}) \cup {new}]
     \/ /\ \A k \in Kinds : cert[u][k] # Head(hook[u]).cert
        /\ UNCHANGED <<csr, asked>>
  /\ UNCHANGED <<tls, initialised, upgrading, outlived, key, cert, subject, issued, announced, pending, mongod,
                 cluster, faults>>

\* start, of a new unit or of a pod that was replaced: the files of the certificates
\* that are there are written.
Start(u) ==
  /\ Runs(u, "start") /\ Done(u)
  /\ initialised' = [initialised EXCEPT ![u] = TRUE]
  /\ files' = [files EXCEPT ![u] = [k \in Kinds |->
       IF Pushed(u, cert[u])[k] # Nothing THEN Pushed(u, cert[u])[k] ELSE @[k]]]
  /\ Restart(u, cert[u], files'[u])
  /\ UNCHANGED <<tls, upgrading, outlived, secrets, databag, pending, cluster, faults>>

(* Mutant: the files stay on the disk. *)
DeletedNot(u) == files

\* delete_certificates_from_workload.
Deleted(u) == [files EXCEPT ![u] = [k \in Kinds |-> Nothing]]

\* Certificates of the unit's requests wait in its queues.
Awaited(u) ==
  \E q \in {hook[u], deferred[u]} : \E i \in 1..Len(q) :
    q[i].type = "available" /\ csr[u][q[i].cert.csr.kind] = q[i].cert.csr

\* relation-broken: TLS is disabled; keys and requests stay among the secrets, so that
\* a certificate that was deferred is taken for the unit's own afterwards.
RelationBroken(u) ==
  /\ Runs(u, "broken")
  /\ \/ /\ ~initialised[u] /\ Deferred(u)
        /\ UNCHANGED <<cert, ca, pending, mongod, outlived>>
     \/ /\ initialised[u] /\ Done(u)
        /\ cert' = [cert EXCEPT ![u] = [k \in Kinds |-> Nothing]]
        /\ IF u = ConfigServer THEN Publish({}) ELSE UNCHANGED <<ca, pending>>
        /\ files' = Deleted(u)
        /\ Restart(u, [k \in Kinds |-> Nothing], files'[u])
        /\ outlived' = IF Awaited(u) THEN outlived \cup {u} ELSE outlived \ {u}
  /\ UNCHANGED <<tls, initialised, upgrading, key, csr, subject, databag, sharded, authUpdated, faults>>


\* The shard waits for what it raises an exception about.
Waits(u) == Deferred(u)

\* relation-changed of a shard's relation with the config-server: it takes over how
\* the cluster authenticates, asks for certificates in the config-server's name, and
\* restarts before it waits for them.
Synchronise(u) ==
  /\ Runs(u, "sync")
  /\ \/ /\ ~initialised[u] \/ upgrading[u] \/ (u \in ca) # Related(u)
        /\ Waits(u) /\ UNCHANGED <<secrets, asked, running, started, authUpdated>>
     \/ /\ initialised[u] /\ ~upgrading[u] /\ (u \in ca) = Related(u)
        /\ IF Related(u) /\ subject[u] # "config-server"
             THEN NewRequests(u, Kinds) ELSE UNCHANGED <<secrets, asked>>
        /\ Restart(u, cert'[u], files[u])
        /\ IF (Related(u) /\ \E k \in Kinds : cert'[u][k] = Nothing) \/ ~started'[u]
             THEN Waits(u) /\ UNCHANGED authUpdated
             ELSE Done(u) /\ authUpdated' = authUpdated \cup {u}
  /\ UNCHANGED <<tls, initialised, upgrading, outlived, issued, announced, pending, files, ca, sharded, faults>>

-----------------------------------------------------------------------------
(* Juju, the certificates operator and the operator of the charms *)

\* An event of juju's, or update-status when there are none.
BeginHook(u) ==
  /\ \/ \E e \in pending[u] :
          /\ Begin(u, Plain(e))
          /\ pending' = [pending EXCEPT ![u] = @ \ {e}]
          /\ IF e = "broken"
               THEN /\ tls' = [tls EXCEPT ![u] = "removed"]
                    /\ asked' = [asked EXCEPT ![u] = {}] /\ issued' = [issued EXCEPT ![u] = {}]
               ELSE UNCHANGED <<tls, asked, issued>>
     \/ /\ pending[u] = {} /\ Idle(u) /\ deferred[u] # <<>>
        /\ hook' = [hook EXCEPT ![u] = deferred[u]]
        /\ deferred' = [deferred EXCEPT ![u] = <<>>]
        /\ UNCHANGED <<pending, tls, asked, issued>>
  /\ UNCHANGED <<initialised, upgrading, outlived, secrets, announced, mongod, cluster, faults>>

\* set-tls-private-key is called, or a certificate is about to expire.
BeginOther(u) ==
  /\ Related(u) /\ Fault
  /\ \/ Begin(u, Plain("set-key"))
     \/ \E c \in issued[u] \cap announced[u] : Begin(u, [type |-> "expiring", cert |-> c])
  /\ UNCHANGED <<tls, initialised, upgrading, outlived, secrets, databag, pending, mongod, cluster>>

\* On Kubernetes a pod is replaced, and its files are gone.
PodReplaced(u) ==
  /\ initialised[u] /\ Idle(u) /\ "start" \notin pending[u] /\ Fault
  /\ files' = [files EXCEPT ![u] = [k \in Kinds |-> Nothing]]
  /\ pending' = [pending EXCEPT ![u] = @ \cup {"start"}]
  /\ UNCHANGED <<tls, initialised, upgrading, outlived, secrets, databag, hook, deferred, running,
                 started, cluster>>

Relate(u) ==
  /\ "broken" \notin pending[u] /\ Idle(u)
  /\ \/ tls[u] = "none" /\ UNCHANGED faults
     \/ tls[u] = "removed" /\ Fault
  /\ tls' = [tls EXCEPT ![u] = "related"]
  /\ pending' = [pending EXCEPT ![u] = @ \cup {"joined"}]
  /\ UNCHANGED <<initialised, upgrading, outlived, secrets, databag, hook, deferred, mongod, cluster>>

RemoveRelation(u) ==
  /\ tls[u] = "related" /\ Idle(u)
  /\ tls' = [tls EXCEPT ![u] = "leaving"]
  /\ pending' = [pending EXCEPT ![u] = (@ \ {"joined", "changed"}) \cup {"broken"}]
  /\ UNCHANGED <<initialised, upgrading, outlived, secrets, databag, hook, deferred, mongod, cluster, faults>>

\* The certificates operator answers a request, in any order, or once more.
Issue(u) ==
  /\ tls[u] = "related" /\ Idle(u)
  /\ \E r \in asked[u] :
       \/ /\ \A c \in issued[u] : c.csr # r
          /\ issued' = [issued EXCEPT ![u] = @ \cup {[csr |-> r, issue |-> 0]}]
          /\ UNCHANGED faults
       \/ \E c \in issued[u] :
            /\ c.csr = r /\ Fault
            /\ issued' = [issued EXCEPT ![u] = (@ \ {c}) \cup {[c EXCEPT !.issue = @ + 1]}]
  /\ pending' = [pending EXCEPT ![u] = @ \cup {"changed"}]
  /\ UNCHANGED <<tls, initialised, upgrading, outlived, secrets, asked, announced, hook, deferred, mongod, cluster>>

\* A shard is related to the config-server, and gets its secrets.
RelateShard(s) ==
  /\ s # ConfigServer /\ s \notin sharded /\ tls[s] # "absent"
  /\ sharded' = sharded \cup {s}
  /\ ca' = IF ConfigServer \in ca THEN ca \cup {s} ELSE ca
  /\ pending' = [pending EXCEPT ![s] = @ \cup {"sync"}]
  /\ UNCHANGED <<tls, initialised, upgrading, outlived, secrets, databag, hook, deferred, mongod, authUpdated, faults>>

BeginUpgrade(u) ==
  /\ initialised[u] /\ ~upgrading[u] /\ Idle(u) /\ Fault
  /\ upgrading' = [upgrading EXCEPT ![u] = TRUE]
  /\ UNCHANGED <<tls, initialised, outlived, secrets, databag, queues, mongod, cluster>>

EndUpgrade(u) ==
  /\ upgrading[u] /\ Idle(u)
  /\ upgrading' = [upgrading EXCEPT ![u] = FALSE]
  /\ UNCHANGED <<tls, initialised, outlived, secrets, databag, queues, mongod, cluster, faults>>

Handle(u) ==
  \/ Joined(u) \/ SetPrivateKey(u) \/ DeferredCertificate(u) \/ RelationChanged(u)
  \/ CertificateExpiring(u) \/ Start(u) \/ RelationBroken(u) \/ Synchronise(u)

Next ==
  \E u \in Units :
    \/ Handle(u) \/ BeginHook(u) \/ BeginOther(u) \/ PodReplaced(u)
    \/ Relate(u) \/ RemoveRelation(u) \/ Issue(u) \/ RelateShard(u)
    \/ BeginUpgrade(u) \/ EndUpgrade(u)

Spec == Init /\ [][Next]_vars

\* Juju goes on with the hooks of a unit, a refresh ends and the certificates operator
\* answers.
FairSpec ==
  /\ Spec
  /\ \A u \in Units : SF_vars(Handle(u) \/ BeginHook(u))
  /\ SF_vars(\E u \in Units : EndUpgrade(u) \/ Issue(u))

-----------------------------------------------------------------------------
(* Properties *)

\* The certificate of a unit, and the one in its PEM file, were made for the key that
\* is beside it, whatever requests were made and answered meanwhile.
KeysMatch ==
  \A u \in Units, k \in Kinds :
    /\ cert[u][k] # Nothing => cert[u][k].csr.key = key[u][k]
    /\ files[u][k] # Nothing => files[u][k].cert.csr.key = files[u][k].key

\* Mongod of u runs with certificates for the requests made last, which the operator
\* has before it.
InPlace(u) ==
  /\ running[u] = Kinds /\ started[u]
  /\ \A k \in Kinds :
       /\ files[u][k] # Nothing
       /\ files[u][k].cert.csr = csr[u][k] /\ csr[u][k] \in asked[u]

\* Mongod did not start with the files of its certificates, and nobody tried again.
Failed(u) == ~started[u] /\ \A k \in running[u] : files[u][k] # Nothing


\* A unit whose relation was removed runs without, and has no files left, unless
\* certificates of its requests were deferred when relation-broken ran: these outlive it.
DisabledInTheEnd ==
  \A u \in Units : <>[](tls[u] = "removed" =>
    \/ running[u] = {} /\ started[u] /\ \A k \in Kinds : files[u][k] = Nothing
    \/ u \in outlived \/ Stuck(u))

=============================================================================
