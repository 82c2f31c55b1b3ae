------------------------------ MODULE TlsProofs ------------------------------
(***************************************************************************)
(* TLS for any units, any number of keys, requests and certificates: the   *)
(* certificates a unit stores or writes belong to the keys beside them,    *)
(* only shards synchronise with the config-server, and what enables or     *)
(* disables TLS, or synchronises a shard, is done or still in the queues.  *)
(***************************************************************************)
EXTENDS Tls, SequenceTheorems, TLAPS

(* A certificate is stored for a request of its kind, made with the key    *)
(* that is stored.                                                         *)
RequestsMatch ==
  \A u \in Units, k \in Kinds :
    /\ csr[u][k] # Nothing => csr[u][k].kind = k /\ csr[u][k].key = key[u][k]
    /\ cert[u][k] # Nothing => csr[u][k] # Nothing

(* Only units related to the config-server synchronise with it.            *)
Allowed(u) == {e \in Event : e.type = "sync" => u \in sharded}
Queued(u) == hook[u] \in Seq(Allowed(u)) /\ deferred[u] \in Seq(Allowed(u))
QueuesAllowed == \A u \in Units : Queued(u)
PendingAllowed == \A u \in Units : "sync" \in pending[u] => u \in sharded

IInv ==
  /\ TypeOK
  /\ RequestsMatch
  /\ QueuesAllowed
  /\ PendingAllowed
  /\ KeysMatch

(* Nothing is none of the requests, certificates and files.                *)
LEMMA NothingElse == Nothing \notin Csr /\ Nothing \notin Certificate /\ Nothing \notin Pem
<1>1. DOMAIN Nothing = {"csr"}
  BY DEF Nothing
<1>2. \A r \in Csr : DOMAIN r = {"kind", "key", "gen"}
  BY DEF Csr
<1>3. \A c \in Certificate : DOMAIN c = {"csr", "issue"}
  BY DEF Certificate
<1>4. \A p \in Pem : DOMAIN p = {"key", "cert"}
  BY DEF Pem
<1> QED
  BY <1>1, <1>2, <1>3, <1>4

(* The types of what Init begins with.                                     *)
LEMMA FirstTypes ==
  ASSUME NEW k \in Kinds
  PROVE  FirstRequest(k) \in Csr /\ FirstCertificate(k) \in Certificate
BY DEF FirstRequest, FirstCertificate, Csr, Certificate

LEMMA FirstMatch ==
  ASSUME NEW k \in Kinds
  PROVE  /\ FirstRequest(k).kind = k /\ FirstRequest(k).key = 1 /\ FirstRequest(k) # Nothing
         /\ FirstCertificate(k).csr.key = 1
BY NothingElse, FirstTypes DEF FirstRequest, FirstCertificate

(* Whatever units have their certificates to begin with, they match.       *)
LEMMA InitIInv == Init => IInv
<1> SUFFICES ASSUME NEW s \in Starts,
                    s \in [deployed : SUBSET Units, enabled : SUBSET Units, faults : Nat],
                    s.enabled \subseteq s.deployed,
                    Init!(s)
             PROVE  IInv
  BY StartsAssumption DEF Init
<1>1. TypeOK
  <2>1. tls \in [Units -> {"absent", "none", "related", "leaving", "removed"}]
    OBVIOUS
  <2>2. /\ csr \in [Units -> [Kinds -> Csr \cup {Nothing}]]
        /\ cert \in [Units -> [Kinds -> Certificate \cup {Nothing}]]
        /\ key \in [Units -> [Kinds -> Nat]]
    BY FirstTypes DEF PerUnit
  <2>3. /\ asked \in [Units -> SUBSET Csr] /\ issued \in [Units -> SUBSET Certificate]
        /\ announced \in [Units -> SUBSET Certificate]
    BY FirstTypes DEF PerUnit
  <2>4. files \in [Units -> [Kinds -> Pem \cup {Nothing}]]
    BY FirstTypes DEF PerUnit, Pem
  <2>5. hook \in [Units -> Seq(Event)] /\ deferred \in [Units -> Seq(Event)]
    OBVIOUS
  <2>6. running \in [Units -> SUBSET Kinds] /\ started \in [Units -> BOOLEAN]
    BY DEF PerUnit
  <2>7. /\ initialised \in [Units -> BOOLEAN] /\ upgrading \in [Units -> BOOLEAN]
        /\ subject \in [Units -> {"none", "own", "config-server"}]
        /\ pending \in [Units -> SUBSET {"joined", "changed", "broken", "sync", "start"}]
    OBVIOUS
  <2>8. ca \subseteq Units /\ sharded = {} /\ authUpdated = {} /\ outlived = {} /\ faults \in Nat
    OBVIOUS
  <2> QED
    BY <2>1, <2>2, <2>3, <2>4, <2>5, <2>6, <2>7, <2>8 DEF TypeOK
<1>2. RequestsMatch /\ KeysMatch
  <2>1. ASSUME NEW u \in Units, NEW k \in Kinds, u \notin s.enabled
        PROVE  csr[u][k] = Nothing /\ cert[u][k] = Nothing /\ files[u][k] = Nothing
    BY <2>1 DEF PerUnit
  <2>2. ASSUME NEW u \in Units, NEW k \in Kinds, u \in s.enabled
        PROVE  /\ key[u][k] = 1 /\ csr[u][k] = FirstRequest(k) /\ cert[u][k] = FirstCertificate(k)
               /\ files[u][k] = [key |-> 1, cert |-> FirstCertificate(k)]
    BY <2>2 DEF PerUnit
  <2>3. ASSUME NEW u \in Units, NEW k \in Kinds, u \in s.enabled
        PROVE  /\ csr[u][k].kind = k /\ csr[u][k].key = key[u][k] /\ csr[u][k] # Nothing
               /\ cert[u][k].csr.key = key[u][k] /\ files[u][k].cert.csr.key = files[u][k].key
    <3>1. files[u][k].key = 1 /\ files[u][k].cert = FirstCertificate(k)
      <4>1. files[u][k] = [key |-> 1, cert |-> FirstCertificate(k)]
        BY <2>2, <2>3
      <4> QED
        BY ONLY <4>1
    <3> QED
      BY <2>2, <2>3, <3>1, FirstMatch
  <2> QED
    BY ZenonT(60), <2>1, <2>3 DEF RequestsMatch, KeysMatch
<1>3. QueuesAllowed /\ PendingAllowed
  BY DEF QueuesAllowed, Queued, PendingAllowed
<1> QED
  BY <1>1, <1>2, <1>3 DEF IInv

(* The queues of a unit, as its hook goes on.                              *)
LEMMA HeadAllowed ==
  ASSUME TypeOK, QueuesAllowed, NEW u \in Units, hook[u] # <<>>
  PROVE  /\ Head(hook[u]) \in Allowed(u) /\ Tail(hook[u]) \in Seq(Allowed(u))
         /\ Tail(hook[u]) \in Seq(Event)
BY HeadTailProperties DEF TypeOK, QueuesAllowed, Queued

LEMMA DoneQueues ==
  ASSUME TypeOK, QueuesAllowed, NEW u \in Units, hook[u] # <<>>, Done(u), sharded' = sharded
  PROVE  /\ hook' \in [Units -> Seq(Event)] /\ deferred' \in [Units -> Seq(Event)]
         /\ QueuesAllowed'
BY HeadAllowed DEF TypeOK, Done, QueuesAllowed, Queued, Allowed

LEMMA DeferQueues ==
  ASSUME TypeOK, QueuesAllowed, NEW u \in Units, NEW e \in Allowed(u), Defer(u, e),
         sharded' = sharded
  PROVE  /\ deferred' \in [Units -> Seq(Event)]
         /\ \A v \in Units : deferred'[v] \in Seq(Allowed(v)')
<1>1. Append(deferred[u], e) \in Seq(Allowed(u)) /\ Append(deferred[u], e) \in Seq(Event)
  BY AppendProperties DEF TypeOK, QueuesAllowed, Queued, Allowed
<1> QED
  BY <1>1 DEF TypeOK, Defer, QueuesAllowed, Queued, Allowed

LEMMA DeferredQueues ==
  ASSUME TypeOK, QueuesAllowed, NEW u \in Units, hook[u] # <<>>, Deferred(u), sharded' = sharded
  PROVE  /\ hook' \in [Units -> Seq(Event)] /\ deferred' \in [Units -> Seq(Event)]
         /\ QueuesAllowed'
<1>1. /\ deferred' \in [Units -> Seq(Event)]
      /\ \A v \in Units : deferred'[v] \in Seq(Allowed(v)')
  BY HeadAllowed, DeferQueues DEF Deferred
<1> QED
  BY ZenonT(60), <1>1, HeadAllowed DEF TypeOK, Deferred, QueuesAllowed, Queued, Allowed

LEMMA BeginQueues ==
  ASSUME TypeOK, QueuesAllowed, NEW u \in Units, NEW e \in Allowed(u), Begin(u, e),
         sharded' = sharded
  PROVE  /\ hook' \in [Units -> Seq(Event)] /\ deferred' \in [Units -> Seq(Event)]
         /\ QueuesAllowed'
<1>1. Append(deferred[u], e) \in Seq(Allowed(u)) /\ Append(deferred[u], e) \in Seq(Event)
  BY AppendProperties DEF TypeOK, QueuesAllowed, Queued, Allowed
<1> QED
  BY <1>1 DEF TypeOK, Begin, QueuesAllowed, Queued, Allowed

(* The events of the queues.                                               *)
LEMMA EventTypes ==
  /\ \A type \in {"joined", "changed", "broken", "sync", "set-key", "start"} :
       Plain(type) \in Event /\ Plain(type).type = type
  /\ \A c \in Certificate : Available(c) \in Event /\ Available(c).type = "available"
  /\ \A c \in Certificate : [type |-> "expiring", cert |-> c] \in Event
  /\ \A e \in Event : e.type \in {"available", "expiring"} => e.cert \in Certificate
BY DEF Plain, Available, Event

(* New requests have the new keys, and no certificates yet.                *)
LEMMA NewRequestsMatch ==
  ASSUME TypeOK, NEW u \in Units, NEW K \in SUBSET Kinds, NewRequests(u, K)
  PROVE  /\ key' \in [Units -> [Kinds -> Nat]]
         /\ csr' \in [Units -> [Kinds -> Csr \cup {Nothing}]]
         /\ cert' \in [Units -> [Kinds -> Certificate \cup {Nothing}]]
         /\ subject' \in [Units -> {"none", "own", "config-server"}]
         /\ asked' \in [Units -> SUBSET Csr]
         /\ RequestsMatch => RequestsMatch'
         /\ KeysMatch /\ files' = files => KeysMatch'
<1>1. \A k \in Kinds : key[u][k] + 1 \in Nat /\ NewRequest(u, k) \in Csr
  BY DEF TypeOK, NewRequest, Csr
<1>2. /\ key' \in [Units -> [Kinds -> Nat]]
      /\ csr' \in [Units -> [Kinds -> Csr \cup {Nothing}]]
      /\ asked' \in [Units -> SUBSET Csr]
  BY <1>1 DEF TypeOK, NewRequests
<1>3. cert' \in [Units -> [Kinds -> Certificate \cup {Nothing}]]
  BY DEF TypeOK, NewRequests, WithoutCertificates
<1>4. subject' \in [Units -> {"none", "own", "config-server"}]
  BY DEF TypeOK, NewRequests
<1>5. /\ \A v \in Units \ {u} : key'[v] = key[v] /\ csr'[v] = csr[v] /\ cert'[v] = cert[v]
      /\ \A k \in K : /\ key'[u][k] = key[u][k] + 1 /\ cert'[u][k] = Nothing
                      /\ csr'[u][k] = NewRequest(u, k)
      /\ \A k \in Kinds \ K : /\ key'[u][k] = key[u][k] /\ cert'[u][k] = cert[u][k]
                              /\ csr'[u][k] = csr[u][k]
  BY DEF TypeOK, NewRequests, WithoutCertificates
<1>6. RequestsMatch => RequestsMatch'
  <2>1. \A k \in Kinds : NewRequest(u, k).kind = k /\ NewRequest(u, k).key = key[u][k] + 1
    BY DEF NewRequest
  <2> QED
    BY <1>5, <2>1 DEF RequestsMatch
<1>7. KeysMatch /\ files' = files => KeysMatch'
  BY <1>5 DEF KeysMatch
<1> QED
  BY <1>2, <1>3, <1>4, <1>6, <1>7

(* A hook makes requests of some kinds, or leaves them alone.              *)
LEMMA RequestsChange ==
  ASSUME NEW u \in Units, Joined(u) \/ SetPrivateKey(u) \/ Synchronise(u)
  PROVE  (\E K \in SUBSET Kinds : NewRequests(u, K)) \/ UNCHANGED <<secrets, asked>>
<1>1. \A K \in {{"int"}, Kinds} : K \in SUBSET Kinds
  BY DEF Kinds
<1> QED
  BY <1>1 DEF Joined, SetPrivateKey, Synchronise

(* mongod is restarted with kinds of certificates.                         *)
LEMMA RestartTypes ==
  ASSUME TypeOK, NEW u \in Units, NEW c, NEW f, Restart(u, c, f) \/ RestartFails(u, c)
  PROVE  running' \in [Units -> SUBSET Kinds] /\ started' \in [Units -> BOOLEAN]
<1>1. Configured(c) \in SUBSET Kinds
  BY DEF Configured
<1>2. CASE Restart(u, c, f)
  BY <1>1, <1>2 DEF TypeOK, Restart
<1>3. CASE RestartFails(u, c)
  BY <1>1, <1>3 DEF TypeOK, RestartFails
<1> QED
  BY <1>2, <1>3

(* Only shards are told of what the config-server publishes.               *)
LEMMA PublishTypes ==
  ASSUME TypeOK, PendingAllowed, NEW new \in SUBSET Units, Publish(new), sharded' = sharded
  PROVE  /\ ca' \subseteq Units
         /\ pending' \in [Units -> SUBSET {"joined", "changed", "broken", "sync", "start"}]
         /\ PendingAllowed'
BY DEF TypeOK, Publish, PendingAllowed

(* A deferred or new relation-joined, and the action of the operator.      *)
LEMMA JoinedKeeps ==
  ASSUME IInv, NEW u \in Units, Joined(u) \/ SetPrivateKey(u)
  PROVE  IInv'
<1>1. hook[u] # <<>> /\ sharded' = sharded /\ pending' = pending /\ files' = files
  BY DEF Joined, SetPrivateKey, Runs, cluster, mongod
<1>2. /\ hook' \in [Units -> Seq(Event)] /\ deferred' \in [Units -> Seq(Event)]
      /\ QueuesAllowed'
  BY <1>1, DoneQueues, DeferredQueues DEF IInv, Joined, SetPrivateKey
<1>3. /\ key' \in [Units -> [Kinds -> Nat]]
      /\ csr' \in [Units -> [Kinds -> Csr \cup {Nothing}]]
      /\ cert' \in [Units -> [Kinds -> Certificate \cup {Nothing}]]
      /\ subject' \in [Units -> {"none", "own", "config-server"}]
      /\ asked' \in [Units -> SUBSET Csr]
      /\ RequestsMatch' /\ KeysMatch'
  <2>1. ASSUME NEW K \in SUBSET Kinds, NewRequests(u, K)
        PROVE  /\ key' \in [Units -> [Kinds -> Nat]]
               /\ csr' \in [Units -> [Kinds -> Csr \cup {Nothing}]]
               /\ cert' \in [Units -> [Kinds -> Certificate \cup {Nothing}]]
               /\ subject' \in [Units -> {"none", "own", "config-server"}]
               /\ asked' \in [Units -> SUBSET Csr]
               /\ RequestsMatch' /\ KeysMatch'
    BY <1>1, <2>1, NewRequestsMatch DEF IInv
  <2>2. CASE UNCHANGED <<secrets, asked>>
    BY <1>1, <2>2 DEF IInv, TypeOK, RequestsMatch, KeysMatch, secrets
  <2> QED
    BY <2>1, <2>2, RequestsChange
<1>4. TypeOK'
  BY <1>2, <1>3 DEF IInv, TypeOK, Joined, SetPrivateKey, mongod, cluster
<1>5. PendingAllowed'
  BY <1>1 DEF IInv, PendingAllowed
<1> QED
  BY <1>2, <1>3, <1>4, <1>5 DEF IInv

(* What is stored and written when a certificate of ours becomes available *)
(* belongs to the key that is stored.                                      *)
LEMMA SetCertificateMatches ==
  ASSUME IInv, NEW u \in Units, NEW c \in Certificate, csr[u][c.csr.kind] = c.csr,
         SetCertificate(u, c), UNCHANGED <<key, csr, sharded>>
  PROVE  /\ cert' \in [Units -> [Kinds -> Certificate \cup {Nothing}]]
         /\ ca' \subseteq Units
         /\ pending' \in [Units -> SUBSET {"joined", "changed", "broken", "sync", "start"}]
         /\ files' \in [Units -> [Kinds -> Pem \cup {Nothing}]]
         /\ running' \in [Units -> SUBSET Kinds] /\ started' \in [Units -> BOOLEAN]
         /\ RequestsMatch' /\ PendingAllowed' /\ KeysMatch' /\ faults' \in Nat
<1> DEFINE k == c.csr.kind
           new == [cert[u] EXCEPT ![k] = c]
<1>1. k \in Kinds /\ c.csr \in Csr
  BY DEF Certificate, Csr
<1>2. new \in [Kinds -> Certificate \cup {Nothing}]
  BY <1>1 DEF IInv, TypeOK
<1>3. cert' = [cert EXCEPT ![u] = new]
  BY DEF SetCertificate
<1>4. cert' \in [Units -> [Kinds -> Certificate \cup {Nothing}]]
  BY <1>2, <1>3 DEF IInv, TypeOK
<1>5. csr[u][k].key = key[u][k] /\ csr[u][k] # Nothing
  BY <1>1, NothingElse DEF IInv, RequestsMatch
<1>6. \A j \in Kinds : new[j] # Nothing => new[j].csr.key = key[u][j] /\ csr[u][j] # Nothing
  BY <1>1, <1>2, <1>5 DEF IInv, TypeOK, KeysMatch, RequestsMatch
<1>7. RequestsMatch'
  BY <1>3, <1>6 DEF IInv, TypeOK, RequestsMatch
<1>8. /\ ca' \subseteq Units
      /\ pending' \in [Units -> SUBSET {"joined", "changed", "broken", "sync", "start"}]
      /\ PendingAllowed'
  <2>1. CASE u = ConfigServer
    <3>1. ca \cup sharded \cup {v \in {u} : k = "int"} \in SUBSET Units
      BY DEF IInv, TypeOK
    <3> QED
      BY <2>1, <3>1, PublishTypes DEF SetCertificate, IInv
  <2>2. CASE u # ConfigServer
    BY <2>2 DEF SetCertificate, IInv, TypeOK, PendingAllowed
  <2> QED
    BY <2>1, <2>2
<1>9. /\ files' \in [Units -> [Kinds -> Pem \cup {Nothing}]]
      /\ running' \in [Units -> SUBSET Kinds] /\ started' \in [Units -> BOOLEAN]
      /\ KeysMatch'
  <2> DEFINE pushed == Pushed(u, new)
  <2>1. CASE \A j \in Kinds : new[j] # Nothing
    <3>1. /\ files' = [files EXCEPT ![u] = pushed]
          /\ Restart(u, new, pushed) \/ RestartFails(u, new)
      BY <2>1 DEF SetCertificate
    <3>2. pushed \in [Kinds -> Pem \cup {Nothing}]
      BY <1>2 DEF Pushed, Pem, IInv, TypeOK
    <3>3. \A j \in Kinds : pushed[j] # Nothing => pushed[j].cert.csr.key = pushed[j].key
      BY <1>6 DEF Pushed
    <3>4. running' \in [Units -> SUBSET Kinds] /\ started' \in [Units -> BOOLEAN]
      BY <3>1, RestartTypes DEF IInv
    <3>5. \A v \in Units : files'[v] = IF v = u THEN pushed ELSE files[v]
      BY <3>1 DEF IInv, TypeOK
    <3>6. \A v \in Units : cert'[v] = IF v = u THEN new ELSE cert[v]
      BY <1>3 DEF IInv, TypeOK
    <3>7. ASSUME NEW v \in Units, NEW j \in Kinds
          PROVE  /\ cert'[v][j] # Nothing => cert'[v][j].csr.key = key'[v][j]
                 /\ files'[v][j] # Nothing => files'[v][j].cert.csr.key = files'[v][j].key
      <4>1. CASE v = u
        BY <1>6, <3>3, <3>5, <3>6, <4>1
      <4>2. CASE v # u
        BY <3>5, <3>6, <4>2 DEF IInv, KeysMatch
      <4> QED
        BY <4>1, <4>2
    <3>8. KeysMatch'
      BY <3>7 DEF KeysMatch
    <3> QED
      BY <3>1, <3>2, <3>4, <3>8 DEF IInv, TypeOK
  <2>2. CASE ~\A j \in Kinds : new[j] # Nothing
    <3>1. UNCHANGED mongod
      BY <2>2 DEF SetCertificate
    <3> QED
      BY <1>3, <1>6, <3>1 DEF IInv, TypeOK, KeysMatch, mongod
  <2> QED
    BY <2>1, <2>2
<1>10. faults' \in Nat
  BY DEF IInv, TypeOK, SetCertificate, RestartFails, Fault
<1> QED
  BY <1>4, <1>7, <1>8, <1>9, <1>10

(* certificate-available leaves the hook to its callers.                   *)
LEMMA AvailableMatches ==
  ASSUME IInv, NEW u \in Units, NEW c \in Certificate, CertificateAvailable(u, c)
  PROVE  /\ cert' \in [Units -> [Kinds -> Certificate \cup {Nothing}]]
         /\ ca' \subseteq Units
         /\ pending' \in [Units -> SUBSET {"joined", "changed", "broken", "sync", "start"}]
         /\ files' \in [Units -> [Kinds -> Pem \cup {Nothing}]]
         /\ running' \in [Units -> SUBSET Kinds] /\ started' \in [Units -> BOOLEAN]
         /\ RequestsMatch' /\ PendingAllowed' /\ KeysMatch' /\ faults' \in Nat
         /\ deferred' \in [Units -> Seq(Event)]
         /\ \A v \in Units : deferred'[v] \in Seq(Allowed(v)')
<1>1. UNCHANGED <<key, csr, sharded>>
  BY DEF CertificateAvailable
<1>2. Available(c) \in Allowed(u)
  BY EventTypes DEF Allowed
<1>3. /\ deferred' \in [Units -> Seq(Event)]
      /\ \A v \in Units : deferred'[v] \in Seq(Allowed(v)')
  <2>1. CASE Defer(u, Available(c))
    BY <1>1, <1>2, <2>1, DeferQueues DEF IInv
  <2>2. CASE UNCHANGED deferred
    BY <1>1, <2>2 DEF IInv, TypeOK, QueuesAllowed, Queued, Allowed
  <2> QED
    BY <2>1, <2>2 DEF CertificateAvailable, SetCertificate
<1>4. CASE UNCHANGED <<cert, ca, pending, mongod, faults>>
  BY <1>1, <1>3, <1>4 DEF IInv, TypeOK, RequestsMatch, PendingAllowed, KeysMatch, mongod
<1>5. CASE csr[u][c.csr.kind] = c.csr /\ SetCertificate(u, c)
  BY <1>1, <1>3, <1>5, SetCertificateMatches
<1> QED
  BY <1>4, <1>5 DEF CertificateAvailable

LEMMA DeferredCertificateKeeps ==
  ASSUME IInv, NEW u \in Units, DeferredCertificate(u)
  PROVE  IInv'
<1> DEFINE c == Head(hook[u]).cert
<1>1. hook[u] # <<>> /\ Head(hook[u]).type = "available"
  BY DEF DeferredCertificate, Runs
<1>2. c \in Certificate
  BY <1>1, HeadAllowed, EventTypes DEF IInv, Allowed
<1>3. CertificateAvailable(u, c)
  BY DEF DeferredCertificate
<1>4. hook' \in [Units -> Seq(Event)] /\ \A v \in Units : hook'[v] \in Seq(Allowed(v)')
  BY SMTT(30), <1>1, <1>3, HeadAllowed
  DEF IInv, TypeOK, QueuesAllowed, Queued, Allowed, DeferredCertificate, CertificateAvailable
<1>5. QueuesAllowed'
  BY <1>2, <1>3, <1>4, AvailableMatches DEF QueuesAllowed, Queued
<1>6. TypeOK'
  BY <1>2, <1>3, <1>4, AvailableMatches DEF IInv, TypeOK, DeferredCertificate, CertificateAvailable
<1> QED
  BY <1>2, <1>3, <1>5, <1>6, AvailableMatches DEF IInv

LEMMA RelationChangedKeeps ==
  ASSUME IInv, NEW u \in Units, RelationChanged(u)
  PROVE  IInv'
<1>1. CASE \E c \in News(u) : /\ CertificateAvailable(u, c)
                             /\ announced' = [announced EXCEPT ![u] = @ \cup {c}]
                             /\ UNCHANGED hook
  <2>1. PICK c \in News(u) : /\ CertificateAvailable(u, c)
                             /\ announced' = [announced EXCEPT ![u] = @ \cup {c}]
                             /\ UNCHANGED hook
    BY <1>1
  <2>2. c \in Certificate
    BY DEF News, IInv, TypeOK
  <2>3. announced' \in [Units -> SUBSET Certificate]
    BY <2>1, <2>2 DEF IInv, TypeOK
  <2>4. \A v \in Units : hook'[v] \in Seq(Allowed(v)')
    BY <2>1 DEF IInv, QueuesAllowed, Queued, Allowed, CertificateAvailable
  <2>5. QueuesAllowed'
    BY <2>1, <2>2, <2>4, AvailableMatches DEF QueuesAllowed, Queued
  <2>6. TypeOK'
    BY <2>1, <2>2, <2>3, AvailableMatches DEF IInv, TypeOK, CertificateAvailable
  <2> QED
    BY <2>1, <2>2, <2>5, <2>6, AvailableMatches DEF IInv
<1>2. CASE /\ Done(u)
           /\ UNCHANGED <<tls, initialised, upgrading, outlived, secrets, databag, pending, mongod, cluster,
                          faults>>
  <2>1. hook[u] # <<>> /\ sharded' = sharded
    BY <1>2 DEF RelationChanged, Runs, cluster
  <2>2. /\ hook' \in [Units -> Seq(Event)] /\ deferred' \in [Units -> Seq(Event)]
        /\ QueuesAllowed'
    BY <1>2, <2>1, DoneQueues DEF IInv
  <2>3. TypeOK'
    BY <1>2, <2>2 DEF IInv, TypeOK, secrets, databag, mongod, cluster
  <2> QED
    BY <1>2, <2>2, <2>3
    DEF IInv, RequestsMatch, PendingAllowed, KeysMatch, secrets, mongod, cluster
<1> QED
  BY <1>1, <1>2 DEF RelationChanged

(* A renewed request has the key of the former one.                        *)
LEMMA CertificateExpiringKeeps ==
  ASSUME IInv, NEW u \in Units, CertificateExpiring(u)
  PROVE  IInv'
<1>1. hook[u] # <<>> /\ Head(hook[u]).type = "expiring" /\ sharded' = sharded /\ Done(u)
  BY DEF CertificateExpiring, Runs, cluster
<1>2. /\ hook' \in [Units -> Seq(Event)] /\ deferred' \in [Units -> Seq(Event)]
      /\ QueuesAllowed'
  BY <1>1, DoneQueues DEF IInv
<1>3. Head(hook[u]).cert \in Certificate
  BY <1>1, HeadAllowed, EventTypes DEF IInv, Allowed
<1>4. /\ csr' \in [Units -> [Kinds -> Csr \cup {Nothing}]] /\ asked' \in [Units -> SUBSET Csr]
      /\ RequestsMatch'
  <2>1. ASSUME NEW k \in Kinds, cert[u][k] = Head(hook[u]).cert,
               csr' = [csr EXCEPT ![u][k] = [csr[u][k] EXCEPT !.gen = @ + 1]],
               asked' = [asked EXCEPT ![u] =
                 (@ \ {csr[u][k]}) \cup {[csr[u][k] EXCEPT !.gen = @ + 1]}]
        PROVE  /\ csr' \in [Units -> [Kinds -> Csr \cup {Nothing}]]
               /\ asked' \in [Units -> SUBSET Csr] /\ RequestsMatch'
    <3> DEFINE new == [csr[u][k] EXCEPT !.gen = @ + 1]
    <3>1. csr[u][k] \in Csr /\ csr[u][k] # Nothing
      BY <1>3, <2>1, NothingElse DEF IInv, TypeOK, RequestsMatch
    <3>2. new \in Csr /\ new.kind = csr[u][k].kind /\ new.key = csr[u][k].key
      BY <3>1 DEF Csr
    <3>3. csr' \in [Units -> [Kinds -> Csr \cup {Nothing}]] /\ asked' \in [Units -> SUBSET Csr]
      BY <2>1, <3>2 DEF IInv, TypeOK
    <3>4. UNCHANGED <<key, cert>>
      BY DEF CertificateExpiring
    <3>5. \A v \in Units, j \in Kinds :
            csr'[v][j] = IF v = u /\ j = k THEN new ELSE csr[v][j]
      BY <2>1, <3>2 DEF IInv, TypeOK
    <3>6. ASSUME NEW v \in Units, NEW j \in Kinds
          PROVE  /\ csr'[v][j] # Nothing => csr'[v][j].kind = j /\ csr'[v][j].key = key'[v][j]
                 /\ cert'[v][j] # Nothing => csr'[v][j] # Nothing
      <4>1. CASE v = u /\ j = k
        <5>1. csr'[v][j] = new /\ new # Nothing
          BY <3>2, <3>5, <4>1, NothingElse
        <5>2. csr[u][k].kind = k /\ csr[u][k].key = key[u][k]
          BY <3>1 DEF IInv, RequestsMatch
        <5> QED
          BY <3>2, <3>4, <4>1, <5>1, <5>2
      <4>2. CASE ~(v = u /\ j = k)
        BY <3>4, <3>5, <4>2 DEF IInv, RequestsMatch
      <4> QED
        BY <4>1, <4>2
    <3>7. RequestsMatch'
      BY <3>6 DEF RequestsMatch
    <3> QED
      BY <3>3, <3>7
  <2>2. CASE UNCHANGED <<csr, asked>>
    BY <2>2 DEF IInv, TypeOK, RequestsMatch, CertificateExpiring
  <2> QED
    BY <2>1, <2>2 DEF CertificateExpiring, Renewed
<1>5. TypeOK'
  BY <1>2, <1>4 DEF IInv, TypeOK, CertificateExpiring, mongod, cluster
<1>6. KeysMatch' /\ PendingAllowed'
  BY DEF IInv, KeysMatch, PendingAllowed, CertificateExpiring, mongod, cluster
<1> QED
  BY <1>2, <1>4, <1>5, <1>6 DEF IInv

(* What a start writes belongs to the key that is stored.                  *)
LEMMA StartKeeps ==
  ASSUME IInv, NEW u \in Units, Start(u)
  PROVE  IInv'
<1>1. hook[u] # <<>> /\ sharded' = sharded /\ Done(u) /\ Restart(u, cert[u], files'[u])
  BY DEF Start, Runs, cluster
<1>2. /\ hook' \in [Units -> Seq(Event)] /\ deferred' \in [Units -> Seq(Event)]
      /\ QueuesAllowed'
  BY <1>1, DoneQueues DEF IInv
<1>3. running' \in [Units -> SUBSET Kinds] /\ started' \in [Units -> BOOLEAN]
  BY <1>1, RestartTypes DEF IInv
<1>4. Pushed(u, cert[u]) \in [Kinds -> Pem \cup {Nothing}]
  BY DEF Pushed, Pem, IInv, TypeOK
<1>5. \A k \in Kinds : Pushed(u, cert[u])[k] # Nothing =>
        Pushed(u, cert[u])[k].cert.csr.key = Pushed(u, cert[u])[k].key
  BY DEF Pushed, IInv, KeysMatch
<1> DEFINE written == [k \in Kinds |->
             IF Pushed(u, cert[u])[k] # Nothing THEN Pushed(u, cert[u])[k] ELSE files[u][k]]
<1>6. files' = [files EXCEPT ![u] = written]
  BY DEF Start
<1>7. written \in [Kinds -> Pem \cup {Nothing}]
  BY <1>4 DEF IInv, TypeOK
<1>8. \A v \in Units : files'[v] = IF v = u THEN written ELSE files[v]
  BY <1>6 DEF IInv, TypeOK
<1>9. UNCHANGED <<key, csr, cert, pending>>
  BY DEF Start, secrets
<1>10. KeysMatch'
  <2>1. \A k \in Kinds : written[k] # Nothing => written[k].cert.csr.key = written[k].key
    BY <1>5 DEF IInv, KeysMatch
  <2>2. ASSUME NEW v \in Units, NEW j \in Kinds
        PROVE  /\ cert'[v][j] # Nothing => cert'[v][j].csr.key = key'[v][j]
               /\ files'[v][j] # Nothing => files'[v][j].cert.csr.key = files'[v][j].key
    <3>1. CASE v = u
      BY <1>8, <1>9, <2>1, <3>1 DEF IInv, KeysMatch
    <3>2. CASE v # u
      BY ZenonT(60), <1>8, <1>9, <3>2 DEF IInv, KeysMatch
    <3> QED
      BY <3>1, <3>2
  <2> QED
    BY <2>2 DEF KeysMatch
<1>11. TypeOK'
  <2>1. files' \in [Units -> [Kinds -> Pem \cup {Nothing}]]
    BY <1>6, <1>7 DEF IInv, TypeOK
  <2> QED
    BY <1>2, <1>3, <2>1 DEF IInv, TypeOK, Start, secrets, databag, cluster
<1> QED
  BY <1>1, <1>2, <1>9, <1>10, <1>11 DEF IInv, RequestsMatch, PendingAllowed

(* relation-broken leaves no certificate.                                  *)
LEMMA RelationBrokenKeeps ==
  ASSUME IInv, NEW u \in Units, RelationBroken(u)
  PROVE  IInv'
<1>1. hook[u] # <<>> /\ sharded' = sharded /\ UNCHANGED <<key, csr>>
  BY DEF RelationBroken, Runs
<1>2. /\ hook' \in [Units -> Seq(Event)] /\ deferred' \in [Units -> Seq(Event)]
      /\ QueuesAllowed'
  BY <1>1, DoneQueues, DeferredQueues DEF IInv, RelationBroken
<1>3. CASE UNCHANGED <<cert, ca, pending, mongod, outlived>>
  <2>1. TypeOK'
    BY <1>2, <1>3 DEF IInv, TypeOK, RelationBroken, databag, mongod
  <2> QED
    BY <1>1, <1>2, <1>3, <2>1 DEF IInv, RequestsMatch, PendingAllowed, KeysMatch, mongod
<1>4. CASE /\ cert' = [cert EXCEPT ![u] = [k \in Kinds |-> Nothing]]
           /\ IF u = ConfigServer THEN Publish({}) ELSE UNCHANGED <<ca, pending>>
           /\ files' = Deleted(u)
           /\ Restart(u, [k \in Kinds |-> Nothing], files'[u])
           /\ outlived' = IF Awaited(u) THEN outlived \cup {u} ELSE outlived \ {u}
  <2>1. running' \in [Units -> SUBSET Kinds] /\ started' \in [Units -> BOOLEAN]
    BY <1>4, RestartTypes DEF IInv
  <2>2. /\ ca' \subseteq Units
        /\ pending' \in [Units -> SUBSET {"joined", "changed", "broken", "sync", "start"}]
        /\ PendingAllowed'
    <3>1. CASE u = ConfigServer
      BY <1>1, <1>4, <3>1, PublishTypes DEF IInv
    <3>2. CASE u # ConfigServer
      BY <1>1, <1>4, <3>2 DEF IInv, TypeOK, PendingAllowed
    <3> QED
      BY <3>1, <3>2
  <2>3. /\ cert' \in [Units -> [Kinds -> Certificate \cup {Nothing}]]
        /\ files' \in [Units -> [Kinds -> Pem \cup {Nothing}]]
    BY <1>4 DEF IInv, TypeOK, Deleted
  <2>4. \A v \in Units, k \in Kinds :
          /\ cert'[v][k] = IF v = u THEN Nothing ELSE cert[v][k]
          /\ files'[v][k] = IF v = u THEN Nothing ELSE files[v][k]
    BY <1>4 DEF IInv, TypeOK, Deleted
  <2>5. RequestsMatch' /\ KeysMatch'
    BY <1>1, <2>4 DEF IInv, RequestsMatch, KeysMatch
  <2>6. TypeOK'
    BY <1>2, <2>1, <2>2, <2>3 DEF IInv, TypeOK, RelationBroken, databag
  <2> QED
    BY <1>2, <2>2, <2>5, <2>6 DEF IInv
<1> QED
  BY <1>3, <1>4 DEF RelationBroken

(* A unit that synchronises is a shard.                                    *)
LEMMA SynchroniseKeeps ==
  ASSUME IInv, NEW u \in Units, Synchronise(u)
  PROVE  IInv'
<1>1. /\ hook[u] # <<>> /\ Head(hook[u]).type = "sync"
      /\ UNCHANGED <<sharded, pending, files>>
  BY DEF Synchronise, Runs
<1>2. /\ hook' \in [Units -> Seq(Event)] /\ deferred' \in [Units -> Seq(Event)]
      /\ QueuesAllowed'
  BY <1>1, DoneQueues, DeferredQueues DEF IInv, Synchronise, Waits
<1>3. u \in sharded
  BY <1>1, HeadAllowed DEF IInv, Allowed
<1>4. /\ key' \in [Units -> [Kinds -> Nat]]
      /\ csr' \in [Units -> [Kinds -> Csr \cup {Nothing}]]
      /\ cert' \in [Units -> [Kinds -> Certificate \cup {Nothing}]]
      /\ subject' \in [Units -> {"none", "own", "config-server"}]
      /\ asked' \in [Units -> SUBSET Csr]
      /\ RequestsMatch' /\ KeysMatch'
  <2>1. ASSUME NEW K \in SUBSET Kinds, NewRequests(u, K)
        PROVE  /\ key' \in [Units -> [Kinds -> Nat]]
               /\ csr' \in [Units -> [Kinds -> Csr \cup {Nothing}]]
               /\ cert' \in [Units -> [Kinds -> Certificate \cup {Nothing}]]
               /\ subject' \in [Units -> {"none", "own", "config-server"}]
               /\ asked' \in [Units -> SUBSET Csr]
               /\ RequestsMatch' /\ KeysMatch'
    BY <1>1, <2>1, NewRequestsMatch DEF IInv
  <2>2. CASE UNCHANGED <<secrets, asked>>
    BY <1>1, <2>2 DEF IInv, TypeOK, RequestsMatch, KeysMatch, secrets
  <2> QED
    BY <2>1, <2>2, RequestsChange
<1>5. running' \in [Units -> SUBSET Kinds] /\ started' \in [Units -> BOOLEAN]
  <2>1. CASE UNCHANGED <<running, started>>
    BY <2>1 DEF IInv, TypeOK
  <2>2. CASE Restart(u, cert'[u], files[u])
    BY <2>2, RestartTypes DEF IInv
  <2> QED
    BY <2>1, <2>2 DEF Synchronise
<1>6. authUpdated' \subseteq sharded'
  BY <1>1, <1>3 DEF IInv, TypeOK, Synchronise
<1>7. TypeOK'
  BY <1>1, <1>2, <1>4, <1>5, <1>6 DEF IInv, TypeOK, Synchronise
<1>8. PendingAllowed'
  BY <1>1 DEF IInv, PendingAllowed
<1> QED
  BY <1>2, <1>4, <1>7, <1>8 DEF IInv

(* A hook begins with the events that were deferred.                       *)
LEMMA BeginHookKeeps ==
  ASSUME IInv, NEW u \in Units, BeginHook(u)
  PROVE  IInv'
<1>1. UNCHANGED <<key, csr, cert, files, sharded>>
  BY DEF BeginHook, secrets, mongod, cluster
<1>2. RequestsMatch' /\ KeysMatch'
  BY <1>1 DEF IInv, RequestsMatch, KeysMatch
<1>3. /\ hook' \in [Units -> Seq(Event)] /\ deferred' \in [Units -> Seq(Event)]
      /\ QueuesAllowed'
  <2>1. ASSUME NEW e \in pending[u], Begin(u, Plain(e))
        PROVE  /\ hook' \in [Units -> Seq(Event)] /\ deferred' \in [Units -> Seq(Event)]
               /\ QueuesAllowed'
    <3>1. Plain(e) \in Allowed(u)
      <4>1. e \in {"joined", "changed", "broken", "sync", "start"}
        BY DEF IInv, TypeOK
      <4>2. Plain(e) \in Event /\ Plain(e).type = e
        BY <4>1, EventTypes
      <4>3. e = "sync" => u \in sharded
        BY DEF IInv, PendingAllowed
      <4> QED
        BY <4>2, <4>3 DEF Allowed
    <3> QED
      BY <1>1, <2>1, <3>1, BeginQueues DEF IInv
  <2>2. CASE /\ hook' = [hook EXCEPT ![u] = deferred[u]]
             /\ deferred' = [deferred EXCEPT ![u] = <<>>]
    BY <1>1, <2>2 DEF IInv, TypeOK, QueuesAllowed, Queued, Allowed
  <2> QED
    BY <2>1, <2>2 DEF BeginHook
<1>4. /\ pending' \in [Units -> SUBSET {"joined", "changed", "broken", "sync", "start"}]
      /\ PendingAllowed'
  <2>1. \A v \in Units : pending'[v] \subseteq pending[v]
    <3>1. ASSUME NEW e \in pending[u], pending' = [pending EXCEPT ![u] = @ \ {e}]
          PROVE  \A v \in Units : pending'[v] \subseteq pending[v]
      BY <3>1 DEF IInv, TypeOK
    <3>2. CASE UNCHANGED pending
      BY <3>2
    <3> QED
      BY <3>1, <3>2 DEF BeginHook
  <2>2. \E F : pending' = [pending EXCEPT ![u] = F] \/ pending' = pending
    BY DEF BeginHook
  <2>3. pending' \in [Units -> SUBSET {"joined", "changed", "broken", "sync", "start"}]
    <3>1. ASSUME NEW F, pending' = [pending EXCEPT ![u] = F]
          PROVE  pending' \in [Units -> SUBSET {"joined", "changed", "broken", "sync", "start"}]
      <4>1. F \subseteq pending[u]
        BY <2>1, <3>1 DEF IInv, TypeOK
      <4> QED
        BY <3>1, <4>1 DEF IInv, TypeOK
    <3> QED
      BY <2>2, <3>1 DEF IInv, TypeOK
  <2> QED
    BY <1>1, <2>1, <2>3 DEF IInv, PendingAllowed
<1>5. /\ tls' \in [Units -> {"absent", "none", "related", "leaving", "removed"}]
      /\ asked' \in [Units -> SUBSET Csr] /\ issued' \in [Units -> SUBSET Certificate]
  <2>1. \/ UNCHANGED <<tls, asked, issued>>
        \/ /\ tls' = [tls EXCEPT ![u] = "removed"]
           /\ asked' = [asked EXCEPT ![u] = {}] /\ issued' = [issued EXCEPT ![u] = {}]
    BY DEF BeginHook
  <2> QED
    BY <2>1 DEF IInv, TypeOK
<1>6. TypeOK'
  BY <1>3, <1>4, <1>5 DEF IInv, TypeOK, BeginHook, secrets, mongod, cluster
<1> QED
  BY <1>2, <1>3, <1>4, <1>6 DEF IInv

LEMMA BeginOtherKeeps ==
  ASSUME IInv, NEW u \in Units, BeginOther(u)
  PROVE  IInv'
<1>1. UNCHANGED <<key, csr, cert, files, sharded, pending>> /\ faults' \in Nat
  BY DEF BeginOther, secrets, mongod, cluster, Fault, IInv, TypeOK
<1>2. RequestsMatch' /\ KeysMatch' /\ PendingAllowed'
  BY <1>1 DEF IInv, RequestsMatch, KeysMatch, PendingAllowed
<1>3. PICK e \in Allowed(u) : Begin(u, e)
  <2>1. Plain("set-key") \in Allowed(u)
    BY EventTypes DEF Allowed
  <2>2. \A c \in issued[u] : [type |-> "expiring", cert |-> c] \in Allowed(u)
    BY EventTypes DEF Allowed, IInv, TypeOK
  <2> QED
    BY <2>1, <2>2 DEF BeginOther
<1>4. /\ hook' \in [Units -> Seq(Event)] /\ deferred' \in [Units -> Seq(Event)]
      /\ QueuesAllowed'
  BY <1>1, <1>3, BeginQueues DEF IInv
<1>5. TypeOK'
  BY <1>1, <1>4 DEF IInv, TypeOK, BeginOther, secrets, databag, mongod, cluster
<1> QED
  BY <1>2, <1>4, <1>5 DEF IInv

(* The files of a pod that is replaced are gone.                           *)
LEMMA PodReplacedKeeps ==
  ASSUME IInv, NEW u \in Units, PodReplaced(u)
  PROVE  IInv'
<1>1. UNCHANGED <<key, csr, cert, sharded, hook, deferred>> /\ faults' \in Nat
  BY DEF PodReplaced, secrets, cluster, Fault, IInv, TypeOK
<1>2. /\ files' \in [Units -> [Kinds -> Pem \cup {Nothing}]]
      /\ \A v \in Units, k \in Kinds : files'[v][k] = IF v = u THEN Nothing ELSE files[v][k]
  BY DEF PodReplaced, IInv, TypeOK
<1>3. RequestsMatch' /\ KeysMatch'
  BY <1>1, <1>2 DEF IInv, RequestsMatch, KeysMatch
<1>4. QueuesAllowed' /\ PendingAllowed'
  BY <1>1 DEF IInv, TypeOK, QueuesAllowed, Queued, Allowed, PendingAllowed, PodReplaced
<1>5. pending' \in [Units -> SUBSET {"joined", "changed", "broken", "sync", "start"}]
  BY DEF PodReplaced, IInv, TypeOK
<1>6. TypeOK'
  BY <1>1, <1>2, <1>5 DEF IInv, TypeOK, PodReplaced, secrets, databag, cluster
<1> QED
  BY <1>3, <1>4, <1>6 DEF IInv

(* What the certificates operator, juju and a refresh do to a unit.        *)
LEMMA IssueKeeps ==
  ASSUME IInv, NEW u \in Units, Issue(u)
  PROVE  IInv'
<1>1. UNCHANGED <<key, csr, cert, files, sharded, hook, deferred>>
  BY DEF Issue, secrets, mongod, cluster
<1>2. RequestsMatch' /\ KeysMatch'
  BY <1>1 DEF IInv, RequestsMatch, KeysMatch
<1>3. QueuesAllowed' /\ PendingAllowed'
  BY <1>1 DEF IInv, TypeOK, QueuesAllowed, Queued, Allowed, PendingAllowed, Issue
<1>4. issued' \in [Units -> SUBSET Certificate] /\ faults' \in Nat
  <2>1. ASSUME NEW r \in asked[u],
               issued' = [issued EXCEPT ![u] = @ \cup {[csr |-> r, issue |-> 0]}]
        PROVE  issued' \in [Units -> SUBSET Certificate]
    <3>1. [csr |-> r, issue |-> 0] \in Certificate
      BY DEF IInv, TypeOK, Certificate
    <3> QED
      BY <2>1, <3>1 DEF IInv, TypeOK
  <2>2. ASSUME NEW c \in issued[u],
               issued' = [issued EXCEPT ![u] = (@ \ {c}) \cup {[c EXCEPT !.issue = @ + 1]}]
        PROVE  issued' \in [Units -> SUBSET Certificate]
    <3>1. c \in Certificate
      BY DEF IInv, TypeOK
    <3>2. [c EXCEPT !.issue = @ + 1] \in Certificate
      BY <3>1 DEF Certificate
    <3> QED
      BY <2>2, <3>2 DEF IInv, TypeOK
  <2>3. faults' \in Nat
    BY DEF Issue, Fault, IInv, TypeOK
  <2> QED
    BY <2>1, <2>2, <2>3 DEF Issue
<1>5. pending' \in [Units -> SUBSET {"joined", "changed", "broken", "sync", "start"}]
  BY DEF Issue, IInv, TypeOK
<1>6. TypeOK'
  BY <1>1, <1>4, <1>5 DEF IInv, TypeOK, Issue, secrets, mongod, cluster
<1> QED
  BY <1>2, <1>3, <1>6 DEF IInv

LEMMA OthersKeep ==
  ASSUME IInv, NEW u \in Units,
         Relate(u) \/ RemoveRelation(u) \/ BeginUpgrade(u) \/ EndUpgrade(u)
  PROVE  IInv'
<1>1. UNCHANGED <<key, csr, cert, files, sharded, hook, deferred>>
  BY DEF Relate, RemoveRelation, BeginUpgrade, EndUpgrade, secrets, queues, mongod, cluster
<1>2. RequestsMatch' /\ KeysMatch'
  BY <1>1 DEF IInv, RequestsMatch, KeysMatch
<1>3. /\ pending' \in [Units -> SUBSET {"joined", "changed", "broken", "sync", "start"}]
      /\ PendingAllowed'
  <2>1. CASE pending' = pending
    BY <1>1, <2>1 DEF IInv, TypeOK, PendingAllowed
  <2>2. CASE pending' = [pending EXCEPT ![u] = @ \cup {"joined"}]
    BY <1>1, <2>2 DEF IInv, TypeOK, PendingAllowed
  <2>3. CASE pending' = [pending EXCEPT ![u] = (@ \ {"joined", "changed"}) \cup {"broken"}]
    BY <1>1, <2>3 DEF IInv, TypeOK, PendingAllowed
  <2> QED
    BY <2>1, <2>2, <2>3 DEF Relate, RemoveRelation, BeginUpgrade, EndUpgrade, queues
<1>4. QueuesAllowed'
  BY <1>1 DEF IInv, QueuesAllowed, Queued, Allowed
<1>5. TypeOK'
  <2>1. faults' \in Nat
    BY DEF IInv, TypeOK, Fault, Relate, RemoveRelation, BeginUpgrade, EndUpgrade
  <2>2. CASE Relate(u) \/ RemoveRelation(u)
    <3>1. tls' \in [Units -> {"absent", "none", "related", "leaving", "removed"}]
      BY <2>2 DEF IInv, TypeOK, Relate, RemoveRelation
    <3> QED
      BY <1>1, <1>3, <2>1, <2>2, <3>1
      DEF IInv, TypeOK, Relate, RemoveRelation, secrets, databag, mongod, cluster
  <2>3. CASE BeginUpgrade(u) \/ EndUpgrade(u)
    <3>1. upgrading' \in [Units -> BOOLEAN]
      BY <2>3 DEF IInv, TypeOK, BeginUpgrade, EndUpgrade
    <3> QED
      BY <1>1, <1>3, <2>1, <2>3, <3>1
      DEF IInv, TypeOK, BeginUpgrade, EndUpgrade, secrets, databag, mongod, cluster
  <2> QED
    BY <2>2, <2>3
<1> QED
  BY <1>2, <1>3, <1>4, <1>5 DEF IInv

(* A shard is related.                                                     *)
LEMMA RelateShardKeeps ==
  ASSUME IInv, NEW s \in Units, RelateShard(s)
  PROVE  IInv'
<1>1. UNCHANGED <<key, csr, cert, files, hook, deferred>> /\ sharded' = sharded \cup {s}
  BY DEF RelateShard, secrets, mongod
<1>2. RequestsMatch' /\ KeysMatch'
  BY <1>1 DEF IInv, RequestsMatch, KeysMatch
<1>3. QueuesAllowed'
  <2>1. \A u \in Units : Allowed(u) \subseteq Allowed(u)'
    BY <1>1 DEF Allowed
  <2>2. ASSUME NEW S, NEW T, S \subseteq T
        PROVE  Seq(S) \subseteq Seq(T)
    BY <2>2
  <2> QED
    BY <1>1, <2>1, <2>2 DEF IInv, QueuesAllowed, Queued
<1>4. PendingAllowed'
  BY <1>1 DEF IInv, TypeOK, PendingAllowed, RelateShard
<1>5. pending' \in [Units -> SUBSET {"joined", "changed", "broken", "sync", "start"}]
  BY DEF RelateShard, IInv, TypeOK
<1>6. TypeOK'
  BY <1>1, <1>5 DEF IInv, TypeOK, RelateShard, secrets, databag, mongod
<1> QED
  BY <1>2, <1>3, <1>4, <1>6 DEF IInv

LEMMA NextKeeps == IInv /\ [Next]_vars => IInv'
<1> SUFFICES ASSUME IInv, [Next]_vars PROVE IInv'
  OBVIOUS
<1>1. ASSUME NEW u \in Units, Handle(u)
      PROVE  IInv'
  BY <1>1, JoinedKeeps, DeferredCertificateKeeps, RelationChangedKeeps, CertificateExpiringKeeps,
     StartKeeps, RelationBrokenKeeps, SynchroniseKeeps DEF Handle
<1>2. CASE UNCHANGED vars
  BY <1>2 DEF IInv, TypeOK, RequestsMatch, QueuesAllowed, Queued, Allowed, PendingAllowed, KeysMatch,
              vars, secrets, databag, queues, mongod, cluster
<1>3. CASE Next
  BY <1>1, <1>3, BeginHookKeeps, BeginOtherKeeps, PodReplacedKeeps, IssueKeeps, OthersKeep,
     RelateShardKeeps DEF Next
<1> QED
  BY <1>2, <1>3

(* The inductive invariant of keys, certificates and requests holds in     *)
(* every state.                                                            *)
THEOREM IInvAlways == Spec => []IInv
<1>1. IInv /\ [Next]_vars => IInv'
  BY NextKeeps
<1> QED
  BY InitIInv, <1>1, PTL DEF Spec

(* Secrets, databags, queues and files keep their types, and only shards   *)
(* tell the config-server that they have its secrets.                      *)
THEOREM TypeCorrect == Spec => []TypeOK
<1>1. IInv => TypeOK
  BY DEF IInv
<1> QED
  BY <1>1, IInvAlways, PTL

(* A certificate never stands beside a key it was not made for, neither in *)
(* the secrets nor in the files mongod reads.                              *)
THEOREM KeysAlwaysMatch == Spec => []KeysMatch
<1>1. IInv => KeysMatch
  BY DEF IInv
<1> QED
  BY <1>1, IInvAlways, PTL

-----------------------------------------------------------------------------
(* What a unit is not done with is still to come.  Nothing wakes it but    *)
(* juju's events and what it deferred itself: what they bring must not be  *)
(* dropped, nor be undone by an event of a former relation that runs late. *)

Events(q) == {q[i] : i \in 1..Len(q)}
Precedes(q, a, b) == \E i, j \in 1..Len(q) : i < j /\ q[i] = a /\ q[j] = b

Waiting(u) == Events(hook[u]) \cup Events(deferred[u])
Has(u, type) == \E e \in Waiting(u) : e.type = type
Before(u, type) == type \in pending[u] \/ Has(u, type)

(* a runs before b: what the hook defers comes first in the next one.      *)
Sooner(u, a, b) ==
  \/ Precedes(hook[u], a, b) \/ Precedes(deferred[u], a, b)
  \/ a \in Events(deferred[u]) /\ b \in Events(hook[u])

RunsWithout(u) == running[u] = {} /\ started[u] /\ \A k \in Kinds : files[u][k] = Nothing

(* mongod was last started, or failed to, with the certificates stored.    *)
RunsWith(u) ==
  /\ running[u] = Kinds
  /\ \A k \in Kinds : files[u][k] # Nothing /\ files[u][k].cert = cert[u][k]

(* Request r has not been answered, or its certificate is announced by a   *)
(* relation-changed, or deferred.                                          *)
Unanswered(u, r) == \A c \in issued[u] : c.csr # r
Announcing(u, r) == Before(u, "changed") /\ \E c \in News(u) : c.csr = r
Arriving(u, r) == \E e \in Waiting(u) : e.type = "available" /\ e.cert.csr = r
OnItsWay(u, r) == Unanswered(u, r) \/ Announcing(u, r) \/ Arriving(u, r)

(* A unit without a relation runs without certificates, or relation-broken *)
(* waits in its queues, or certificates of its requests waited there when  *)
(* relation-broken ran.                                                    *)
DisabledToCome ==
  \A u \in Units : ~Related(u) => RunsWithout(u) \/ Has(u, "broken") \/ u \in outlived

(* A shard that has not told the config-server has the event that will.    *)
SyncToCome == \A s \in sharded \ authUpdated : Before(s, "sync")

(* A related unit runs with its certificates, or could not start mongod    *)
(* with them, or a certificate, a request for new ones or a start comes.   *)
EnabledToCome ==
  \A u \in Units : tls[u] = "related" =>
    \/ InPlace(u) \/ Failed(u) \/ Before(u, "joined") \/ Before(u, "start")
    \/ \E k \in Kinds : csr[u][k] \in asked[u] /\ OnItsWay(u, csr[u][k])

(* The requests of this relation have been made.                           *)
Settled(u) == tls[u] = "related" /\ ~Before(u, "joined")

(* Only these are deferred, and the event of a hook comes last in it.      *)
Deferrable == {"joined", "available", "broken", "sync"}
Ordered(u) ==
  /\ \A e \in Events(deferred[u]) : e.type \in Deferrable
  /\ \A a, b \in Events(hook[u]) : Precedes(hook[u], a, b) => a.type \in Deferrable
  /\ hook[u] # <<>> /\ (\E e \in Events(deferred[u]) : e.type = "broken") => ~initialised[u]

(* A request no older than the last one of its kind.                       *)
Known(u, r) ==
  \/ r.key < key[u][r.kind]
  \/ r.key = key[u][r.kind] /\ csr[u][r.kind] # Nothing /\ r.gen <= csr[u][r.kind].gen

Fresh(u) ==
  /\ \A r \in asked[u] : Known(u, r)
  /\ \A c \in issued[u] \cup announced[u] : Known(u, c.csr)
  /\ \A e \in Waiting(u) : e.type = "available" => Known(u, e.cert.csr)

(* The operator's databag has one certificate for a request, and none      *)
(* older than what was announced.                                          *)
OneEach(u) ==
  /\ \A c, d \in issued[u] : c.csr = d.csr => c = d
  /\ \A c \in announced[u] : c.csr \in asked[u] =>
       \E d \in issued[u] : d.csr = c.csr /\ d.issue >= c.issue

(* A relation-broken that was deferred over the next relation runs before  *)
(* any certificate of that one.                                            *)
Mine(u, e) == e.type = "available" /\ csr[u][e.cert.csr.kind] = e.cert.csr
BrokenFirst(u) ==
  Settled(u) /\ Has(u, "broken") =>
    /\ \A k \in Kinds : cert[u][k] = Nothing
    /\ \A a, b \in Waiting(u) : b.type = "broken" /\ Sooner(u, a, b) => ~Mine(u, a)

Answered(u) ==
  Settled(u) => \A k \in Kinds :
    /\ csr[u][k] # Nothing /\ csr[u][k] \in asked[u]
    /\ OnItsWay(u, csr[u][k]) \/ (cert[u][k] # Nothing /\ cert[u][k].csr = csr[u][k])

Used(u) ==
  Settled(u) /\ (\A k \in Kinds : cert[u][k] # Nothing) => RunsWith(u) \/ Before(u, "start")

(* No certificate is stored, nor will one that waits be.                   *)
Clean(u) ==
  /\ \A k \in Kinds : cert[u][k] = Nothing
  /\ \A e \in Waiting(u) : ~Mine(u, e)

Without(u) ==
  /\ tls[u] = "leaving" <=> "broken" \in pending[u]
  /\ ~Related(u) =>
       /\ issued[u] = {}
       /\ Has(u, "broken") \/ u \in outlived \/ (RunsWithout(u) /\ Clean(u))

ToSync(u) == u \in sharded \ authUpdated => Before(u, "sync")

UnitInv(u) ==
  /\ Ordered(u) /\ Fresh(u) /\ OneEach(u) /\ BrokenFirst(u) /\ Answered(u) /\ Used(u)
  /\ Without(u) /\ ToSync(u)

WakeInv == \A u \in Units : UnitInv(u)

-----------------------------------------------------------------------------
(* Sequences of events.                                                    *)

LEMMA TailEvents ==
  ASSUME NEW S, NEW q \in Seq(S), q # <<>>
  PROVE  /\ Events(q) = {Head(q)} \cup Events(Tail(q))
         /\ \A a, b : Precedes(Tail(q), a, b) => Precedes(q, a, b)
         /\ \A b \in Events(Tail(q)) : Precedes(q, Head(q), b)
<1> DEFINE t == Tail(q)
<1>1. /\ Len(q) \in Nat /\ Len(q) >= 1 /\ Len(t) = Len(q) - 1 /\ q[1] = Head(q)
      /\ \A i \in 1..Len(t) : t[i] = q[i + 1] /\ i + 1 \in 1..Len(q)
  BY HeadTailProperties
<1> HIDE DEF t
<1>2. Events(t) \subseteq Events(q) /\ Head(q) \in Events(q)
  BY <1>1 DEF Events
<1>3. ASSUME NEW i \in 1..Len(q)
      PROVE  q[i] = Head(q) \/ q[i] \in Events(t)
  <2>1. CASE i = 1
    BY <1>1, <2>1
  <2>2. CASE i # 1
    <3>1. i - 1 \in 1..Len(t) /\ t[i - 1] = q[i]
      BY <1>1, <2>2
    <3> QED
      BY <3>1 DEF Events
  <2> QED
    BY <2>1, <2>2
<1>4. Events(q) = {Head(q)} \cup Events(t)
  BY <1>2, <1>3 DEF Events
<1>5. ASSUME NEW a, NEW b, Precedes(t, a, b)
      PROVE  Precedes(q, a, b)
  <2>1. PICK i, j \in 1..Len(t) : i < j /\ t[i] = a /\ t[j] = b
    BY <1>5 DEF Precedes
  <2>2. i + 1 \in 1..Len(q) /\ j + 1 \in 1..Len(q) /\ i + 1 < j + 1 /\ q[i + 1] = a /\ q[j + 1] = b
    BY <1>1, <2>1
  <2> QED
    BY <2>2 DEF Precedes
<1>6. ASSUME NEW b \in Events(t)
      PROVE  Precedes(q, Head(q), b)
  <2>1. PICK j \in 1..Len(t) : t[j] = b
    BY DEF Events
  <2>2. j + 1 \in 1..Len(q) /\ 1 \in 1..Len(q) /\ 1 < j + 1 /\ q[1] = Head(q) /\ q[j + 1] = b
    BY <1>1, <2>1
  <2> QED
    BY <2>2 DEF Precedes
<1> QED
  BY <1>4, <1>5, <1>6 DEF t

LEMMA AppendEvents ==
  ASSUME NEW S, NEW q \in Seq(S), NEW e \in S
  PROVE  /\ Events(Append(q, e)) = Events(q) \cup {e}
         /\ \A a, b : Precedes(Append(q, e), a, b) =>
              Precedes(q, a, b) \/ (a \in Events(q) /\ b = e)
<1> DEFINE p == Append(q, e)
<1>1. /\ Len(q) \in Nat /\ Len(p) = Len(q) + 1 /\ p[Len(q) + 1] = e
      /\ \A i \in 1..Len(q) : p[i] = q[i]
  BY AppendProperties
<1> HIDE DEF p
<1>2. Events(p) = Events(q) \cup {e}
  BY <1>1 DEF Events
<1>3. ASSUME NEW a, NEW b, Precedes(p, a, b)
      PROVE  Precedes(q, a, b) \/ (a \in Events(q) /\ b = e)
  <2>1. PICK i, j \in 1..Len(p) : i < j /\ p[i] = a /\ p[j] = b
    BY <1>3 DEF Precedes
  <2>2. i \in 1..Len(q) /\ q[i] = a
    BY <1>1, <2>1
  <2>3. CASE j \in 1..Len(q)
    BY <1>1, <2>1, <2>2, <2>3 DEF Precedes
  <2>4. CASE j = Len(q) + 1
    BY <1>1, <2>1, <2>2, <2>4 DEF Events
  <2> QED
    BY <1>1, <2>1, <2>3, <2>4
<1> QED
  BY <1>2, <1>3 DEF p

LEMMA NoEvents ==
  /\ Events(<<>>) = {} /\ \A a, b : ~Precedes(<<>>, a, b)
  /\ \A q \in Seq(Event) : Events(q) = {} => q = <<>>
<1>1. Events(<<>>) = {} /\ \A a, b : ~Precedes(<<>>, a, b)
  BY DEF Events, Precedes
<1>2. ASSUME NEW q \in Seq(Event), q # <<>>
      PROVE  Events(q) # {}
  BY <1>2, TailEvents
<1> QED
  BY <1>1, <1>2

-----------------------------------------------------------------------------
(* The queues of a unit.                                                   *)

LEMMA DoneEvents ==
  ASSUME TypeOK, NEW u \in Units, hook[u] # <<>>, Done(u)
  PROVE  /\ Waiting(u)' \subseteq Waiting(u) /\ Waiting(u) \subseteq Waiting(u)' \cup {Head(hook[u])}
         /\ \A a, b : Sooner(u, a, b)' => Sooner(u, a, b)
         /\ Ordered(u) => Ordered(u)' \/ initialised'[u] # initialised[u]
         /\ Ordered(u) /\ Head(hook[u]).type \notin Deferrable => hook'[u] = <<>> /\ Ordered(u)'
<1>1. hook[u] \in Seq(Event) /\ hook'[u] = Tail(hook[u]) /\ deferred'[u] = deferred[u]
  BY DEF TypeOK, Done
<1>2. /\ Events(hook[u]) = {Head(hook[u])} \cup Events(hook'[u])
      /\ \A a, b : Precedes(hook'[u], a, b) => Precedes(hook[u], a, b)
      /\ \A b \in Events(hook'[u]) : Precedes(hook[u], Head(hook[u]), b)
  BY <1>1, TailEvents
<1>3. /\ Waiting(u)' \subseteq Waiting(u) /\ Waiting(u) \subseteq Waiting(u)' \cup {Head(hook[u])}
      /\ \A a, b : Sooner(u, a, b)' => Sooner(u, a, b)
  BY <1>1, <1>2 DEF Waiting, Sooner
<1>4. Ordered(u) => Ordered(u)' \/ initialised'[u] # initialised[u]
  BY <1>1, <1>2 DEF Ordered
<1>5. Ordered(u) /\ Head(hook[u]).type \notin Deferrable => hook'[u] = <<>> /\ Ordered(u)'
  <2>1. SUFFICES ASSUME Ordered(u), Head(hook[u]).type \notin Deferrable
                 PROVE  hook'[u] = <<>> /\ Ordered(u)'
    OBVIOUS
  <2>2. Events(hook'[u]) = {}
    BY <1>2, <2>1 DEF Ordered
  <2>3. hook'[u] \in Seq(Event)
    BY <1>1, HeadTailProperties
  <2> QED
    BY <1>1, <2>1, <2>2, <2>3, NoEvents DEF Ordered
<1> QED
  BY <1>3, <1>4, <1>5

LEMMA DeferredEvents ==
  ASSUME TypeOK, NEW u \in Units, hook[u] # <<>>, Deferred(u)
  PROVE  /\ Waiting(u)' = Waiting(u)
         /\ \A a, b : Sooner(u, a, b)' => Sooner(u, a, b)
         /\ /\ Ordered(u) /\ Head(hook[u]).type \in Deferrable /\ initialised' = initialised
            /\ Head(hook[u]).type = "broken" => ~initialised[u]
            => Ordered(u)'
<1> DEFINE x == Head(hook[u])
<1>1. /\ hook[u] \in Seq(Event) /\ deferred[u] \in Seq(Event) /\ x \in Event
      /\ hook'[u] = Tail(hook[u]) /\ deferred'[u] = Append(deferred[u], x)
  BY HeadTailProperties DEF TypeOK, Deferred, Defer
<1>2. /\ Events(hook[u]) = {x} \cup Events(hook'[u])
      /\ \A a, b : Precedes(hook'[u], a, b) => Precedes(hook[u], a, b)
      /\ \A b \in Events(hook'[u]) : Precedes(hook[u], x, b)
  BY <1>1, TailEvents
<1>3. /\ Events(deferred'[u]) = Events(deferred[u]) \cup {x}
      /\ \A a, b : Precedes(deferred'[u], a, b) =>
           Precedes(deferred[u], a, b) \/ (a \in Events(deferred[u]) /\ b = x)
  BY <1>1, AppendEvents
<1> HIDE DEF x
<1>4. Waiting(u)' = Waiting(u)
  BY <1>2, <1>3 DEF Waiting
<1>5. ASSUME NEW a, NEW b, Sooner(u, a, b)'
      PROVE  Sooner(u, a, b)
  BY <1>2, <1>3, <1>5 DEF Sooner
<1>6. /\ Ordered(u) /\ x.type \in Deferrable /\ initialised' = initialised
      /\ x.type = "broken" => ~initialised[u]
      => Ordered(u)'
  BY <1>2, <1>3 DEF Ordered
<1> QED
  BY <1>4, <1>5, <1>6 DEF x

(* A certificate announced in a relation-changed is deferred.              *)
LEMMA DeferEvents ==
  ASSUME TypeOK, NEW u \in Units, NEW e \in Event, e.type = "available",
         Defer(u, e), hook' = hook, initialised' = initialised
  PROVE  /\ Waiting(u)' = Waiting(u) \cup {e}
         /\ \A a, b : Sooner(u, a, b)' => Sooner(u, a, b) \/ b = e \/ b \in Events(hook[u])
         /\ Ordered(u) => Ordered(u)'
<1>1. deferred[u] \in Seq(Event) /\ deferred'[u] = Append(deferred[u], e)
  BY DEF TypeOK, Defer
<1>2. /\ Events(deferred'[u]) = Events(deferred[u]) \cup {e}
      /\ \A a, b : Precedes(deferred'[u], a, b) =>
           Precedes(deferred[u], a, b) \/ (a \in Events(deferred[u]) /\ b = e)
  BY <1>1, AppendEvents
<1>3. Waiting(u)' = Waiting(u) \cup {e}
  BY <1>2 DEF Waiting
<1>4. ASSUME NEW a, NEW b, Sooner(u, a, b)'
      PROVE  Sooner(u, a, b) \/ b = e \/ b \in Events(hook[u])
  BY <1>2, <1>4 DEF Sooner
<1>5. Ordered(u) => Ordered(u)'
  BY <1>2 DEF Ordered, Deferrable
<1> QED
  BY <1>3, <1>4, <1>5

LEMMA BeginEvents ==
  ASSUME TypeOK, NEW u \in Units, NEW e \in Event, Begin(u, e)
  PROVE  /\ Waiting(u)' = Waiting(u) \cup {e}
         /\ \A a, b : Sooner(u, a, b)' => Sooner(u, a, b) \/ b = e
         /\ Ordered(u) => Ordered(u)'
<1>1. /\ deferred[u] \in Seq(Event) /\ hook[u] = <<>>
      /\ hook'[u] = Append(deferred[u], e) /\ deferred'[u] = <<>>
  BY DEF TypeOK, Begin, Idle
<1>2. /\ Events(hook'[u]) = Events(deferred[u]) \cup {e}
      /\ \A a, b : Precedes(hook'[u], a, b) =>
           Precedes(deferred[u], a, b) \/ (a \in Events(deferred[u]) /\ b = e)
  BY <1>1, AppendEvents
<1>3. Events(hook[u]) = {} /\ Events(deferred'[u]) = {} /\ \A a, b : ~Precedes(deferred'[u], a, b)
  BY <1>1, NoEvents
<1>4. Waiting(u)' = Waiting(u) \cup {e}
  BY <1>2, <1>3 DEF Waiting
<1>5. ASSUME NEW a, NEW b, Sooner(u, a, b)'
      PROVE  Sooner(u, a, b) \/ b = e
  BY <1>2, <1>3, <1>5 DEF Sooner
<1>6. \A a, b : Precedes(deferred[u], a, b) => a \in Events(deferred[u])
  BY DEF Precedes, Events
<1>7. Ordered(u) => Ordered(u)'
  BY <1>2, <1>3, <1>6 DEF Ordered
<1> QED
  BY <1>4, <1>5, <1>7

(* An update-status hook.                                                  *)
LEMMA AgainEvents ==
  ASSUME TypeOK, NEW u \in Units, Idle(u), hook' = [hook EXCEPT ![u] = deferred[u]],
         deferred' = [deferred EXCEPT ![u] = <<>>]
  PROVE  /\ Waiting(u)' = Waiting(u)
         /\ \A a, b : Sooner(u, a, b)' => Sooner(u, a, b)
         /\ Ordered(u) => Ordered(u)'
<1>1. hook[u] = <<>> /\ hook'[u] = deferred[u] /\ deferred'[u] = <<>>
  BY DEF TypeOK, Idle
<1>2. Events(hook[u]) = {} /\ Events(deferred'[u]) = {} /\ \A a, b : ~Precedes(deferred'[u], a, b)
  BY <1>1, NoEvents
<1>3. \A a, b : Precedes(deferred[u], a, b) => a \in Events(deferred[u])
  BY DEF Precedes, Events
<1>4. Waiting(u)' = Waiting(u) /\ \A a, b : Sooner(u, a, b)' => Sooner(u, a, b)
  BY <1>1, <1>2 DEF Waiting, Sooner
<1>5. Ordered(u) => Ordered(u)'
  BY <1>1, <1>2, <1>3 DEF Ordered
<1> QED
  BY <1>4, <1>5

(* What a unit's invariants depend on.                                     *)
LEMMA QueuesAlone ==
  ASSUME NEW u \in Units, hook'[u] = hook[u], deferred'[u] = deferred[u]
  PROVE  /\ Waiting(u)' = Waiting(u) /\ \A a, b : Sooner(u, a, b)' <=> Sooner(u, a, b)
         /\ initialised'[u] = initialised[u] => (Ordered(u) <=> Ordered(u)')
BY DEF Waiting, Sooner, Ordered

(* Nothing happens to unit w, but that the config-server may wake it up.   *)
Aside(w) ==
  /\ tls'[w] = tls[w] /\ initialised'[w] = initialised[w]
  /\ key'[w] = key[w] /\ csr'[w] = csr[w] /\ cert'[w] = cert[w]
  /\ asked'[w] = asked[w] /\ issued'[w] = issued[w] /\ announced'[w] = announced[w]
  /\ hook'[w] = hook[w] /\ deferred'[w] = deferred[w]
  /\ files'[w] = files[w] /\ running'[w] = running[w] /\ started'[w] = started[w]
  /\ pending[w] \subseteq pending'[w] /\ pending'[w] \subseteq pending[w] \cup {"sync"}
  /\ w \in sharded' \ authUpdated' => w \in sharded \ authUpdated
  /\ w \in outlived' <=> w \in outlived

LEMMA AsideKeeps ==
  ASSUME NEW w \in Units, UnitInv(w), Aside(w)
  PROVE  UnitInv(w)'
<1>1. /\ Waiting(w)' = Waiting(w) /\ \A a, b : Sooner(w, a, b)' <=> Sooner(w, a, b)
      /\ Ordered(w) <=> Ordered(w)'
  BY QueuesAlone DEF Aside
<1>2. \A type \in {"joined", "changed", "broken", "start"} : Before(w, type)' <=> Before(w, type)
  BY <1>1 DEF Aside, Before, Has
<1>3. Settled(w)' <=> Settled(w)
  BY <1>2 DEF Settled, Aside
<1>4. Fresh(w)' /\ OneEach(w)'
  <2>1. \A r : Known(w, r)' <=> Known(w, r)
    BY DEF Known, Aside
  <2> QED
    BY <1>1, <2>1 DEF UnitInv, Fresh, OneEach, Aside
<1>5. BrokenFirst(w)'
  BY <1>1, <1>3 DEF UnitInv, BrokenFirst, Has, Mine, Aside
<1>6. Answered(w)'
  <2>1. \A r : OnItsWay(w, r)' <=> OnItsWay(w, r)
    BY <1>1, <1>2 DEF OnItsWay, Unanswered, Announcing, News, Arriving, Aside
  <2> QED
    BY <1>3, <2>1 DEF UnitInv, Answered, Aside
<1>7. Used(w)' /\ Without(w)'
  <2>1. Clean(w)' <=> Clean(w)
    BY <1>1 DEF Clean, Mine, Aside
  <2> QED
    BY <1>1, <1>2, <1>3, <2>1
    DEF UnitInv, Used, RunsWith, Without, RunsWithout, Related, Has, Aside
<1>8. ToSync(w)'
  BY <1>1 DEF UnitInv, ToSync, Before, Has, Aside
<1> QED
  BY <1>1, <1>4, <1>5, <1>6, <1>7, <1>8 DEF UnitInv

LEMMA PublishAside ==
  ASSUME TypeOK, NEW new, Publish(new)
  PROVE  /\ \A w \in Units : /\ pending[w] \subseteq pending'[w]
                             /\ pending'[w] \subseteq pending[w] \cup {"sync"}
BY DEF TypeOK, Publish

(* A step of one unit is none of another's.                                *)
LEMMA HandleAside ==
  ASSUME TypeOK, NEW u \in Units, Handle(u), NEW w \in Units \ {u}
  PROVE  Aside(w)
<1> USE DEF secrets, databag, mongod, cluster, queues
<1>2. CASE Joined(u) \/ SetPrivateKey(u)
  <2>1. hook'[w] = hook[w] /\ deferred'[w] = deferred[w]
    BY <1>2 DEF TypeOK, Joined, SetPrivateKey, Done, Deferred, Defer
  <2>2. ASSUME NEW K \in SUBSET Kinds, NewRequests(u, K)
        PROVE  Aside(w)
    BY <1>2, <2>1, <2>2 DEF TypeOK, Joined, SetPrivateKey, NewRequests, Aside
  <2>3. CASE UNCHANGED <<secrets, asked>>
    BY <1>2, <2>1, <2>3 DEF TypeOK, Joined, SetPrivateKey, Aside
  <2> QED
    BY <1>2, <2>2, <2>3, RequestsChange
<1>3. ASSUME NEW c, CertificateAvailable(u, c)
      PROVE  /\ cert'[w] = cert[w] /\ deferred'[w] = deferred[w] /\ files'[w] = files[w]
             /\ running'[w] = running[w] /\ started'[w] = started[w]
             /\ pending[w] \subseteq pending'[w] /\ pending'[w] \subseteq pending[w] \cup {"sync"}
  <2>1. CASE UNCHANGED <<cert, pending, mongod>>
    BY <1>3, <2>1 DEF TypeOK, CertificateAvailable, Defer, SetCertificate
  <2>2. CASE SetCertificate(u, c)
    <3>1. pending[w] \subseteq pending'[w] /\ pending'[w] \subseteq pending[w] \cup {"sync"}
      BY <2>2, PublishAside DEF SetCertificate
    <3> QED
      BY <2>2, <3>1 DEF TypeOK, SetCertificate, Restart, RestartFails, Defer
  <2> QED
    BY <1>3, <2>1, <2>2 DEF CertificateAvailable
<1>4. CASE DeferredCertificate(u)
  BY <1>3, <1>4 DEF TypeOK, DeferredCertificate, CertificateAvailable, Aside
<1>5. CASE RelationChanged(u)
  <2>1. CASE \E c \in News(u) : /\ CertificateAvailable(u, c)
                               /\ announced' = [announced EXCEPT ![u] = @ \cup {c}]
                               /\ UNCHANGED hook
    BY <1>3, <2>1 DEF TypeOK, CertificateAvailable, Aside
  <2>2. CASE /\ Done(u)
             /\ UNCHANGED <<tls, initialised, upgrading, outlived, secrets, databag, pending, mongod, cluster,
                            faults>>
    BY <2>2 DEF TypeOK, Done, Aside
  <2> QED
    BY <1>5, <2>1, <2>2 DEF RelationChanged
<1>6. CASE CertificateExpiring(u)
  <2>1. csr'[w] = csr[w] /\ asked'[w] = asked[w]
    BY <1>6 DEF TypeOK, CertificateExpiring, Renewed
  <2> QED
    BY <1>6, <2>1 DEF TypeOK, CertificateExpiring, Done, Aside
<1>7. CASE Start(u)
  BY <1>7 DEF TypeOK, Start, Done, Restart, Aside
<1>8. CASE RelationBroken(u)
  <2>1. hook'[w] = hook[w] /\ deferred'[w] = deferred[w]
    BY <1>8 DEF TypeOK, RelationBroken, Done, Deferred, Defer
  <2>2. pending[w] \subseteq pending'[w] /\ pending'[w] \subseteq pending[w] \cup {"sync"}
    BY <1>8, PublishAside DEF RelationBroken
  <2>3. /\ cert'[w] = cert[w] /\ files'[w] = files[w] /\ running'[w] = running[w]
        /\ started'[w] = started[w] /\ (w \in outlived' <=> w \in outlived)
    BY <1>8 DEF TypeOK, RelationBroken, Restart, Deleted
  <2> QED
    BY <1>8, <2>1, <2>2, <2>3 DEF RelationBroken, Aside
<1>9. CASE Synchronise(u)
  <2>1. hook'[w] = hook[w] /\ deferred'[w] = deferred[w]
    BY <1>9 DEF TypeOK, Synchronise, Waits, Done, Deferred, Defer
  <2>2. running'[w] = running[w] /\ started'[w] = started[w]
    BY <1>9 DEF TypeOK, Synchronise, Restart
  <2>3. /\ key'[w] = key[w] /\ csr'[w] = csr[w] /\ cert'[w] = cert[w] /\ asked'[w] = asked[w]
    <3>1. ASSUME NEW K \in SUBSET Kinds, NewRequests(u, K)
          PROVE  /\ key'[w] = key[w] /\ csr'[w] = csr[w] /\ cert'[w] = cert[w]
                 /\ asked'[w] = asked[w]
      BY <3>1 DEF TypeOK, NewRequests
    <3>2. CASE UNCHANGED <<secrets, asked>>
      BY <3>2
    <3> QED
      BY <1>9, <3>1, <3>2, RequestsChange
  <2>4. authUpdated \subseteq authUpdated'
    BY <1>9 DEF Synchronise
  <2> QED
    BY <1>9, <2>1, <2>2, <2>3, <2>4 DEF Synchronise, Aside
<1> QED
  BY <1>2, <1>4, <1>5, <1>6, <1>7, <1>8, <1>9 DEF Handle

LEMMA OutsideAside ==
  ASSUME TypeOK, NEW u \in Units, NEW w \in Units \ {u},
         \/ BeginHook(u) \/ BeginOther(u) \/ PodReplaced(u)
         \/ Relate(u) \/ RemoveRelation(u) \/ Issue(u) \/ RelateShard(u)
         \/ BeginUpgrade(u) \/ EndUpgrade(u)
  PROVE  Aside(w)
<1> USE DEF secrets, databag, mongod, cluster, queues
<1>1. CASE BeginHook(u)
  BY <1>1 DEF TypeOK, BeginHook, Begin, Aside
<1>2. CASE BeginOther(u)
  BY <1>2 DEF TypeOK, BeginOther, Begin, Aside
<1>3. CASE PodReplaced(u)
  BY <1>3 DEF TypeOK, PodReplaced, Aside
<1>4. CASE Relate(u) \/ RemoveRelation(u)
  BY <1>4 DEF TypeOK, Relate, RemoveRelation, Aside
<1>5. CASE Issue(u)
  BY <1>5 DEF TypeOK, Issue, Aside
<1>6. CASE RelateShard(u)
  BY <1>6 DEF TypeOK, RelateShard, Aside
<1>7. CASE BeginUpgrade(u) \/ EndUpgrade(u)
  BY <1>7 DEF TypeOK, BeginUpgrade, EndUpgrade, Aside
<1> QED
  BY <1>1, <1>2, <1>3, <1>4, <1>5, <1>6, <1>7

-----------------------------------------------------------------------------
(* The requests that a unit makes are new ones.                            *)

(* The requests and certificates in the databag, and the certificates that *)
(* are announced, are for requests made before.                            *)
LEMMA FreshKept ==
  ASSUME NEW u \in Units, Fresh(u), \A r \in Csr : Known(u, r) => Known(u, r)',
         TypeOK, QueuesAllowed,
         \A r \in asked'[u] : r \in asked[u] \/ Known(u, r)',
         \A c \in issued'[u] \cup announced'[u] :
           c \in issued[u] \cup announced[u] \/ c.csr \in asked[u],
         \A e \in Waiting(u)' : e.type = "available" =>
           e \in Waiting(u) \/ e.cert \in issued[u] \cup announced[u]
  PROVE  Fresh(u)'
<1>1. \A e \in Waiting(u) : e \in Event
  BY DEF TypeOK, Waiting, Events
<1>2. \A c \in Certificate : c.csr \in Csr
  BY DEF Certificate
<1>3. /\ \A r \in asked[u] : Known(u, r)'
      /\ \A c \in issued[u] \cup announced[u] : Known(u, c.csr)'
      /\ \A e \in Waiting(u) : e.type = "available" => Known(u, e.cert.csr)'
  BY <1>1, <1>2, EventTypes DEF Fresh, TypeOK
<1> QED
  BY <1>3 DEF Fresh

LEMMA KnownKept ==
  ASSUME NEW u \in Units, key'[u] = key[u], csr'[u] = csr[u]
  PROVE  \A r : Known(u, r)' <=> Known(u, r)
BY DEF Known

(* Requests for new keys.                                                  *)
LEMMA NewRequestsNew ==
  ASSUME TypeOK, RequestsMatch, NEW u \in Units, NEW K \in SUBSET Kinds, NewRequests(u, K)
  PROVE  /\ \A r \in Csr : Known(u, r) => Known(u, r)' /\ \A k \in K : r # csr'[u][k]
         /\ \A k \in K : /\ csr'[u][k] \in Csr /\ csr'[u][k].kind = k /\ csr'[u][k] # Nothing
                         /\ csr'[u][k] \in asked'[u] /\ Known(u, csr[u][k])'
                         /\ cert'[u][k] = Nothing
         /\ \A k \in Kinds \ K : csr'[u][k] = csr[u][k] /\ cert'[u][k] = cert[u][k]
         /\ asked'[u] = asked[u] \cup {csr'[u][k] : k \in K}
<1>1. /\ \A k \in K : /\ key[u][k] \in Nat /\ key'[u][k] = key[u][k] + 1
                      /\ csr'[u][k] = NewRequest(u, k) /\ cert'[u][k] = Nothing
      /\ \A k \in Kinds \ K : /\ key'[u][k] = key[u][k]
                             /\ csr'[u][k] = csr[u][k] /\ cert'[u][k] = cert[u][k]
  BY DEF TypeOK, NewRequests, WithoutCertificates
<1>2. ASSUME NEW k \in K
      PROVE  /\ NewRequest(u, k) \in Csr /\ NewRequest(u, k).kind = k
             /\ NewRequest(u, k).key = key[u][k] + 1 /\ NewRequest(u, k).gen = 0
  <2>1. key[u][k] + 1 \in Nat /\ 0 \in Nat /\ k \in Kinds
    BY <1>1
  <2> QED
    BY <2>1 DEF NewRequest, Csr
<1>3. asked'[u] = asked[u] \cup {NewRequest(u, k) : k \in K}
  BY DEF TypeOK, NewRequests
<1>4. ASSUME NEW r \in Csr, Known(u, r)
      PROVE  Known(u, r)' /\ \A k \in K : r # csr'[u][k]
  <2>1. r.kind \in Kinds /\ r.key \in Nat /\ key[u][r.kind] \in Nat
    BY DEF Csr, TypeOK
  <2>2. r.key <= key[u][r.kind]
    BY <1>4, <2>1 DEF Known
  <2>3. Known(u, r)'
    <3>1. CASE r.kind \in K
      BY <1>1, <2>1, <2>2, <3>1 DEF Known
    <3>2. CASE r.kind \notin K
      BY <1>1, <1>4, <2>1, <3>2 DEF Known
    <3> QED
      BY <3>1, <3>2
  <2>4. ASSUME NEW k \in K, r = csr'[u][k]
        PROVE  FALSE
    <3>1. r = NewRequest(u, k)
      BY <1>1, <2>4
    <3>2. r.kind = k /\ r.key = key[u][k] + 1
      BY <1>2, <3>1
    <3> QED
      BY <2>1, <2>2, <3>2
  <2> QED
    BY <2>3, <2>4
<1>5. ASSUME NEW k \in K
      PROVE  csr'[u][k] # Nothing /\ Known(u, csr[u][k])'
  <2>1. /\ csr'[u][k] = NewRequest(u, k) /\ csr'[u][k] \in Csr /\ csr'[u][k] # Nothing
        /\ csr'[u][k].kind = k /\ csr'[u][k].key = key'[u][k] /\ csr'[u][k].gen <= csr'[u][k].gen
    BY <1>1, <1>2, NothingElse
  <2> QED
    BY <2>1 DEF Known
<1> QED
  BY <1>1, <1>2, <1>3, <1>4, <1>5

(* After them nothing that waits is a certificate of the new requests; when*)
(* some of the requests stay, what waits for them does.                    *)
LEMMA NewRequestsWake ==
  ASSUME TypeOK, RequestsMatch, QueuesAllowed, NEW u \in Units, UnitInv(u),
         NEW K \in SUBSET Kinds, K # {}, NewRequests(u, K),
         issued'[u] = issued[u], announced'[u] = announced[u], Waiting(u)' \subseteq Waiting(u),
         K # Kinds =>
           /\ Settled(u)' => Settled(u)
           /\ Before(u, "changed") => Before(u, "changed")'
           /\ \A e \in Waiting(u) : e.type = "available" => e \in Waiting(u)'
           /\ \A a, b : Sooner(u, a, b)' => Sooner(u, a, b)
  PROVE  /\ Fresh(u)' /\ OneEach(u)' /\ BrokenFirst(u)' /\ Answered(u)' /\ Used(u)'
         /\ Clean(u) => Clean(u)'
<1>1. \A e \in Waiting(u) : e \in Event
  BY DEF TypeOK, Waiting, Events
<1>2. \A c \in Certificate : c.csr \in Csr
  BY DEF Certificate
<1>3. Fresh(u)'
  <2>1. \A r \in asked'[u] : r \in asked[u] \/ Known(u, r)'
    BY NewRequestsNew
  <2> QED
    BY <2>1, NewRequestsNew, FreshKept DEF UnitInv
<1>4. \A c \in issued[u] \cup announced[u], k \in K : c.csr # csr'[u][k]
  <2>1. \A c \in issued[u] \cup announced[u] : c.csr \in Csr /\ Known(u, c.csr)
    BY <1>2 DEF TypeOK, UnitInv, Fresh
  <2> QED
    BY <2>1, NewRequestsNew
<1>5. OneEach(u)'
  BY <1>4, NewRequestsNew DEF UnitInv, OneEach
<1>6. ASSUME NEW e \in Waiting(u), Mine(u, e)'
      PROVE  K # Kinds /\ Mine(u, e)
  <2>1. e.type = "available" /\ e.cert \in Certificate /\ e.cert.csr \in Csr
    BY <1>1, <1>2, <1>6, EventTypes DEF Mine
  <2>2. Known(u, e.cert.csr) /\ e.cert.csr.kind \in Kinds
    BY <2>1 DEF UnitInv, Fresh, Csr
  <2>3. e.cert.csr.kind \notin K
    BY <1>6, <2>1, <2>2, NewRequestsNew DEF Mine
  <2> QED
    BY <1>6, <2>2, <2>3, NewRequestsNew DEF Mine
<1>7. BrokenFirst(u)'
  <2>1. CASE K = Kinds
    BY <1>6, <2>1, NewRequestsNew DEF BrokenFirst
  <2>2. CASE K # Kinds
    <3>1. SUFFICES ASSUME Settled(u), Has(u, "broken")
                   PROVE  /\ \A k \in Kinds : cert'[u][k] = Nothing
                          /\ \A a, b \in Waiting(u)' :
                               b.type = "broken" /\ Sooner(u, a, b)' => ~Mine(u, a)'
      BY <2>2 DEF BrokenFirst, Has
    <3>2. /\ \A k \in Kinds : cert[u][k] = Nothing
          /\ \A a, b \in Waiting(u) : b.type = "broken" /\ Sooner(u, a, b) => ~Mine(u, a)
      BY <3>1 DEF UnitInv, BrokenFirst
    <3> QED
      BY <1>6, <2>2, <3>2, NewRequestsNew
  <2> QED
    BY <2>1, <2>2
<1>8. Answered(u)'
  <2>1. \A k \in K : OnItsWay(u, csr[u][k])'
    BY <1>4 DEF OnItsWay, Unanswered
  <2>2. CASE K = Kinds
    BY <2>1, <2>2, NewRequestsNew DEF Answered
  <2>3. CASE K # Kinds
    <3>1. SUFFICES ASSUME Settled(u), NEW k \in Kinds \ K
                   PROVE  /\ csr'[u][k] # Nothing /\ csr'[u][k] \in asked'[u]
                          /\ \/ OnItsWay(u, csr[u][k])'
                             \/ cert'[u][k] # Nothing /\ cert'[u][k].csr = csr'[u][k]
      BY <2>1, <2>3, NewRequestsNew DEF Answered
    <3>2. /\ csr[u][k] # Nothing /\ csr[u][k] \in asked[u]
          /\ OnItsWay(u, csr[u][k]) \/ (cert[u][k] # Nothing /\ cert[u][k].csr = csr[u][k])
      BY <3>1 DEF UnitInv, Answered
    <3>3. csr'[u][k] = csr[u][k] /\ cert'[u][k] = cert[u][k] /\ asked[u] \subseteq asked'[u]
      BY NewRequestsNew
    <3>4. OnItsWay(u, csr[u][k]) => OnItsWay(u, csr[u][k])'
      BY <2>3, <3>3 DEF OnItsWay, Unanswered, Announcing, News, Arriving
    <3> QED
      BY <3>2, <3>3, <3>4
  <2> QED
    BY <2>2, <2>3
<1>9. Used(u)'
  BY NewRequestsNew DEF Used
<1>10. Clean(u) => Clean(u)'
  BY <1>6, NewRequestsNew DEF Clean
<1> QED
  BY <1>3, <1>5, <1>7, <1>8, <1>9, <1>10

(* A step that leaves requests and certificates alone and drops nothing    *)
(* that is to bring them.                                                  *)
Quiet(u) ==
  /\ key'[u] = key[u] /\ csr'[u] = csr[u] /\ cert'[u] = cert[u]
  /\ asked'[u] = asked[u] /\ issued'[u] = issued[u] /\ announced'[u] = announced[u]
  /\ \A e \in Waiting(u)' : e.type \in {"available", "broken"} => e \in Waiting(u)
  /\ \A e \in Waiting(u) : e.type \in {"available", "broken"} => e \in Waiting(u)'
  /\ \A a, b : Sooner(u, a, b)' /\ b.type = "broken" => Sooner(u, a, b)

LEMMA QuietWake ==
  ASSUME TypeOK, QueuesAllowed, NEW u \in Units, UnitInv(u), Quiet(u),
         Settled(u)' => Settled(u),
         Before(u, "changed") /\ News(u) # {} => Before(u, "changed")'
  PROVE  Fresh(u)' /\ OneEach(u)' /\ BrokenFirst(u)' /\ Answered(u)'
<1>1. Fresh(u)'
  BY KnownKept, FreshKept DEF Quiet, UnitInv
<1>2. OneEach(u)'
  BY DEF Quiet, UnitInv, OneEach
<1>3. BrokenFirst(u)'
  BY DEF Quiet, UnitInv, BrokenFirst, Has, Mine
<1>4. Answered(u)'
  <2>1. \A r : OnItsWay(u, r) => OnItsWay(u, r)'
    BY DEF Quiet, OnItsWay, Unanswered, Announcing, News, Arriving
  <2> QED
    BY <2>1 DEF Quiet, UnitInv, Answered
<1> QED
  BY <1>1, <1>2, <1>3, <1>4

(* mongod goes on as it is.                                                *)
LEMMA UsedKept ==
  ASSUME NEW u \in Units, UnitInv(u), Settled(u)' => Settled(u), cert'[u] = cert[u],
         files'[u] = files[u], running'[u] = running[u], started'[u] = started[u],
         Before(u, "start") => Before(u, "start")'
  PROVE  Used(u)'
BY DEF UnitInv, Used, RunsWith

LEMMA CleanKept ==
  ASSUME NEW u \in Units, Quiet(u)
  PROVE  Clean(u) => Clean(u)'
BY DEF Quiet, Clean, Mine

LEMMA WithoutKept ==
  ASSUME NEW u \in Units, UnitInv(u), tls'[u] = tls[u], issued'[u] = issued[u],
         u \in outlived => u \in outlived',
         ~Related(u) /\ issued[u] = {} /\ RunsWithout(u) /\ Clean(u)
           => RunsWithout(u)' /\ Clean(u)',
         "broken" \in pending'[u] <=> "broken" \in pending[u],
         Has(u, "broken") => Has(u, "broken")'
  PROVE  Without(u)'
BY DEF UnitInv, Without, Related

(* What relation-broken looks for in the queues.                           *)
LEMMA AwaitedMine ==
  ASSUME NEW u \in Units, ~Awaited(u)
  PROVE  \A e \in Waiting(u) : ~Mine(u, e)
BY DEF Awaited, Waiting, Events, Mine

-----------------------------------------------------------------------------
(* The handlers.                                                           *)

(* What the end of a handler, or its return to the queue, means to those   *)
(* that wait.                                                              *)
LEMMA DoneWaits ==
  ASSUME TypeOK, NEW u \in Units, UnitInv(u), hook[u] # <<>>, Done(u),
         pending[u] \subseteq pending'[u], pending'[u] \subseteq pending[u] \cup {"sync"}
  PROVE  /\ \A type : Before(u, type) => Before(u, type)' \/ Head(hook[u]).type = type
         /\ Has(u, "broken") => Has(u, "broken")' \/ Head(hook[u]).type = "broken"
         /\ tls'[u] = tls[u] /\ Head(hook[u]).type # "joined" => (Settled(u)' => Settled(u))
         /\ initialised'[u] = initialised[u] => Ordered(u)'
<1>1. /\ Waiting(u) \subseteq Waiting(u)' \cup {Head(hook[u])}
      /\ Ordered(u) => Ordered(u)' \/ initialised'[u] # initialised[u]
  BY DoneEvents
<1>2. \A type : Before(u, type) => Before(u, type)' \/ Head(hook[u]).type = type
  BY <1>1 DEF Before, Has
<1>3. Has(u, "broken") => Has(u, "broken")' \/ Head(hook[u]).type = "broken"
  BY <1>1 DEF Has
<1>4. tls'[u] = tls[u] /\ Head(hook[u]).type # "joined" => (Settled(u)' => Settled(u))
  BY <1>2 DEF Settled
<1> QED
  BY <1>1, <1>2, <1>3, <1>4 DEF UnitInv

LEMMA DeferredWaits ==
  ASSUME TypeOK, NEW u \in Units, UnitInv(u), hook[u] # <<>>, Deferred(u),
         pending[u] \subseteq pending'[u], tls'[u] = tls[u]
  PROVE  /\ \A type : Before(u, type) => Before(u, type)'
         /\ Has(u, "broken") => Has(u, "broken")'
         /\ Settled(u)' => Settled(u)
<1>1. Waiting(u)' = Waiting(u)
  BY DeferredEvents
<1> QED
  BY <1>1 DEF Before, Has, Settled

LEMMA SettlesAlike ==
  ASSUME NEW u \in Units, tls'[u] = tls[u], Before(u, "joined") => Before(u, "joined")'
  PROVE  Settled(u)' => Settled(u)
BY DEF Settled

LEMMA JoinedWakes ==
  ASSUME IInv, NEW u \in Units, UnitInv(u), Joined(u) \/ SetPrivateKey(u)
  PROVE  UnitInv(u)'
<1> USE DEF secrets, databag, mongod, cluster
<1>1. /\ hook[u] # <<>> /\ Head(hook[u]).type \in {"joined", "set-key"} /\ TypeOK /\ QueuesAllowed
      /\ RequestsMatch
      /\ UNCHANGED <<tls, pending, initialised, outlived, issued, announced, files, running, started,
                     sharded, authUpdated>>
  BY DEF IInv, Joined, SetPrivateKey, Runs
<1>2. ToSync(u)' /\ ((Clean(u) => Clean(u)') => Without(u)')
  <2>1. Before(u, "sync") => Before(u, "sync")'
    BY <1>1, DoneWaits, DeferredWaits DEF Joined, SetPrivateKey
  <2>2. Has(u, "broken") => Has(u, "broken")'
    BY <1>1, DoneWaits, DeferredWaits DEF Joined, SetPrivateKey
  <2>3. RunsWithout(u) => RunsWithout(u)'
    BY <1>1 DEF RunsWithout
  <2> QED
    BY <1>1, <2>1, <2>2, <2>3, WithoutKept DEF UnitInv, ToSync
<1>3. CASE Deferred(u) /\ UNCHANGED <<secrets, asked>> /\ Head(hook[u]).type = "joined"
  <2>1. Ordered(u)' /\ Quiet(u)
    BY <1>1, <1>3, DeferredEvents DEF UnitInv, Quiet, Deferrable
  <2>2. /\ Settled(u)' => Settled(u)
        /\ Before(u, "changed") => Before(u, "changed")'
        /\ Before(u, "start") => Before(u, "start")'
    BY <1>1, <1>3, DeferredWaits
  <2> QED
    BY <1>1, <1>2, <1>3, <2>1, <2>2, QuietWake, CleanKept, UsedKept DEF UnitInv
<1>4. ASSUME NEW K \in {{"int"}, Kinds}, Done(u), NewRequests(u, K),
             K # Kinds => Head(hook[u]).type = "set-key"
      PROVE  UnitInv(u)'
  <2>1. /\ Waiting(u)' \subseteq Waiting(u) /\ Waiting(u) \subseteq Waiting(u)' \cup {Head(hook[u])}
        /\ \A a, b : Sooner(u, a, b)' => Sooner(u, a, b)
        /\ Ordered(u)'
    BY <1>1, <1>4, DoneEvents DEF UnitInv
  <2>2. K # Kinds => /\ Settled(u)' => Settled(u)
                     /\ Before(u, "changed") => Before(u, "changed")'
                     /\ \A e \in Waiting(u) : e.type = "available" => e \in Waiting(u)'
    <3>1. SUFFICES ASSUME Head(hook[u]).type = "set-key"
                   PROVE  /\ Settled(u)' => Settled(u)
                          /\ Before(u, "changed") => Before(u, "changed")'
                          /\ \A e \in Waiting(u) : e.type = "available" => e \in Waiting(u)'
      BY <1>4
    <3> QED
      BY <1>1, <1>4, <2>1, <3>1, DoneWaits
  <2>3. K \in SUBSET Kinds /\ K # {}
    BY <1>4 DEF Kinds
  <2>4. /\ Fresh(u)' /\ OneEach(u)' /\ BrokenFirst(u)' /\ Answered(u)' /\ Used(u)'
        /\ Clean(u) => Clean(u)'
    BY <1>1, <1>4, <2>1, <2>2, <2>3, NewRequestsWake
  <2> QED
    BY <1>2, <2>1, <2>4 DEF UnitInv
<1>5. CASE Done(u) /\ UNCHANGED <<secrets, asked>> /\ Head(hook[u]).type = "set-key"
  <2>1. Ordered(u)' /\ Quiet(u)
    BY <1>1, <1>5, DoneEvents DEF UnitInv, Quiet
  <2>2. /\ Settled(u)' => Settled(u)
        /\ Before(u, "changed") => Before(u, "changed")'
        /\ Before(u, "start") => Before(u, "start")'
    BY <1>1, <1>5, DoneWaits
  <2> QED
    BY <1>1, <1>2, <1>5, <2>1, <2>2, QuietWake, CleanKept, UsedKept DEF UnitInv
<1> QED
  BY <1>3, <1>4, <1>5 DEF Joined, SetPrivateKey, Runs

(* A refresh or no news.                                                   *)
LEMMA ChangedEndsWakes ==
  ASSUME IInv, NEW u \in Units, UnitInv(u), Runs(u, "changed"), News(u) = {}, Done(u),
         UNCHANGED <<tls, initialised, upgrading, outlived, secrets, databag, pending, mongod, cluster, faults>>
  PROVE  UnitInv(u)'
<1> USE DEF secrets, databag, mongod, cluster
<1>1. hook[u] # <<>> /\ Head(hook[u]).type = "changed" /\ TypeOK /\ QueuesAllowed
  BY DEF IInv, Runs
<1>2. Ordered(u)' /\ Quiet(u)
  BY <1>1, DoneEvents DEF UnitInv, Quiet
<1>3. /\ Settled(u)' => Settled(u)
      /\ Before(u, "start") => Before(u, "start")'
      /\ Before(u, "sync") => Before(u, "sync")'
      /\ Has(u, "broken") => Has(u, "broken")'
  BY <1>1, DoneWaits
<1>4. Without(u)' /\ ToSync(u)'
  BY <1>2, <1>3, CleanKept, WithoutKept DEF UnitInv, ToSync, RunsWithout
<1> QED
  BY <1>1, <1>2, <1>3, <1>4, QuietWake, UsedKept DEF UnitInv

(* A start has mongod run with the certificates there are.                 *)
LEMMA StartWakes ==
  ASSUME IInv, NEW u \in Units, UnitInv(u), Start(u)
  PROVE  UnitInv(u)'
<1> USE DEF secrets, databag, mongod, cluster
<1>1. /\ hook[u] # <<>> /\ Head(hook[u]).type = "start" /\ TypeOK /\ QueuesAllowed /\ Done(u)
      /\ UNCHANGED <<tls, pending, outlived, key, csr, cert, asked, issued, announced, sharded, authUpdated>>
  BY DEF IInv, Start, Runs
<1>2. Ordered(u)' /\ Quiet(u)
  BY <1>1, DoneEvents DEF UnitInv, Quiet, Deferrable
<1>3. \A type : type # "start" => (Before(u, type) => Before(u, type)')
  <2>1. Waiting(u) \subseteq Waiting(u)' \cup {Head(hook[u])}
    BY <1>1, DoneEvents
  <2> QED
    BY <1>1, <2>1 DEF Before, Has
<1>4. Has(u, "broken") => Has(u, "broken")'
  <2>1. Waiting(u) \subseteq Waiting(u)' \cup {Head(hook[u])}
    BY <1>1, DoneEvents
  <2> QED
    BY <1>1, <2>1 DEF Has
<1>5. /\ \A k \in Kinds : files'[u][k] = IF Pushed(u, cert[u])[k] # Nothing
                                          THEN Pushed(u, cert[u])[k] ELSE files[u][k]
      /\ running'[u] = Configured(cert[u])
      /\ started'[u] = \A k \in Configured(cert[u]) : files'[u][k] # Nothing
  BY DEF Start, Restart, TypeOK, IInv
<1>6. RunsWithout(u) /\ Clean(u) => RunsWithout(u)'
  <2>1. SUFFICES ASSUME RunsWithout(u), Clean(u) PROVE RunsWithout(u)'
    OBVIOUS
  <2>2. \A k \in Kinds : Pushed(u, cert[u])[k] = Nothing
    BY <2>1 DEF Clean, Pushed
  <2>3. Configured(cert[u]) = {}
    BY <2>1 DEF Clean, Configured
  <2> QED
    BY <1>5, <2>1, <2>2, <2>3 DEF RunsWithout
<1>7. Without(u)' /\ ToSync(u)'
  BY <1>1, <1>2, <1>3, <1>4, <1>6, CleanKept, WithoutKept DEF UnitInv, ToSync
<1>8. Settled(u)' => Settled(u)
  BY <1>1, <1>3, SettlesAlike
<1>9. Used(u)'
  <2>1. SUFFICES ASSUME Settled(u), \A k \in Kinds : cert[u][k] # Nothing
                 PROVE  RunsWith(u)'
    BY <1>1, <1>8 DEF Used
  <2>2. \A k \in Kinds : Pushed(u, cert[u])[k] = [key |-> key[u][k], cert |-> cert[u][k]]
    BY <2>1 DEF Pushed
  <2>3. \A k \in Kinds : [key |-> key[u][k], cert |-> cert[u][k]] \in Pem
    BY <1>1, <2>1 DEF TypeOK, Pem
  <2>4. ASSUME NEW k \in Kinds
        PROVE  files'[u][k] # Nothing /\ files'[u][k].cert = cert[u][k]
    <3>1. files'[u][k] = [key |-> key[u][k], cert |-> cert[u][k]]
      BY <1>5, <2>2, <2>3, NothingElse
    <3>2. files'[u][k].cert = cert[u][k]
      BY ONLY <3>1
    <3> QED
      BY <2>3, <3>1, <3>2, NothingElse
  <2>5. Configured(cert[u]) = Kinds
    BY <2>1 DEF Configured, Kinds
  <2> QED
    BY <1>1, <1>5, <2>4, <2>5 DEF RunsWith
<1>10. Before(u, "changed") => Before(u, "changed")'
  BY <1>3
<1> QED
  BY <1>1, <1>2, <1>7, <1>8, <1>9, <1>10, QuietWake DEF UnitInv

(* relation-broken drops certificates, and none of the next relation.      *)
LEMMA BrokenWakes ==
  ASSUME IInv, NEW u \in Units, UnitInv(u), RelationBroken(u)
  PROVE  UnitInv(u)'
<1> USE DEF secrets, databag, mongod, cluster
<1>1. /\ hook[u] # <<>> /\ Head(hook[u]).type = "broken" /\ TypeOK /\ QueuesAllowed
      /\ UNCHANGED <<tls, initialised, key, csr, asked, issued, announced, sharded, authUpdated>>
  BY DEF IInv, RelationBroken, Runs
<1>2. CASE ~initialised[u] /\ Deferred(u) /\ UNCHANGED <<cert, ca, pending, mongod, outlived>>
  <2>1. Ordered(u)' /\ Quiet(u)
    BY <1>1, <1>2, DeferredEvents DEF UnitInv, Quiet, Deferrable
  <2>2. /\ Settled(u)' => Settled(u)
        /\ Before(u, "changed") => Before(u, "changed")'
        /\ Before(u, "start") => Before(u, "start")'
        /\ Before(u, "sync") => Before(u, "sync")'
        /\ Has(u, "broken") => Has(u, "broken")'
    BY <1>1, <1>2, DeferredWaits
  <2>3. Without(u)' /\ ToSync(u)'
    BY <1>1, <1>2, <2>1, <2>2, CleanKept, WithoutKept DEF UnitInv, ToSync, RunsWithout
  <2> QED
    BY <1>1, <1>2, <2>1, <2>2, <2>3, QuietWake, UsedKept DEF UnitInv
<1>3. CASE /\ initialised[u] /\ Done(u)
           /\ cert' = [cert EXCEPT ![u] = [k \in Kinds |-> Nothing]]
           /\ IF u = ConfigServer THEN Publish({}) ELSE UNCHANGED <<ca, pending>>
           /\ files' = Deleted(u)
           /\ Restart(u, [k \in Kinds |-> Nothing], files'[u])
           /\ outlived' = IF Awaited(u) THEN outlived \cup {u} ELSE outlived \ {u}
  <2>1. /\ \A k \in Kinds : cert'[u][k] = Nothing /\ files'[u][k] = Nothing
        /\ running'[u] = {} /\ started'[u]
    BY <1>1, <1>3 DEF TypeOK, Restart, Configured, Deleted
  <2>2. pending[u] \subseteq pending'[u] /\ pending'[u] \subseteq pending[u] \cup {"sync"}
    BY <1>1, <1>3, PublishAside
  <2>3. /\ Waiting(u)' \subseteq Waiting(u) /\ Waiting(u) \subseteq Waiting(u)' \cup {Head(hook[u])}
        /\ \A a, b : Sooner(u, a, b)' => Sooner(u, a, b)
        /\ Ordered(u)'
    BY <1>1, <1>3, DoneEvents DEF UnitInv
  <2>4. /\ \A type : type # "broken" => (Before(u, type) => Before(u, type)')
        /\ Settled(u)' => Settled(u)
    BY <1>1, <2>2, <2>3, SettlesAlike DEF Before, Has
  <2>5. Fresh(u)' /\ OneEach(u)'
    <3>1. Fresh(u)'
      BY <1>1, <2>3, KnownKept, FreshKept DEF UnitInv
    <3> QED
      BY <1>1, <3>1 DEF UnitInv, OneEach
  <2>6. BrokenFirst(u)'
    <3>1. Has(u, "broken")' => Has(u, "broken")
      BY <2>3 DEF Has
    <3> QED
      BY <1>1, <2>1, <2>3, <2>4, <3>1 DEF UnitInv, BrokenFirst, Mine
  <2>7. Answered(u)'
    <3>1. SUFFICES ASSUME Settled(u), NEW k \in Kinds
                   PROVE  /\ csr[u][k] # Nothing /\ csr[u][k] \in asked[u]
                          /\ OnItsWay(u, csr[u][k])'
      BY <1>1, <2>4 DEF Answered
    <3>2. Head(hook[u]) \in Waiting(u)
      BY <1>1, TailEvents DEF TypeOK, Waiting
    <3>3. cert[u][k] = Nothing
      BY <1>1, <3>1, <3>2 DEF UnitInv, BrokenFirst, Has
    <3>4. csr[u][k] # Nothing /\ csr[u][k] \in asked[u] /\ OnItsWay(u, csr[u][k])
      BY <3>1, <3>3 DEF UnitInv, Answered
    <3>5. OnItsWay(u, csr[u][k])'
      BY <1>1, <2>3, <2>4, <3>4 DEF OnItsWay, Unanswered, Announcing, News, Arriving
    <3> QED
      BY <3>4, <3>5
  <2>8. Used(u)' /\ ToSync(u)'
    BY <1>1, <2>1, <2>4 DEF UnitInv, Used, ToSync, Kinds
  <2>9. Without(u)'
    <3>1. RunsWithout(u)'
      BY <2>1 DEF RunsWithout
    <3>2. u \in outlived' \/ Clean(u)'
      BY <1>1, <1>3, <2>1, <2>3, AwaitedMine DEF Clean, Mine
    <3> QED
      BY <1>1, <2>2, <3>1, <3>2 DEF UnitInv, Without, Related
  <2> QED
    BY <2>3, <2>5, <2>6, <2>7, <2>8, <2>9 DEF UnitInv
<1> QED
  BY <1>2, <1>3 DEF RelationBroken

(* A certificate that becomes available is stored, waits on or is for a    *)
(* request that has been replaced.                                         *)
LEMMA AvailableWakes ==
  ASSUME IInv, NEW u \in Units, UnitInv(u), NEW c \in Certificate, CertificateAvailable(u, c),
         Ordered(u)', Waiting(u) \subseteq Waiting(u)' \cup {Available(c)},
         Waiting(u)' \subseteq Waiting(u) \cup {Available(c)},
         \A a, b : Sooner(u, a, b)' /\ b.type = "broken" => Sooner(u, a, b),
         announced[u] \subseteq announced'[u], announced'[u] \subseteq announced[u] \cup {c},
         c \in issued[u] \/ announced'[u] = announced[u],
         Available(c) \in Waiting(u) \/ c \in issued[u],
         initialised[u] /\ Settled(u) /\ Has(u, "broken") => ~Mine(u, Available(c))
  PROVE  UnitInv(u)'
<1> DEFINE k == c.csr.kind
<1>1. /\ UNCHANGED <<tls, initialised, outlived, key, csr, asked, issued, sharded, authUpdated>>
      /\ TypeOK /\ QueuesAllowed /\ k \in Kinds /\ Available(c).type = "available"
      /\ Available(c).cert = c /\ c.issue \in Nat
  BY DEF CertificateAvailable, IInv, Certificate, Csr, Available
<1>2. pending[u] \subseteq pending'[u] /\ pending'[u] \subseteq pending[u] \cup {"sync"}
  BY <1>1, PublishAside DEF CertificateAvailable, SetCertificate
<1>3. /\ \A type : type # "available" => (Before(u, type) => Before(u, type)')
      /\ Has(u, "broken") <=> Has(u, "broken")'
      /\ Settled(u)' => Settled(u)
  BY <1>1, <1>2 DEF Before, Has, Settled
<1>4. Fresh(u)' /\ OneEach(u)'
  <2>1. Fresh(u)'
    BY <1>1, KnownKept, FreshKept DEF UnitInv
  <2> QED
    BY <1>1, <2>1 DEF UnitInv, OneEach
<1>5. \A r : OnItsWay(u, r) => OnItsWay(u, r)' \/ r = c.csr
  BY <1>1, <1>3 DEF OnItsWay, Unanswered, Announcing, News, Arriving
<1>6. \A a, b : Sooner(u, a, b) => a \in Waiting(u)
  BY DEF Sooner, Precedes, Waiting, Events
<1>7. \A j \in Kinds : csr[u][j] # Nothing => csr[u][j].kind = j
  BY DEF IInv, RequestsMatch
<1>8. CASE /\ UNCHANGED <<cert, ca, pending, mongod>>
           /\ csr[u][k] # c.csr \/ Defer(u, Available(c))
  <2>1. csr[u][k] = c.csr => OnItsWay(u, c.csr)'
    <3>1. ASSUME Defer(u, Available(c))
          PROVE  Available(c) \in Waiting(u)'
      <4>1. deferred'[u] = Append(deferred[u], Available(c))
        BY <1>1, <3>1 DEF TypeOK, Defer
      <4>2. deferred[u] \in Seq(Event) /\ Available(c) \in Event
        BY <1>1, EventTypes DEF TypeOK
      <4> QED
        BY <4>1, <4>2, AppendEvents DEF Waiting
    <3> QED
      BY <1>1, <1>8, <3>1 DEF OnItsWay, Arriving
  <2>2. UNCHANGED <<cert, mongod, pending>>
    BY <1>8
  <2>3. BrokenFirst(u)'
    BY <1>1, <1>3, <1>6, <2>2 DEF UnitInv, BrokenFirst, Mine
  <2>4. Answered(u)'
    BY <1>1, <1>3, <1>5, <1>7, <2>1, <2>2 DEF UnitInv, Answered
  <2>5. Used(u)' /\ Without(u)' /\ ToSync(u)'
    <3>1. ~Related(u) /\ issued[u] = {} /\ RunsWithout(u) /\ Clean(u)
            => RunsWithout(u)' /\ Clean(u)'
      BY <1>1, <1>8, <2>2 DEF RunsWithout, Clean, Mine, mongod
    <3> QED
      BY <1>1, <1>3, <2>2, <3>1, UsedKept, WithoutKept DEF UnitInv, ToSync, mongod
  <2> QED
    BY <1>4, <2>3, <2>4, <2>5 DEF UnitInv
<1>9. CASE csr[u][k] = c.csr /\ initialised[u] /\ SetCertificate(u, c)
  <2> DEFINE new == [cert[u] EXCEPT ![k] = c]
  <2>1. /\ cert'[u] = new /\ \A j \in Kinds : new[j] = IF j = k THEN c ELSE cert[u][j]
        /\ c # Nothing
    BY <1>1, <1>9, NothingElse DEF SetCertificate, TypeOK
  <2>2. ~(Settled(u) /\ Has(u, "broken"))
    BY <1>1, <1>9 DEF Mine
  <2>3. BrokenFirst(u)'
    BY <1>3, <2>2 DEF BrokenFirst
  <2>4. Answered(u)'
    <3>1. ASSUME Settled(u), NEW j \in Kinds
          PROVE  /\ csr[u][j] # Nothing /\ csr[u][j] \in asked[u]
                 /\ OnItsWay(u, csr[u][j])' \/ (cert'[u][j] # Nothing /\ cert'[u][j].csr = csr[u][j])
      <4>1. csr[u][j] # Nothing /\ csr[u][j] \in asked[u] /\ csr[u][j].kind = j
        BY <1>7, <3>1 DEF UnitInv, Answered
      <4>2. CASE j = k
        BY <1>9, <2>1, <4>1, <4>2
      <4>3. CASE j # k
        <5>1. csr[u][j] # c.csr /\ cert'[u][j] = cert[u][j]
          BY <2>1, <4>1, <4>3
        <5>2. OnItsWay(u, csr[u][j]) \/ (cert[u][j] # Nothing /\ cert[u][j].csr = csr[u][j])
          BY <3>1 DEF UnitInv, Answered
        <5> QED
          BY <1>1, <1>5, <4>1, <5>1, <5>2
      <4> QED
        BY <4>1, <4>2, <4>3
    <3> QED
      BY <1>1, <1>3, <3>1 DEF Answered
  <2>5. ~(issued[u] = {} /\ Clean(u))
    BY <1>1, <1>9 DEF Clean, Mine
  <2>6. CASE \A j \in Kinds : new[j] # Nothing
    <3>1. files'[u] = Pushed(u, new) /\ running'[u] = Configured(new)
      BY <1>1, <1>9, <2>6 DEF SetCertificate, Restart, RestartFails, TypeOK
    <3>2. Used(u)'
      <4>1. SUFFICES ASSUME Settled(u) PROVE RunsWith(u)'
        BY <1>3 DEF Used
      <4>2. ASSUME NEW j \in Kinds
            PROVE  files'[u][j] # Nothing /\ files'[u][j].cert = new[j]
        <5>1. files'[u][j] = [key |-> key[u][j], cert |-> new[j]]
          BY <2>6, <3>1 DEF Pushed
        <5>2. new[j] \in Certificate
          BY <1>1, <2>1, <2>6 DEF TypeOK
        <5>3. [key |-> key[u][j], cert |-> new[j]] \in Pem
          BY <1>1, <5>2 DEF TypeOK, Pem
        <5>4. files'[u][j].cert = new[j]
          BY ONLY <5>1
        <5> QED
          BY <5>1, <5>3, <5>4, NothingElse
      <4>3. Configured(new) = Kinds
        BY <2>6 DEF Configured, Kinds
      <4> QED
        BY <2>1, <3>1, <4>2, <4>3 DEF RunsWith, Pushed
    <3>3. Without(u)' /\ ToSync(u)'
      BY <1>1, <1>2, <1>3, <2>5, WithoutKept DEF UnitInv, ToSync
    <3> QED
      BY <1>4, <2>3, <2>4, <3>2, <3>3 DEF UnitInv
  <2>7. CASE ~\A j \in Kinds : new[j] # Nothing
    <3>1. UNCHANGED mongod
      BY <1>9, <2>7 DEF SetCertificate
    <3>2. Used(u)'
      BY <2>1, <2>7 DEF Used
    <3>3. Without(u)' /\ ToSync(u)'
      BY <1>1, <1>2, <1>3, <2>5, WithoutKept DEF UnitInv, ToSync
    <3> QED
      BY <1>4, <2>3, <2>4, <3>2, <3>3 DEF UnitInv
  <2> QED
    BY <2>6, <2>7
<1> QED
  BY <1>8, <1>9 DEF CertificateAvailable

LEMMA DeferredCertificateWakes ==
  ASSUME IInv, NEW u \in Units, UnitInv(u), DeferredCertificate(u)
  PROVE  UnitInv(u)'
<1> DEFINE x == Head(hook[u])
           c == x.cert
<1>1. /\ hook[u] # <<>> /\ x.type = "available" /\ x \in Event /\ c \in Certificate
      /\ TypeOK /\ QueuesAllowed
  BY HeadAllowed, EventTypes DEF IInv, DeferredCertificate, Runs, Allowed
<1>2. x = Available(c)
  BY <1>1 DEF Event, Available
<1>3. /\ CertificateAvailable(u, c) /\ initialised' = initialised
      /\ hook' = [hook EXCEPT ![u] = Tail(@)] /\ UNCHANGED <<announced>>
  BY DEF DeferredCertificate, CertificateAvailable
<1>4. Done(u) \/ Deferred(u)
  BY <1>2, <1>3 DEF CertificateAvailable, SetCertificate, Done, Deferred
<1>5. /\ Waiting(u)' \subseteq Waiting(u) /\ Waiting(u) \subseteq Waiting(u)' \cup {x}
      /\ \A a, b : Sooner(u, a, b)' => Sooner(u, a, b)
  BY <1>1, <1>4, DoneEvents, DeferredEvents
<1>6. Ordered(u)'
  BY <1>1, <1>3, <1>4, DoneEvents, DeferredEvents DEF UnitInv, Deferrable
<1>7. Events(hook[u]) = {x} \cup Events(Tail(hook[u])) /\ \A b \in Events(Tail(hook[u])) : Precedes(hook[u], x, b)
  BY <1>1, TailEvents DEF TypeOK
<1>8. initialised[u] /\ Settled(u) /\ Has(u, "broken") => ~Mine(u, x)
  <2>1. SUFFICES ASSUME initialised[u], Settled(u), NEW b \in Waiting(u), b.type = "broken"
                 PROVE  ~Mine(u, x)
    BY DEF Has
  <2>2. b \notin Events(deferred[u])
    BY <1>1, <2>1 DEF UnitInv, Ordered
  <2>3. Precedes(hook[u], x, b)
    BY <1>1, <1>7, <2>1, <2>2 DEF Waiting
  <2> QED
    BY <1>7, <2>1, <2>3 DEF UnitInv, BrokenFirst, Has, Sooner, Waiting
<1>9. Available(c) \in Waiting(u)
  BY <1>2, <1>7 DEF Waiting
<1> HIDE DEF x, c
<1> QED
  BY <1>1, <1>2, <1>3, <1>5, <1>6, <1>8, <1>9, AvailableWakes

LEMMA RelationChangedWakes ==
  ASSUME IInv, NEW u \in Units, UnitInv(u), RelationChanged(u)
  PROVE  UnitInv(u)'
<1>1. /\ hook[u] # <<>> /\ Head(hook[u]).type = "changed" /\ TypeOK
  BY DEF IInv, RelationChanged, Runs
<1>2. ASSUME NEW c \in News(u), CertificateAvailable(u, c),
             announced' = [announced EXCEPT ![u] = @ \cup {c}], UNCHANGED hook
      PROVE  UnitInv(u)'
  <2>1. c \in Certificate /\ c \in issued[u] /\ announced'[u] = announced[u] \cup {c}
    BY <1>1, <1>2 DEF News, TypeOK
  <2>2. Available(c) \in Event /\ Available(c).type = "available" /\ initialised' = initialised
    BY <1>2, <2>1, EventTypes DEF CertificateAvailable
  <2>3. \A b \in Events(hook[u]) : b.type = "changed"
    <3>1. hook[u] \in Seq(Event)
      BY <1>1 DEF TypeOK
    <3>2. /\ Events(hook[u]) = {Head(hook[u])} \cup Events(Tail(hook[u]))
          /\ \A b \in Events(Tail(hook[u])) : Precedes(hook[u], Head(hook[u]), b)
      BY <1>1, <3>1, TailEvents
    <3> QED
      BY <1>1, <3>2 DEF UnitInv, Ordered, Deferrable
  <2>4. /\ Waiting(u) \subseteq Waiting(u)' /\ Waiting(u)' \subseteq Waiting(u) \cup {Available(c)}
        /\ \A a, b : Sooner(u, a, b)' /\ b.type = "broken" => Sooner(u, a, b)
        /\ Ordered(u)'
    <3>1. CASE Defer(u, Available(c))
      BY <1>1, <1>2, <2>2, <2>3, <3>1, DeferEvents DEF UnitInv
    <3>2. CASE UNCHANGED deferred
      BY <1>1, <1>2, <2>2, <3>2, QueuesAlone DEF UnitInv
    <3> QED
      BY <1>2, <3>1, <3>2 DEF CertificateAvailable, SetCertificate
  <2>5. initialised[u] => ~Has(u, "broken")
    BY <1>1, <2>3 DEF UnitInv, Ordered, Has, Waiting
  <2> QED
    BY <1>2, <2>1, <2>4, <2>5, AvailableWakes
<1> QED
  BY <1>2, ChangedEndsWakes DEF RelationChanged

(* A certificate that expires is asked for anew.                           *)
LEMMA CertificateExpiringWakes ==
  ASSUME IInv, NEW u \in Units, UnitInv(u), CertificateExpiring(u)
  PROVE  UnitInv(u)'
<1> USE DEF mongod, cluster
<1>1. /\ hook[u] # <<>> /\ Head(hook[u]).type = "expiring" /\ TypeOK /\ QueuesAllowed
      /\ RequestsMatch /\ Done(u)
      /\ UNCHANGED <<tls, initialised, outlived, pending, key, cert, issued, announced, files, running,
                     started, sharded, authUpdated>>
  BY DEF IInv, CertificateExpiring, Runs
<1>2. /\ Ordered(u)' /\ Waiting(u)' \subseteq Waiting(u)
      /\ Waiting(u) \subseteq Waiting(u)' \cup {Head(hook[u])}
      /\ \A a, b : Sooner(u, a, b)' => Sooner(u, a, b)
  BY <1>1, DoneEvents DEF UnitInv
<1>3. /\ Settled(u)' => Settled(u)
      /\ \A type \in {"changed", "start", "sync"} : Before(u, type) => Before(u, type)'
      /\ Has(u, "broken") => Has(u, "broken")'
  BY <1>1, DoneWaits
<1>4. Without(u)' /\ ToSync(u)' /\ Used(u)'
  <2>1. Clean(u) => csr' = csr
    <3>1. Head(hook[u]).cert \in Certificate
      BY <1>1, HeadAllowed, EventTypes DEF Allowed
    <3> QED
      BY <3>1, NothingElse DEF Clean, CertificateExpiring
  <2>2. Clean(u) => Clean(u)'
    BY <1>1, <1>2, <2>1 DEF Clean, Mine
  <2> QED
    BY <1>1, <1>3, <2>2, WithoutKept, UsedKept DEF UnitInv, ToSync, RunsWithout
<1>5. CASE UNCHANGED <<csr, asked>>
  <2>1. Quiet(u)
    BY <1>1, <1>2, <1>5 DEF Quiet
  <2> QED
    BY <1>1, <1>2, <1>3, <1>4, <2>1, QuietWake DEF UnitInv
<1>6. ASSUME NEW k \in Kinds, cert[u][k] = Head(hook[u]).cert,
             csr' = [csr EXCEPT ![u][k] = [csr[u][k] EXCEPT !.gen = @ + 1]],
             asked' = [asked EXCEPT ![u] =
               (@ \ {csr[u][k]}) \cup {[csr[u][k] EXCEPT !.gen = @ + 1]}]
      PROVE  UnitInv(u)'
  <2> DEFINE old == csr[u][k]
             new == [old EXCEPT !.gen = @ + 1]
  <2>1. cert[u][k] # Nothing
    <3>1. Head(hook[u]).cert \in Certificate
      BY <1>1, HeadAllowed, EventTypes DEF Allowed
    <3> QED
      BY <1>6, <3>1, NothingElse
  <2>2. old \in Csr /\ old.kind = k /\ old.key = key[u][k] /\ old # Nothing /\ key[u][k] \in Nat
    BY <1>1, <2>1 DEF TypeOK, RequestsMatch
  <2>3. /\ new \in Csr /\ new.kind = k /\ new.key = key[u][k] /\ new.gen = old.gen + 1
        /\ old.gen \in Nat /\ new # Nothing
    BY <2>2, NothingElse DEF Csr
  <2>4. /\ \A j \in Kinds : csr'[u][j] = IF j = k THEN new ELSE csr[u][j]
        /\ asked'[u] = (asked[u] \ {old}) \cup {new}
    BY <1>1, <1>6 DEF TypeOK
  <2> HIDE DEF new, old
  <2>5. /\ \A r \in Csr : Known(u, r) => Known(u, r)' /\ r # new
        /\ Known(u, csr[u][k])'
    <3>1. ASSUME NEW r \in Csr, Known(u, r)
          PROVE  Known(u, r)' /\ r # new
      <4>1. r.kind \in Kinds /\ r.gen \in Nat /\ r.key \in Nat
        BY DEF Csr
      <4>2. CASE r.kind = k
        <5>1. csr[u][k] = old /\ csr'[u][k] = new
          BY <2>4 DEF old
        <5> QED
          BY <1>1, <2>2, <2>3, <3>1, <4>1, <4>2, <5>1 DEF Known
      <4>3. CASE r.kind # k
        BY <1>1, <2>3, <2>4, <3>1, <4>1, <4>3 DEF Known
      <4> QED
        BY <4>2, <4>3
    <3>2. Known(u, csr[u][k])'
      <4>1. /\ csr'[u][k] = new /\ key'[u][k] = new.key /\ new.kind = k /\ new # Nothing
            /\ new.gen \in Nat
        BY <1>1, <2>3, <2>4
      <4> QED
        BY <4>1 DEF Known
    <3> QED
      BY <3>1, <3>2
  <2>6. Fresh(u)'
    <3>1. \A r \in asked'[u] : r \in asked[u] \/ Known(u, r)'
      BY <2>4, <2>5
    <3> QED
      BY <1>1, <1>2, <2>5, <3>1, FreshKept DEF UnitInv
  <2>7. \A c \in issued[u] \cup announced[u] : c.csr \in Csr /\ c.csr # new
    <3>1. \A c \in issued[u] \cup announced[u] : c.csr \in Csr
      BY <1>1 DEF TypeOK, Certificate
    <3> QED
      BY <2>5, <3>1 DEF UnitInv, Fresh
  <2>8. OneEach(u)'
    BY <1>1, <2>4, <2>7 DEF UnitInv, OneEach
  <2>9. BrokenFirst(u)'
    <3>1. Settled(u)' /\ Has(u, "broken")' => FALSE
      BY <1>2, <1>3, <2>1 DEF UnitInv, BrokenFirst, Has
    <3> QED
      BY <3>1 DEF BrokenFirst
  <2>10. Answered(u)'
    <3>1. SUFFICES ASSUME Settled(u), NEW j \in Kinds
                   PROVE  /\ csr'[u][j] # Nothing /\ csr'[u][j] \in asked'[u]
                          /\ \/ OnItsWay(u, csr[u][j])'
                             \/ cert'[u][j] # Nothing /\ cert'[u][j].csr = csr'[u][j]
      BY <1>3 DEF Answered
    <3>2. CASE j = k
      <4>1. csr'[u][j] = new
        BY <2>4, <3>2
      <4> QED
        BY <1>1, <2>3, <2>4, <2>7, <4>1 DEF OnItsWay, Unanswered
    <3>3. CASE j # k
      <4>1. csr'[u][j] = csr[u][j]
        BY <2>4, <3>3
      <4>2. /\ csr[u][j] # Nothing /\ csr[u][j] \in asked[u]
            /\ OnItsWay(u, csr[u][j]) \/ (cert[u][j] # Nothing /\ cert[u][j].csr = csr[u][j])
        BY <3>1 DEF UnitInv, Answered
      <4>3. csr[u][j] # old
        BY <1>1, <2>2, <3>3, <4>2 DEF RequestsMatch
      <4>4. /\ \A e \in Waiting(u) : e.type = "available" => e \in Waiting(u)'
            /\ \A c \in News(u) : c.csr = csr[u][j] => c \in News(u)'
        BY <1>1, <1>2, <2>4, <4>3 DEF News
      <4>5. OnItsWay(u, csr[u][j]) => OnItsWay(u, csr[u][j])'
        BY <1>1, <1>3, <4>1, <4>4 DEF OnItsWay, Unanswered, Announcing, Arriving
      <4> QED
        BY <1>1, <2>4, <4>1, <4>2, <4>3, <4>5
    <3> QED
      BY <3>2, <3>3
  <2> QED
    BY <1>2, <1>4, <2>6, <2>8, <2>9, <2>10 DEF UnitInv
<1> QED
  BY <1>5, <1>6 DEF CertificateExpiring, Renewed

(* A shard that waits keeps the event; one that is done has told the       *)
(* config-server.                                                          *)
LEMMA SynchroniseWakes ==
  ASSUME IInv, NEW u \in Units, UnitInv(u), Synchronise(u)
  PROVE  UnitInv(u)'
<1> USE DEF secrets
<1>1. /\ hook[u] # <<>> /\ Head(hook[u]).type = "sync" /\ TypeOK /\ QueuesAllowed /\ RequestsMatch
      /\ UNCHANGED <<tls, initialised, outlived, pending, issued, announced, files, sharded>>
  BY DEF IInv, Synchronise, Runs
<1>2. \/ Deferred(u) /\ UNCHANGED authUpdated
      \/ Done(u) /\ authUpdated' = authUpdated \cup {u}
  BY DEF Synchronise, Waits
<1>3. /\ Waiting(u)' \subseteq Waiting(u)
      /\ Waiting(u) \subseteq Waiting(u)' \cup {Head(hook[u])}
      /\ \A a, b : Sooner(u, a, b)' => Sooner(u, a, b)
      /\ Ordered(u)'
  BY <1>1, <1>2, DoneEvents, DeferredEvents DEF UnitInv, Deferrable
<1>4. /\ \A type : type # "sync" => (Before(u, type) => Before(u, type)')
      /\ Has(u, "broken") => Has(u, "broken")'
      /\ Settled(u)' => Settled(u)
  BY <1>1, <1>3, SettlesAlike DEF Before, Has
<1>5. ToSync(u)'
  <2>1. CASE Deferred(u) /\ UNCHANGED authUpdated
    BY <1>1, <2>1, DeferredWaits DEF UnitInv, ToSync
  <2>2. CASE authUpdated' = authUpdated \cup {u}
    BY <2>2 DEF ToSync
  <2> QED
    BY <1>2, <2>1, <2>2
<1>6. \/ UNCHANGED <<running, started>>
      \/ /\ running'[u] = Configured(cert'[u])
         /\ started'[u] = \A k \in Configured(cert'[u]) : files[u][k] # Nothing
  BY <1>1 DEF Synchronise, Restart, TypeOK
<1>7. (Clean(u) => Clean(u)') => Without(u)'
  <2>1. Clean(u)' /\ RunsWithout(u) => RunsWithout(u)'
    BY <1>1, <1>6 DEF RunsWithout, Configured, Clean
  <2> QED
    BY <1>1, <1>4, <2>1, WithoutKept
<1>8. CASE NewRequests(u, Kinds)
  <2>1. /\ Fresh(u)' /\ OneEach(u)' /\ BrokenFirst(u)' /\ Answered(u)' /\ Used(u)'
        /\ Clean(u) => Clean(u)'
    <3>1. Kinds \in SUBSET Kinds /\ Kinds # {}
      BY DEF Kinds
    <3> QED
      BY <1>1, <1>3, <1>8, <3>1, NewRequestsWake
  <2> QED
    BY <1>3, <1>5, <1>7, <2>1 DEF UnitInv
<1>9. CASE UNCHANGED <<secrets, asked>>
  <2>1. Quiet(u)
    BY <1>1, <1>3, <1>9 DEF Quiet
  <2>2. Used(u)'
    <3>1. SUFFICES ASSUME Settled(u), \A k \in Kinds : cert[u][k] # Nothing, RunsWith(u)
                   PROVE  RunsWith(u)'
      BY <1>4, <1>9 DEF UnitInv, Used
    <3>2. Configured(cert[u]) = Kinds
      BY <3>1 DEF Configured, Kinds
    <3> QED
      BY <1>1, <1>6, <1>9, <3>1, <3>2 DEF RunsWith
  <2> QED
    BY <1>1, <1>3, <1>4, <1>5, <1>7, <2>1, <2>2, CleanKept, QuietWake DEF UnitInv
<1> QED
  BY <1>8, <1>9 DEF Synchronise

-----------------------------------------------------------------------------
(* Juju, the certificates operator and the operator of the charms.         *)

LEMMA BeginHookWakes ==
  ASSUME IInv, NEW u \in Units, UnitInv(u), BeginHook(u)
  PROVE  UnitInv(u)'
<1> USE DEF secrets, mongod, cluster
<1>1. /\ TypeOK /\ QueuesAllowed
      /\ UNCHANGED <<initialised, outlived, key, csr, cert, announced, files, running, started, sharded,
                     authUpdated>>
  BY DEF IInv, BeginHook
<1>2. ASSUME NEW e \in pending[u], Begin(u, Plain(e)), pending' = [pending EXCEPT ![u] = @ \ {e}],
             IF e = "broken"
               THEN /\ tls' = [tls EXCEPT ![u] = "removed"]
                    /\ asked' = [asked EXCEPT ![u] = {}] /\ issued' = [issued EXCEPT ![u] = {}]
               ELSE UNCHANGED <<tls, asked, issued>>
      PROVE  UnitInv(u)'
  <2>1. Plain(e) \in Event /\ Plain(e).type = e /\ pending'[u] = pending[u] \ {e} /\ e # "available"
    <3>1. e \in {"joined", "changed", "broken", "sync", "start"}
      BY <1>1 DEF TypeOK
    <3>2. pending'[u] = pending[u] \ {e}
      BY <1>1, <1>2 DEF TypeOK
    <3>3. Plain(e) \in Event /\ Plain(e).type = e
      BY <3>1, EventTypes
    <3> QED
      BY <3>1, <3>2, <3>3
  <2>2. /\ Waiting(u)' = Waiting(u) \cup {Plain(e)}
        /\ \A a, b : Sooner(u, a, b)' => Sooner(u, a, b) \/ b = Plain(e)
        /\ Ordered(u)'
    BY <1>1, <1>2, <2>1, BeginEvents DEF UnitInv
  <2>3. /\ \A type : Before(u, type) => Before(u, type)'
        /\ Has(u, "broken") => Has(u, "broken")'
    BY <2>1, <2>2 DEF Before, Has
  <2>4. ToSync(u)'
    BY <1>1, <2>3 DEF UnitInv, ToSync
  <2>5. CASE e = "broken"
    <3>1. tls'[u] = "removed" /\ asked'[u] = {} /\ issued'[u] = {}
      BY <1>1, <1>2, <2>5 DEF TypeOK
    <3>2. Fresh(u)'
      BY <1>1, <2>1, <2>2, <2>5, <3>1, KnownKept, FreshKept DEF UnitInv
    <3>3. OneEach(u)'
      BY <3>1 DEF OneEach
    <3>4. BrokenFirst(u)' /\ Answered(u)' /\ Used(u)'
      BY <3>1 DEF BrokenFirst, Answered, Used, Settled
    <3>5. Without(u)'
      BY <2>1, <2>2, <2>5, <3>1 DEF Without, Has
    <3> QED
      BY <2>2, <2>4, <3>2, <3>3, <3>4, <3>5 DEF UnitInv
  <2>6. CASE e # "broken"
    <3>1. UNCHANGED <<tls, asked, issued>>
      BY <1>2, <2>6
    <3>2. Quiet(u)
      BY <1>1, <2>1, <2>2, <2>6, <3>1 DEF Quiet
    <3>3. Settled(u)' => Settled(u)
      BY <2>3, <3>1, SettlesAlike
    <3>4. Without(u)'
      BY <1>1, <2>1, <2>3, <2>6, <3>1, <3>2, CleanKept, WithoutKept DEF RunsWithout
    <3> QED
      BY <1>1, <2>2, <2>3, <2>4, <3>2, <3>3, <3>4, QuietWake, UsedKept DEF UnitInv
  <2> QED
    BY <2>5, <2>6
<1>3. ASSUME Idle(u), hook' = [hook EXCEPT ![u] = deferred[u]],
             deferred' = [deferred EXCEPT ![u] = <<>>], UNCHANGED <<pending, tls, asked, issued>>
      PROVE  UnitInv(u)'
  <2>1. /\ Waiting(u)' = Waiting(u)
        /\ \A a, b : Sooner(u, a, b)' => Sooner(u, a, b)
        /\ Ordered(u)'
    BY <1>1, <1>3, AgainEvents DEF UnitInv
  <2>2. Quiet(u) /\ (Settled(u)' => Settled(u))
    BY <1>1, <1>3, <2>1 DEF Quiet, Settled, Before, Has
  <2>3. /\ \A type : Before(u, type) => Before(u, type)'
        /\ Has(u, "broken") => Has(u, "broken")'
    BY <1>3, <2>1 DEF Before, Has
  <2>4. Without(u)' /\ ToSync(u)'
    BY <1>1, <1>3, <2>2, <2>3, CleanKept, WithoutKept DEF UnitInv, ToSync, RunsWithout
  <2> QED
    BY <1>1, <2>1, <2>2, <2>3, <2>4, QuietWake, UsedKept DEF UnitInv
<1> QED
  BY <1>2, <1>3 DEF BeginHook

LEMMA BeginOtherWakes ==
  ASSUME IInv, NEW u \in Units, UnitInv(u), BeginOther(u)
  PROVE  UnitInv(u)'
<1> USE DEF secrets, databag, mongod, cluster
<1>1. /\ TypeOK /\ QueuesAllowed
      /\ UNCHANGED <<tls, pending, initialised, outlived, key, csr, cert, asked, issued, announced, files,
                     running, started, sharded, authUpdated>>
  BY DEF IInv, BeginOther
<1>2. PICK e \in Event : Begin(u, e) /\ e.type \notin {"available", "broken"}
  <2>1. CASE Begin(u, Plain("set-key"))
    <3>1. Plain("set-key") \in Event /\ Plain("set-key").type = "set-key"
      BY EventTypes
    <3> QED
      BY <2>1, <3>1
  <2>2. ASSUME NEW c \in issued[u], Begin(u, [type |-> "expiring", cert |-> c])
        PROVE  \E e \in Event : Begin(u, e) /\ e.type \notin {"available", "broken"}
    <3>1. [type |-> "expiring", cert |-> c] \in Event
      BY <1>1, EventTypes DEF TypeOK
    <3> QED
      BY <2>2, <3>1
  <2> QED
    BY <2>1, <2>2 DEF BeginOther
<1>3. /\ Waiting(u)' = Waiting(u) \cup {e}
      /\ \A a, b : Sooner(u, a, b)' => Sooner(u, a, b) \/ b = e
      /\ Ordered(u)'
  BY <1>1, <1>2, BeginEvents DEF UnitInv
<1>4. /\ \A type : Before(u, type) => Before(u, type)'
      /\ Has(u, "broken") => Has(u, "broken")'
  BY <1>1, <1>3 DEF Before, Has
<1>5. Quiet(u) /\ (Settled(u)' => Settled(u))
  BY <1>1, <1>2, <1>3, <1>4, SettlesAlike DEF Quiet
<1>6. Without(u)' /\ ToSync(u)'
  BY <1>1, <1>4, <1>5, CleanKept, WithoutKept DEF UnitInv, ToSync, RunsWithout
<1> QED
  BY <1>1, <1>3, <1>4, <1>5, <1>6, QuietWake, UsedKept DEF UnitInv

(* A pod that is replaced has a start to run; a shard that is related, a   *)
(* synchronisation.                                                        *)
LEMMA PendingWakes ==
  ASSUME IInv, NEW u \in Units, UnitInv(u), PodReplaced(u) \/ RelateShard(u)
  PROVE  UnitInv(u)'
<1> USE DEF secrets, databag, mongod, cluster
<1>1. /\ TypeOK /\ QueuesAllowed
      /\ UNCHANGED <<tls, initialised, outlived, key, csr, cert, asked, issued, announced, hook, deferred,
                     running, started, authUpdated>>
  BY DEF IInv, PodReplaced, RelateShard
<1>2. /\ Waiting(u)' = Waiting(u) /\ \A a, b : Sooner(u, a, b)' <=> Sooner(u, a, b)
      /\ Ordered(u)'
  BY <1>1, QueuesAlone DEF UnitInv
<1>3. /\ pending[u] \subseteq pending'[u] /\ pending'[u] \subseteq pending[u] \cup {"start", "sync"}
  BY <1>1 DEF TypeOK, PodReplaced, RelateShard
<1>4. \A type : Before(u, type) => Before(u, type)'
  BY <1>2, <1>3 DEF Before, Has
<1>5. Quiet(u) /\ (Settled(u)' => Settled(u))
  BY <1>1, <1>2, <1>4, SettlesAlike DEF Quiet
<1>6. Used(u)'
  <2>1. CASE PodReplaced(u)
    <3>1. "start" \in pending'[u]
      BY <1>1, <2>1 DEF TypeOK, PodReplaced
    <3> QED
      BY <3>1 DEF Used, Before
  <2>2. CASE RelateShard(u)
    BY <1>1, <1>4, <1>5, <2>2, UsedKept DEF RelateShard
  <2> QED
    BY <2>1, <2>2
<1>7. Without(u)'
  <2>1. RunsWithout(u) => RunsWithout(u)'
    BY <1>1 DEF RunsWithout, PodReplaced, RelateShard, TypeOK
  <2> QED
    BY <1>1, <1>2, <1>3, <1>5, <2>1, CleanKept, WithoutKept DEF Has
<1>8. ToSync(u)'
  <2>1. CASE PodReplaced(u)
    BY <1>4, <2>1 DEF UnitInv, ToSync, PodReplaced
  <2>2. CASE RelateShard(u)
    BY <1>1, <2>2 DEF ToSync, Before, RelateShard, TypeOK
  <2> QED
    BY <2>1, <2>2
<1> QED
  BY <1>1, <1>2, <1>4, <1>5, <1>6, <1>7, <1>8, QuietWake DEF UnitInv

LEMMA RelationWakes ==
  ASSUME IInv, NEW u \in Units, UnitInv(u), Relate(u) \/ RemoveRelation(u)
  PROVE  UnitInv(u)'
<1> USE DEF secrets, databag, mongod, cluster
<1>1. /\ TypeOK
      /\ UNCHANGED <<initialised, key, csr, cert, asked, issued, announced, hook, deferred,
                     sharded, authUpdated>>
  BY DEF IInv, Relate, RemoveRelation
<1>2. /\ Waiting(u)' = Waiting(u) /\ Ordered(u)'
  BY <1>1, QueuesAlone DEF UnitInv
<1>3. \/ tls'[u] = "related" /\ pending'[u] = pending[u] \cup {"joined"} /\ "broken" \notin pending[u]
      \/ tls'[u] = "leaving" /\ pending'[u] = (pending[u] \ {"joined", "changed"}) \cup {"broken"}
  BY <1>1 DEF TypeOK, Relate, RemoveRelation
<1>4. ~Settled(u)' /\ Without(u)'
  BY <1>3 DEF Settled, Before, Without, Related
<1>5. BrokenFirst(u)' /\ Answered(u)' /\ Used(u)'
  BY <1>4 DEF BrokenFirst, Answered, Used
<1>6. Fresh(u)' /\ OneEach(u)'
  BY <1>1, <1>2, KnownKept DEF UnitInv, Fresh, OneEach
<1>7. ToSync(u)'
  BY <1>1, <1>2, <1>3 DEF UnitInv, ToSync, Before, Has
<1> QED
  BY <1>2, <1>4, <1>5, <1>6, <1>7 DEF UnitInv

(* The answer to a request is announced.                                   *)
LEMMA IssueWakes ==
  ASSUME IInv, NEW u \in Units, UnitInv(u), Issue(u)
  PROVE  UnitInv(u)'
<1> USE DEF secrets, mongod, cluster
<1>1. /\ TypeOK /\ QueuesAllowed /\ RequestsMatch
      /\ UNCHANGED <<tls, initialised, key, csr, cert, asked, announced, hook, deferred, files,
                     running, started, sharded, authUpdated>>
  BY DEF IInv, Issue
<1>2. /\ Waiting(u)' = Waiting(u) /\ \A a, b : Sooner(u, a, b)' <=> Sooner(u, a, b)
      /\ Ordered(u)'
  BY <1>1, QueuesAlone DEF UnitInv
<1>3. pending'[u] = pending[u] \cup {"changed"}
  BY <1>1 DEF TypeOK, Issue
<1>4. /\ \A type : Before(u, type) => Before(u, type)'
      /\ Before(u, "changed")' /\ (Settled(u)' => Settled(u))
  BY <1>1, <1>2, <1>3 DEF Before, Has, Settled
<1>5. PICK r \in asked[u] : \E new \in Certificate :
        /\ new.csr = r /\ new \notin announced[u] /\ new \in issued'[u]
        /\ \A c \in issued'[u] : c = new \/ (c \in issued[u] /\ c.csr # r)
        /\ \A c \in issued[u] : c.csr # r => c \in issued'[u]
        /\ \A c \in issued[u] : c.csr = r => new.issue >= c.issue
  <2>1. ASSUME NEW r \in asked[u], \A c \in issued[u] : c.csr # r,
               issued' = [issued EXCEPT ![u] = @ \cup {[csr |-> r, issue |-> 0]}]
        PROVE  \E new \in Certificate :
                 /\ new.csr = r /\ new \notin announced[u] /\ new \in issued'[u]
                 /\ \A c \in issued'[u] : c = new \/ (c \in issued[u] /\ c.csr # r)
                 /\ \A c \in issued[u] : c.csr # r => c \in issued'[u]
                 /\ \A c \in issued[u] : c.csr = r => new.issue >= c.issue
    <3> DEFINE new == [csr |-> r, issue |-> 0]
    <3>1. new \in Certificate /\ new.csr = r
      BY <1>1 DEF TypeOK, Certificate
    <3>2. issued'[u] = issued[u] \cup {new}
      BY <1>1, <2>1 DEF TypeOK
    <3> HIDE DEF new
    <3>3. new \notin announced[u]
      BY <2>1, <3>1 DEF UnitInv, OneEach
    <3> QED
      BY <2>1, <3>1, <3>2, <3>3
  <2>2. ASSUME NEW r \in asked[u], NEW old \in issued[u], old.csr = r,
               issued' = [issued EXCEPT ![u] = (@ \ {old}) \cup {[old EXCEPT !.issue = @ + 1]}]
        PROVE  \E new \in Certificate :
                 /\ new.csr = r /\ new \notin announced[u] /\ new \in issued'[u]
                 /\ \A c \in issued'[u] : c = new \/ (c \in issued[u] /\ c.csr # r)
                 /\ \A c \in issued[u] : c.csr # r => c \in issued'[u]
                 /\ \A c \in issued[u] : c.csr = r => new.issue >= c.issue
    <3> DEFINE new == [old EXCEPT !.issue = @ + 1]
    <3>1. old \in Certificate /\ old.issue \in Nat
      BY <1>1 DEF TypeOK, Certificate
    <3>2. new \in Certificate /\ new.csr = r /\ new.issue = old.issue + 1
      BY <2>2, <3>1 DEF Certificate
    <3>3. issued'[u] = (issued[u] \ {old}) \cup {new}
      BY <1>1, <2>2 DEF TypeOK
    <3> HIDE DEF new
    <3>4. \A c \in issued[u] : c.csr = r => c = old
      BY <2>2 DEF UnitInv, OneEach
    <3>5. new \notin announced[u]
      <4>1. SUFFICES ASSUME new \in announced[u] PROVE FALSE
        OBVIOUS
      <4>2. PICK d \in issued[u] : d.csr = r /\ d.issue >= new.issue
        BY <3>2, <4>1 DEF UnitInv, OneEach
      <4> QED
        BY <3>1, <3>2, <3>4, <4>2
    <3> QED
      BY <2>2, <3>1, <3>2, <3>3, <3>4, <3>5
  <2> QED
    BY <2>1, <2>2 DEF Issue
<1>6. PICK new \in Certificate :
        /\ new.csr = r /\ new \notin announced[u] /\ new \in issued'[u]
        /\ \A c \in issued'[u] : c = new \/ (c \in issued[u] /\ c.csr # r)
        /\ \A c \in issued[u] : c.csr # r => c \in issued'[u]
        /\ \A c \in issued[u] : c.csr = r => new.issue >= c.issue
  BY <1>5
<1>7. Fresh(u)'
  <2>1. \A c \in issued'[u] \cup announced'[u] : c \in issued[u] \cup announced[u] \/ c.csr \in asked[u]
    BY <1>1, <1>6
  <2> QED
    BY <1>1, <1>2, <2>1, KnownKept, FreshKept DEF UnitInv
<1>8. OneEach(u)'
  <2>1. ASSUME NEW c \in announced[u], c.csr \in asked[u]
        PROVE  \E d \in issued'[u] : d.csr = c.csr /\ d.issue >= c.issue
    <3>1. PICK d \in issued[u] : d.csr = c.csr /\ d.issue >= c.issue
      BY <2>1 DEF UnitInv, OneEach
    <3>2. d.issue \in Nat /\ c.issue \in Nat /\ new.issue \in Nat
      BY <1>1, <2>1 DEF TypeOK, Certificate
    <3> QED
      BY <1>6, <3>1, <3>2
  <2> QED
    BY <1>1, <1>6, <2>1 DEF UnitInv, OneEach
<1>9. BrokenFirst(u)'
  BY <1>1, <1>2, <1>4 DEF UnitInv, BrokenFirst, Has, Mine
<1>10. Answered(u)'
  <2>1. ASSUME NEW q, OnItsWay(u, q)
        PROVE  OnItsWay(u, q)'
    <3>1. CASE q = r
      <4>1. new \in News(u)'
        BY <1>1, <1>6 DEF News
      <4> QED
        BY <1>4, <1>6, <3>1, <4>1 DEF OnItsWay, Announcing
    <3>2. CASE q # r
      <4>1. Unanswered(u, q) => Unanswered(u, q)'
        BY <1>6, <3>2 DEF Unanswered
      <4>2. \A c \in News(u) : c.csr = q => c \in News(u)'
        BY <1>1, <1>6, <3>2 DEF News
      <4> QED
        BY <1>1, <1>2, <1>4, <2>1, <4>1, <4>2 DEF OnItsWay, Announcing, Arriving
    <3> QED
      BY <3>1, <3>2
  <2> QED
    BY <1>1, <1>4, <2>1 DEF UnitInv, Answered
<1>11. Used(u)' /\ ToSync(u)'
  BY <1>1, <1>2, <1>3, <1>4, UsedKept DEF UnitInv, ToSync
<1>12. Without(u)'
  <2>1. Related(u)
    BY DEF Issue, Related
  <2> QED
    BY <1>1, <1>3, <2>1 DEF UnitInv, Without, Related
<1> QED
  BY <1>2, <1>7, <1>8, <1>9, <1>10, <1>11, <1>12 DEF UnitInv

(* A refresh touches nothing but its own flag.                             *)
LEMMA UpgradeAside ==
  ASSUME NEW w \in Units, \/ BeginUpgrade(w) \/ EndUpgrade(w)
                          \/ UNCHANGED vars
  PROVE  Aside(w)
BY DEF BeginUpgrade, EndUpgrade, vars, Aside, secrets, databag, queues, mongod, cluster

-----------------------------------------------------------------------------
(* Every unit, from the start.                                             *)

LEMMA InitWakeInv == Init => WakeInv
<1> SUFFICES ASSUME NEW s \in Starts,
                    s \in [deployed : SUBSET Units, enabled : SUBSET Units, faults : Nat],
                    s.enabled \subseteq s.deployed,
                    Init!(s), NEW u \in Units
             PROVE  UnitInv(u)
  BY StartsAssumption DEF Init, WakeInv
<1>1. Waiting(u) = {} /\ hook[u] = <<>> /\ \A a, b : ~Sooner(u, a, b)
  BY NoEvents DEF Waiting, Sooner
<1>2. Ordered(u) /\ BrokenFirst(u)
  BY <1>1, NoEvents DEF Ordered, BrokenFirst, Has
<1>3. ToSync(u)
  BY DEF ToSync
<1>4. CASE u \in s.enabled
  <2>1. /\ tls[u] = "related" /\ pending[u] = {}
        /\ asked[u] = {FirstRequest(k) : k \in Kinds}
        /\ issued[u] = {FirstCertificate(k) : k \in Kinds} /\ announced[u] = issued[u]
        /\ running[u] = Kinds /\ started[u]
    BY <1>4 DEF PerUnit
  <2>2. ASSUME NEW k \in Kinds
        PROVE  /\ key[u][k] = 1 /\ csr[u][k] = FirstRequest(k) /\ cert[u][k] = FirstCertificate(k)
               /\ files[u][k] = [key |-> 1, cert |-> FirstCertificate(k)]
    BY <1>4 DEF PerUnit
  <2>3. ASSUME NEW k \in Kinds
        PROVE  /\ FirstRequest(k).kind = k /\ FirstRequest(k).key = 1 /\ FirstRequest(k).gen = 0
               /\ FirstRequest(k) # Nothing /\ FirstCertificate(k).csr = FirstRequest(k)
               /\ FirstCertificate(k).issue = 0 /\ FirstCertificate(k) # Nothing
    BY FirstTypes, FirstMatch, NothingElse DEF FirstRequest, FirstCertificate
  <2>4. ASSUME NEW k \in Kinds
        PROVE  Known(u, FirstRequest(k))
    <3>1. key[u][k] = 1 /\ csr[u][k] = FirstRequest(k)
      BY <2>2
    <3>2. FirstRequest(k).kind = k /\ FirstRequest(k).key = 1 /\ FirstRequest(k).gen = 0
      BY <2>3
    <3>3. csr[u][FirstRequest(k).kind] = FirstRequest(k) /\ key[u][FirstRequest(k).kind] = 1
      BY <3>1, <3>2
    <3> QED
      BY ONLY <2>3, <3>2, <3>3 DEF Known
  <2>5. Fresh(u)
    <3>1. \A r \in asked[u] : Known(u, r)
      BY ONLY <2>1, <2>4
    <3>2. \A c \in issued[u] : c.csr \in asked[u]
      BY ONLY <2>1, <2>3
    <3> QED
      BY ONLY <1>1, <2>1, <3>1, <3>2 DEF Fresh
  <2>6. OneEach(u)
    <3>1. \A c, d \in issued[u] : c.csr = d.csr => c = d
      <4>1. ASSUME NEW k \in Kinds, NEW j \in Kinds,
                   FirstCertificate(k).csr = FirstCertificate(j).csr
            PROVE  FirstCertificate(k) = FirstCertificate(j)
        <5>1. k = j
          BY ONLY <2>3, <4>1
        <5> QED
          BY <5>1
      <4> QED
        BY ONLY <2>1, <4>1
    <3>2. \A c \in issued[u] : c.issue >= c.issue
      BY ONLY <2>1, <2>3
    <3> QED
      BY ONLY <2>1, <3>1, <3>2 DEF OneEach
  <2>7. Answered(u)
    <3>1. ASSUME NEW k \in Kinds
          PROVE  /\ csr[u][k] # Nothing /\ csr[u][k] \in asked[u]
                 /\ cert[u][k] # Nothing /\ cert[u][k].csr = csr[u][k]
      <4>1. csr[u][k] = FirstRequest(k) /\ cert[u][k] = FirstCertificate(k)
        BY <2>2
      <4> QED
        BY ONLY <2>1, <2>3, <4>1
    <3> QED
      BY ONLY <3>1 DEF Answered
  <2>8. Used(u)
    <3>1. ASSUME NEW k \in Kinds
          PROVE  files[u][k] # Nothing /\ files[u][k].cert = cert[u][k]
      <4>1. [key |-> 1, cert |-> FirstCertificate(k)] \in Pem
        BY FirstTypes DEF Pem
      <4>2. files[u][k] = [key |-> 1, cert |-> FirstCertificate(k)]
        BY <2>2
      <4>3. files[u][k].cert = FirstCertificate(k)
        BY ONLY <4>2
      <4> QED
        BY <2>2, <4>1, <4>2, <4>3, NothingElse
    <3> QED
      BY <2>1, <3>1 DEF Used, RunsWith
  <2>9. Without(u)
    BY <2>1 DEF Without, Related
  <2> QED
    BY <1>2, <1>3, <2>5, <2>6, <2>7, <2>8, <2>9 DEF UnitInv
<1>5. CASE u \notin s.enabled
  <2>1. /\ tls[u] \in {"absent", "none"} /\ pending[u] \subseteq {"start"}
        /\ asked[u] = {} /\ issued[u] = {} /\ announced[u] = {}
        /\ running[u] = {} /\ started[u]
        /\ \A k \in Kinds : files[u][k] = Nothing /\ cert[u][k] = Nothing
    BY <1>5 DEF PerUnit
  <2>2. Fresh(u) /\ OneEach(u)
    BY <1>1, <2>1 DEF Fresh, OneEach
  <2>3. Answered(u) /\ Used(u) /\ Without(u)
    BY <1>1, <2>1 DEF Answered, Used, Settled, Without, RunsWithout, Clean
  <2> QED
    BY <1>2, <1>3, <2>2, <2>3 DEF UnitInv
<1> QED
  BY <1>4, <1>5

LEMMA NextWakeInv == IInv /\ WakeInv /\ [Next]_vars => WakeInv'
<1> SUFFICES ASSUME IInv, WakeInv, [Next]_vars, NEW w \in Units PROVE UnitInv(w)'
  BY DEF WakeInv
<1>1. TypeOK /\ UnitInv(w)
  BY DEF IInv, WakeInv
<1>2. CASE UNCHANGED vars
  BY <1>1, <1>2, UpgradeAside, AsideKeeps
<1>3. ASSUME NEW u \in Units, Handle(u)
      PROVE  UnitInv(w)'
  <2>1. CASE u # w
    BY <1>1, <1>3, <2>1, HandleAside, AsideKeeps
  <2>2. CASE u = w
    BY <1>1, <1>3, <2>2, JoinedWakes, DeferredCertificateWakes, RelationChangedWakes,
       CertificateExpiringWakes, StartWakes, BrokenWakes, SynchroniseWakes DEF Handle
  <2> QED
    BY <2>1, <2>2
<1>4. ASSUME NEW u \in Units,
             \/ BeginHook(u) \/ BeginOther(u) \/ PodReplaced(u)
             \/ Relate(u) \/ RemoveRelation(u) \/ Issue(u) \/ RelateShard(u)
             \/ BeginUpgrade(u) \/ EndUpgrade(u)
      PROVE  UnitInv(w)'
  <2>1. CASE u # w
    BY <1>1, <1>4, <2>1, OutsideAside, AsideKeeps
  <2>2. CASE u = w
    BY <1>1, <1>4, <2>2, BeginHookWakes, BeginOtherWakes, PendingWakes, RelationWakes, IssueWakes,
       UpgradeAside, AsideKeeps
  <2> QED
    BY <2>1, <2>2
<1> QED
  BY <1>2, <1>3, <1>4 DEF Next

LEMMA WakeInvAlways == Spec => []WakeInv
<1>1. IInv /\ WakeInv /\ [Next]_vars => WakeInv'
  BY NextWakeInv
<1> QED
  BY InitWakeInv, IInvAlways, <1>1, PTL DEF Spec

(* A unit that is not related, or no longer, runs without certificates and *)
(* has no files of them, unless relation-broken waits in its queues, or    *)
(* certificates of its requests had been deferred when relation-broken     *)
(* ran: no other late event, start or synchronisation writes any.          *)
THEOREM DisabledAlwaysToCome == Spec => []DisabledToCome
<1>1. WakeInv => DisabledToCome
  BY DEF WakeInv, UnitInv, Without, DisabledToCome
<1> QED
  BY <1>1, WakeInvAlways, PTL

(* As long as a shard has not told the config-server that it has its       *)
(* secrets, the event whose handler will is to come.                       *)
THEOREM SyncAlwaysToCome == Spec => []SyncToCome
<1>1. IInv /\ WakeInv => SyncToCome
  BY DEF IInv, TypeOK, WakeInv, UnitInv, ToSync, SyncToCome
<1> QED
  BY <1>1, IInvAlways, WakeInvAlways, PTL

(* As long as a related unit does not run with the certificates it asked   *)
(* for last, one of them or what asks for them is to come, or a start;     *)
(* unless mongod did not start with them, which the charm passes over.     *)
THEOREM EnabledAlwaysToCome == Spec => []EnabledToCome
<1>1. WakeInv => EnabledToCome
  <2> SUFFICES ASSUME WakeInv, NEW u \in Units, tls[u] = "related",
                      ~Before(u, "joined"), ~Before(u, "start"),
                      ~\E k \in Kinds : csr[u][k] \in asked[u] /\ OnItsWay(u, csr[u][k])
               PROVE  InPlace(u) \/ Failed(u)
    BY DEF EnabledToCome
  <2>1. \A k \in Kinds : /\ csr[u][k] \in asked[u]
                         /\ cert[u][k] # Nothing /\ cert[u][k].csr = csr[u][k]
    BY DEF WakeInv, UnitInv, Answered, Settled
  <2>2. RunsWith(u)
    BY <2>1 DEF WakeInv, UnitInv, Used, Settled
  <2> QED
    BY <2>1, <2>2 DEF InPlace, Failed, RunsWith
<1> QED
  BY <1>1, WakeInvAlways, PTL
=============================================================================
