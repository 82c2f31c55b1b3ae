---------------------------- MODULE BackupsProofs ----------------------------
(***************************************************************************)
(* Backups, for any units and options and any bounds: when every unit is   *)
(* through with the credentials of the S3 integrator, PBM is configured    *)
(* with the last ones; no resync is forgotten and no agent left behind;    *)
(* the password is not rotated under a backup.                             *)
(***************************************************************************)
EXTENDS Backups, TLAPS

(* A unit has credentials-changed before it.                               *)
Owed(u) == queue[u] \cap Changes # {}

(* Options are set by a handler, from the last credentials or by a unit    *)
(* that will hear of those.                                                *)
InHand ==
  \A u \in Units : left[u] # {} =>
    phase[u] = "set" /\ (related => credentials[u] = offered \/ Owed(u))

(* An option that is not from the last credentials has a unit that will    *)
(* set it.                                                                 *)
Pending ==
  related /\ ~failed =>
    \A o \in Options : config[o] = offered \/ \E u \in Units : Owed(u) \/ o \in left[u]

IInv ==
  /\ TypeOK
  /\ InHand
  /\ Pending

LEMMA InitIInv == Init => IInv
<1> SUFFICES ASSUME Init PROVE IInv
  OBVIOUS
<1>1. TypeOK
  BY UnitsAssumption DEF Init, TypeOK, Unset, Phases, Events
<1>2. InHand /\ Pending
  BY DEF Init, InHand, Pending
<1> QED
  BY <1>1, <1>2 DEF IInv

(* The agents keep their types as one of them stops or comes up.           *)
LEMMA InterruptTyped ==
  ASSUME TypeOK, NEW u \in Units, Interrupt(u)
  PROVE  /\ runs' \in [Units -> Operations \cup {"none", "resync"}]
         /\ synced' \in [Options -> Nat]
BY DEF TypeOK, Interrupt, Unset

LEMMA ComesUpTyped ==
  ASSUME TypeOK, NEW u \in Units, NEW p \in Nat, ComesUp(u, p)
  PROVE  /\ active' \in [Units -> BOOLEAN]
         /\ agent' \in [Units -> Nat] /\ env' \in [Units -> Nat]
         /\ runs' \in [Units -> Operations \cup {"none", "resync"}]
         /\ synced' \in [Options -> Nat]
<1>1. /\ runs' \in [Units -> Operations \cup {"none", "resync"}]
      /\ synced' \in [Options -> Nat]
  BY InterruptTyped DEF ComesUp
<1> QED
  BY <1>1 DEF TypeOK, ComesUp

LEMMA ConfigureTyped ==
  ASSUME TypeOK, NEW u \in Units, NEW p \in Nat, NEW force \in BOOLEAN,
         ConfigureAndRestart(u, p, force)
  PROVE  /\ active' \in [Units -> BOOLEAN]
         /\ agent' \in [Units -> Nat] /\ env' \in [Units -> Nat]
         /\ runs' \in [Units -> Operations \cup {"none", "resync"}]
         /\ synced' \in [Options -> Nat] /\ lost' \in BOOLEAN
<1>1. CASE ~active[u] \/ env[u] # p \/ force
  BY <1>1, ComesUpTyped DEF ConfigureAndRestart, Undone, TypeOK
<1>2. CASE ~(~active[u] \/ env[u] # p \/ force)
  BY <1>2 DEF ConfigureAndRestart, TypeOK, agents
<1> QED
  BY <1>1, <1>2

(* A unit's hook goes on, and events of it are deferred or handled.        *)
LEMMA GoesTyped ==
  ASSUME TypeOK, NEW u \in Units, NEW p \in Phases, Goes(u, p)
  PROVE  phase' \in [Units -> Phases]
BY DEF TypeOK, Goes

LEMMA DefersTyped ==
  ASSUME TypeOK, NEW u \in Units, NEW e, Defers(u, e)
  PROVE  queue' \in [Units -> SUBSET Events]
BY DEF TypeOK, Defers, Events

LEMMA FaultCounted ==
  ASSUME TypeOK, Fault
  PROVE  faults' \in Nat
BY DEF TypeOK, Fault

(* The events of credentials-changed keep the types.                       *)
LEMMA CredentialsTyped ==
  ASSUME TypeOK, NEW u \in Units,
         \/ DeferCredentials(u) \/ BeginCredentials(u) \/ RefuseCredentials(u)
         \/ SetOption(u) \/ GiveUpOptions(u)
  PROVE  TypeOK'
<1> USE DEF relation, handling, pbm, agents, passwords, history
<1>1. CASE DeferCredentials(u)
  BY <1>1, DefersTyped DEF DeferCredentials, TypeOK
<1>2. CASE BeginCredentials(u)
  <2>1. Goes(u, "set") /\ phase' \in [Units -> Phases]
    BY <1>2, GoesTyped DEF BeginCredentials, Phases
  <2>2. /\ active' \in [Units -> BOOLEAN]
        /\ agent' \in [Units -> Nat] /\ env' \in [Units -> Nat]
        /\ runs' \in [Units -> Operations \cup {"none", "resync"}]
        /\ synced' \in [Options -> Nat]
    BY <1>2, ComesUpTyped DEF BeginCredentials, TypeOK
  <2> QED
    BY ZenonT(60), <1>2, <2>1, <2>2 DEF BeginCredentials, TypeOK, Unset, Seen
<1>3. CASE RefuseCredentials(u)
  BY <1>3, FaultCounted DEF RefuseCredentials, TypeOK
<1>4. CASE SetOption(u)
  BY <1>4 DEF SetOption, TypeOK
<1>5. CASE GiveUpOptions(u)
  <2>1. phase' \in [Units -> Phases]
    BY <1>5, GoesTyped DEF GiveUpOptions, Phases
  <2>2. faults' \in Nat
    BY <1>5, FaultCounted DEF GiveUpOptions, TypeOK
  <2> QED
    BY <1>5, <2>1, <2>2 DEF GiveUpOptions, TypeOK
<1> QED
  BY <1>1, <1>2, <1>3, <1>4, <1>5

(* So do the steps that have PBM resync.                                   *)
LEMMA ResyncTyped ==
  ASSUME TypeOK, NEW u \in Units,
         \/ StartAgent(u) \/ FailStart(u) \/ RestartAgent(u) \/ Busy(u) \/ NotBusy(u)
         \/ ForceResync(u) \/ LoseResync(u) \/ EndCredentials(u) \/ SlowResync(u)
  PROVE  TypeOK'
<1> USE DEF relation, handling, pbm, agents, passwords, history
<1>1. CASE StartAgent(u)
  <2>1. phase' \in [Units -> Phases]
    BY <1>1, GoesTyped DEF StartAgent, Phases
  <2>2. /\ active' \in [Units -> BOOLEAN]
        /\ agent' \in [Units -> Nat] /\ env' \in [Units -> Nat]
        /\ runs' \in [Units -> Operations \cup {"none", "resync"}]
        /\ synced' \in [Options -> Nat]
    BY <1>1, ComesUpTyped DEF StartAgent, TypeOK
  <2> QED
    BY <1>1, <2>1, <2>2 DEF StartAgent, TypeOK
<1>2. CASE FailStart(u)
  <2>1. phase' \in [Units -> Phases]
    BY <1>2, GoesTyped DEF FailStart, Phases
  <2> QED
    BY <1>2, <2>1, InterruptTyped, FaultCounted DEF FailStart, TypeOK
<1>3. CASE RestartAgent(u)
  <2>1. (IF start.substrate = "k8s" THEN secret ELSE env[u]) \in Nat
    BY DEF TypeOK
  <2> QED
    BY <1>3, <2>1, ComesUpTyped DEF RestartAgent, Restarts, TypeOK
<1>4. CASE Busy(u)
  <2>1. phase' \in [Units -> Phases] /\ queue' \in [Units -> SUBSET Events]
    BY <1>4, GoesTyped, DefersTyped DEF Busy, Again, Phases
  <2>2. (IF start.substrate = "k8s" THEN secret ELSE env[u]) \in Nat
    BY DEF TypeOK
  <2>3. /\ active' \in [Units -> BOOLEAN]
        /\ agent' \in [Units -> Nat] /\ env' \in [Units -> Nat]
        /\ runs' \in [Units -> Operations \cup {"none", "resync"}]
        /\ synced' \in [Options -> Nat]
    BY <1>4, <2>2, ComesUpTyped DEF Busy, Restarts, TypeOK
  <2> QED
    BY <1>4, <2>1, <2>3 DEF Busy, TypeOK
<1>5. CASE NotBusy(u)
  <2>1. phase' \in [Units -> Phases]
    BY <1>5, GoesTyped DEF NotBusy, Phases
  <2> QED
    BY <1>5, <2>1 DEF NotBusy, TypeOK
<1>6. CASE ForceResync(u)
  <2>1. phase' \in [Units -> Phases]
    BY <1>6, GoesTyped DEF ForceResync, Phases
  <2> QED
    BY <1>6, <2>1 DEF ForceResync, TypeOK
<1>7. CASE LoseResync(u)
  <2>1. phase' \in [Units -> Phases]
    BY <1>7, GoesTyped DEF LoseResync, Phases
  <2> QED
    BY <1>7, <2>1 DEF LoseResync, TypeOK
<1>8. CASE EndCredentials(u)
  <2>1. phase' \in [Units -> Phases]
    BY <1>8, GoesTyped DEF EndCredentials, Phases
  <2> QED
    BY <1>8, <2>1 DEF EndCredentials, TypeOK
<1>9. CASE SlowResync(u)
  <2>1. phase' \in [Units -> Phases] /\ queue' \in [Units -> SUBSET Events]
    BY <1>9, GoesTyped, DefersTyped DEF SlowResync, Again, Phases
  <2> QED
    BY <1>9, <2>1, FaultCounted DEF SlowResync, TypeOK
<1> QED
  BY <1>1, <1>2, <1>3, <1>4, <1>5, <1>6, <1>7, <1>8, <1>9

(* So does what restarts the agents.                                       *)
LEMMA AgentsTyped ==
  ASSUME TypeOK, NEW u \in Units,
         \/ SecretChanged(u) \/ RelationChanged(u) \/ RelationBroken(u)
         \/ EndRotation(u) \/ FailRotation(u) \/ AgentStops(u)
  PROVE  TypeOK'
<1> USE DEF relation, handling, pbm, agents, passwords, history
<1>1. CASE SecretChanged(u) \/ RelationChanged(u)
  <2>1. ConfigureAndRestart(u, secret, FALSE) /\ secret \in Nat
    BY <1>1 DEF SecretChanged, RelationChanged, TypeOK
  <2>2. queue' \in [Units -> SUBSET Events]
    BY <1>1 DEF SecretChanged, RelationChanged, TypeOK
  <2> QED
    BY <1>1, <2>1, <2>2, ConfigureTyped DEF SecretChanged, RelationChanged, TypeOK
<1>2. CASE RelationBroken(u)
  <2>1. ConfigureAndRestart(u, secret, TRUE) /\ secret \in Nat
    BY <1>2 DEF RelationBroken, TypeOK
  <2>2. queue' \in [Units -> SUBSET Events]
    BY <1>2 DEF RelationBroken, TypeOK
  <2> QED
    BY <1>2, <2>1, <2>2, ConfigureTyped DEF RelationBroken, TypeOK
<1>3. CASE EndRotation(u)
  <2>1. ConfigureAndRestart(u, db, FALSE) /\ db \in Nat
    BY <1>3 DEF EndRotation, TypeOK
  <2>2. queue' \in [Units -> SUBSET Events]
    BY <1>3 DEF EndRotation, TypeOK, Events
  <2>3. phase' \in [Units -> Phases]
    BY <1>3, GoesTyped DEF EndRotation, Phases
  <2> QED
    BY <1>3, <2>1, <2>2, <2>3, ConfigureTyped DEF EndRotation, TypeOK
<1>4. CASE FailRotation(u)
  <2>1. phase' \in [Units -> Phases]
    BY <1>4, GoesTyped DEF FailRotation, Phases
  <2> QED
    BY <1>4, <2>1, InterruptTyped, FaultCounted DEF FailRotation, Undone, TypeOK
<1>5. CASE AgentStops(u)
  BY <1>5, InterruptTyped, FaultCounted DEF AgentStops, Undone, TypeOK
<1> QED
  BY <1>1, <1>2, <1>3, <1>4, <1>5

(* So do the leader's actions.                                             *)
LEMMA ActionsTyped ==
  ASSUME TypeOK, NEW u \in Units,
         \/ StartOperation(u) \/ FailOperation(u) \/ CheckPassword(u) \/ Rotate(u)
         \/ Crash(u) \/ \E op \in Operations : CheckOperation(u, op)
  PROVE  TypeOK'
<1> USE DEF relation, handling, pbm, agents, passwords, history
<1>1. CASE StartOperation(u)
  <2>1. phase' \in [Units -> Phases]
    BY <1>1, GoesTyped DEF StartOperation, Phases
  <2> QED
    BY <1>1, <2>1 DEF StartOperation, TypeOK
<1>2. CASE FailOperation(u)
  <2>1. phase' \in [Units -> Phases]
    BY <1>2, GoesTyped DEF FailOperation, Phases
  <2> QED
    BY <1>2, <2>1 DEF FailOperation, TypeOK
<1>3. CASE CheckPassword(u)
  <2>1. phase' \in [Units -> Phases]
    BY <1>3, GoesTyped DEF CheckPassword, Phases
  <2> QED
    BY <1>3, <2>1 DEF CheckPassword, Action, TypeOK
<1>4. CASE Rotate(u)
  <2>1. phase' \in [Units -> Phases]
    BY <1>4, GoesTyped DEF Rotate, Phases
  <2> QED
    BY <1>4, <2>1 DEF Rotate, TypeOK
<1>5. CASE Crash(u)
  <2>1. phase' \in [Units -> Phases]
    BY <1>5, GoesTyped DEF Crash, Phases
  <2>2. queue' \in [Units -> SUBSET Events]
    BY <1>5 DEF Crash, TypeOK, Events
  <2> QED
    BY <1>5, <2>1, <2>2, FaultCounted DEF Crash, TypeOK
<1>6. ASSUME NEW op \in Operations, CheckOperation(u, op)
      PROVE  TypeOK'
  <2>1. phase' \in [Units -> Phases]
    BY <1>6, GoesTyped DEF CheckOperation, Phases
  <2>2. uri' \in [Units -> Nat] /\ actions' \in Nat
    BY <1>6 DEF CheckOperation, Action, TypeOK
  <2>3. UNCHANGED <<relation, queue, credentials, left, pbm, agents, passwords, leader,
                    upgrading, faults, history>>
    BY <1>6 DEF CheckOperation
  <2> QED
    BY <2>1, <2>2, <2>3 DEF TypeOK
<1> QED
  BY <1>1, <1>2, <1>3, <1>4, <1>5, <1>6

(* The environment, and the initial predicate's part of it, keep the types.*)
LEMMA NextTyped ==
  ASSUME TypeOK, [Next]_vars
  PROVE  TypeOK'
<1> USE DEF relation, handling, pbm, agents, passwords, history
<1>1. CASE Offer
  <2>1. queue' \in [Units -> SUBSET Events]
    BY <1>1 DEF Offer, TypeOK, Events
  <2>2. offered' \in Nat /\ related' = TRUE /\ failed' = FALSE /\ lost' = FALSE
    BY <1>1 DEF Offer, TypeOK
  <2>3. UNCHANGED <<start, handling, pbm, agents, passwords, leader, upgrading, actions,
                    faults>>
    BY <1>1 DEF Offer
  <2> QED
    BY <2>1, <2>2, <2>3 DEF TypeOK
<1>2. CASE RemoveRelation
  BY <1>2, FaultCounted DEF RemoveRelation, TypeOK, Events
<1>3. CASE EndOperation
  BY <1>3 DEF EndOperation, TypeOK
<1>4. CASE BeginUpgrade
  BY <1>4, FaultCounted DEF BeginUpgrade, TypeOK
<1>5. CASE EndUpgrade
  BY <1>5 DEF EndUpgrade, TypeOK
<1>6. ASSUME NEW u \in Units, Hook(u) \/ Goon(u) \/ RelationChanged(u) \/ UpdateStatus(u)
      PROVE  TypeOK'
  BY <1>6, CredentialsTyped, ResyncTyped, AgentsTyped, ActionsTyped
     DEF Hook, Goon, UpdateStatus
<1>7. ASSUME NEW u \in Units,
             \/ CheckPassword(u) \/ \E op \in Operations : CheckOperation(u, op)
             \/ Crash(u) \/ AgentStops(u)
      PROVE  TypeOK'
  BY <1>7, AgentsTyped, ActionsTyped
<1>8. ASSUME NEW u \in Units, Elect(u)
      PROVE  TypeOK'
  BY <1>8, FaultCounted DEF Elect, TypeOK
<1>9. CASE UNCHANGED vars
  BY <1>9 DEF vars, TypeOK
<1> QED
  BY <1>1, <1>2, <1>3, <1>4, <1>5, <1>6, <1>7, <1>8, <1>9 DEF Next

(* A step that leaves the configuration alone, forgets no event of         *)
(* credentials-changed and goes on with the options it was setting.        *)
Aside ==
  /\ UNCHANGED <<related, offered, config, credentials, left>>
  /\ failed => failed'
  /\ \A u \in Units : Owed(u) => Owed(u)'
  /\ \A u \in Units : left[u] # {} => phase'[u] = phase[u]

LEMMA AsideKeeps ==
  ASSUME TypeOK, InHand, Pending, failed' \in BOOLEAN, Aside
  PROVE  InHand' /\ Pending'
<1>1. InHand'
  BY DEF Aside, InHand
<1>2. Pending'
  <2> SUFFICES ASSUME related, ~failed, NEW o \in Options, config[o] # offered
               PROVE  \E u \in Units : Owed(u)' \/ o \in left[u]
    BY DEF Aside, Pending, TypeOK
  <2> QED
    BY DEF Aside, Pending
<1> QED
  BY <1>1, <1>2

(* Options are cleared by a unit that will set them again, and set to what *)
(* it will not have to correct.                                            *)
LEMMA CredentialsKeep ==
  ASSUME IInv, NEW u \in Units,
         \/ DeferCredentials(u) \/ BeginCredentials(u) \/ RefuseCredentials(u)
         \/ SetOption(u) \/ GiveUpOptions(u)
  PROVE  InHand' /\ Pending'
<1> USE DEF relation, handling, pbm, agents, passwords, history
<1>1. CASE DeferCredentials(u)
  <2>1. Aside
    BY <1>1 DEF IInv, TypeOK, DeferCredentials, Defers, Aside, Owed, Changes
  <2> QED
    BY <1>1, <2>1, AsideKeeps DEF IInv, TypeOK, DeferCredentials
<1>2. CASE BeginCredentials(u)
  <2>1. /\ \A w \in Units \ {u} : /\ left'[w] = left[w] /\ phase'[w] = phase[w]
                                 /\ credentials'[w] = credentials[w] /\ Owed(w)' = Owed(w)
        /\ phase'[u] = "set" /\ UNCHANGED <<related, offered, failed>>
        /\ related => credentials'[u] = offered /\ left'[u] = Options
    BY <1>2 DEF IInv, TypeOK, BeginCredentials, Goes, Seen, Owed
  <2>2. InHand'
    BY <2>1 DEF IInv, InHand
  <2>3. Pending'
    BY <2>1 DEF Pending
  <2> QED
    BY <2>2, <2>3
<1>3. CASE RefuseCredentials(u)
  <2>1. Pending'
    BY <1>3 DEF RefuseCredentials, Pending
  <2>2. InHand'
    <3>1. left[u] = {}
      BY <1>3 DEF IInv, InHand, RefuseCredentials, Idle
    <3>2. \A w \in Units \ {u} : Owed(w)' = Owed(w)
      BY <1>3 DEF IInv, TypeOK, RefuseCredentials, Owed
    <3> QED
      BY <1>3, <3>1, <3>2 DEF IInv, InHand, RefuseCredentials
  <2> QED
    BY <2>1, <2>2
<1>4. CASE SetOption(u)
  <2>1. PICK o \in left[u] : /\ config' = [config EXCEPT ![o] = credentials[u]]
                             /\ left' = [left EXCEPT ![u] = @ \ {o}]
    BY <1>4 DEF SetOption
  <2>2. /\ UNCHANGED <<related, offered, failed, phase, credentials>>
        /\ \A w \in Units : Owed(w)' = Owed(w)
    BY <1>4 DEF SetOption, Owed
  <2>3. InHand'
    BY <2>1, <2>2 DEF IInv, TypeOK, InHand
  <2>4. ASSUME related, ~failed, NEW p \in Options, config'[p] # offered
        PROVE  \E w \in Units : Owed(w) \/ p \in left'[w]
    <3>1. CASE p = o
      <4>1. config'[p] = credentials[u]
        BY <2>1, <3>1 DEF IInv, TypeOK
      <4> QED
        BY <2>4, <4>1, <2>1 DEF IInv, InHand
    <3>2. CASE p # o
      <4>1. config[p] # offered
        BY <2>1, <2>4, <3>2 DEF IInv, TypeOK
      <4>2. PICK w \in Units : Owed(w) \/ p \in left[w]
        BY <2>4, <4>1 DEF IInv, Pending
      <4> QED
        BY <2>1, <3>2, <4>2 DEF IInv, TypeOK
    <3> QED
      BY <3>1, <3>2
  <2>5. Pending'
    BY <2>2, <2>4 DEF Pending
  <2> QED
    BY <2>3, <2>5
<1>5. CASE GiveUpOptions(u)
  <2>1. Pending'
    BY <1>5 DEF GiveUpOptions, Pending
  <2>2. InHand'
    BY <1>5 DEF IInv, TypeOK, InHand, GiveUpOptions, Goes, Owed
  <2> QED
    BY <2>1, <2>2
<1> QED
  BY <1>1, <1>2, <1>3, <1>4, <1>5

(* A unit that waits for PBM has set all options; when it begins anew it   *)
(* keeps the event.                                                        *)
LEMMA ResyncAside ==
  ASSUME IInv, NEW u \in Units,
         \/ StartAgent(u) \/ FailStart(u) \/ RestartAgent(u) \/ Busy(u) \/ NotBusy(u)
         \/ ForceResync(u) \/ LoseResync(u) \/ EndCredentials(u) \/ SlowResync(u)
  PROVE  Aside
<1> USE DEF relation, handling, pbm, agents, passwords, history
<1>1. CASE StartAgent(u) \/ FailStart(u)
  BY <1>1 DEF IInv, TypeOK, StartAgent, FailStart, Goes, Aside, Owed
<1>2. CASE RestartAgent(u)
  BY <1>2 DEF RestartAgent, Aside, Owed
<1>3. CASE Busy(u) \/ SlowResync(u)
  <2>1. left[u] = {} /\ Goes(u, "idle") /\ Defers(u, "changed")
    BY <1>3 DEF IInv, InHand, Busy, SlowResync, Again
  <2>2. \A w \in Units : Owed(w) => Owed(w)'
    BY <2>1 DEF IInv, TypeOK, Defers, Owed, Changes
  <2> QED
    BY <1>3, <2>1, <2>2 DEF IInv, TypeOK, Busy, SlowResync, Goes, Aside
<1>4. CASE NotBusy(u) \/ ForceResync(u) \/ LoseResync(u) \/ EndCredentials(u)
  <2>1. left[u] = {} /\ \E p \in Phases : Goes(u, p)
    BY <1>4 DEF IInv, InHand, NotBusy, ForceResync, LoseResync, EndCredentials, Phases
  <2> QED
    BY <1>4, <2>1
       DEF IInv, TypeOK, NotBusy, ForceResync, LoseResync, EndCredentials, Goes, Aside, Owed
<1> QED
  BY <1>1, <1>2, <1>3, <1>4

(* What restarts the agents leaves the credentials alone.                  *)
LEMMA AgentsAside ==
  ASSUME IInv, NEW u \in Units,
         \/ SecretChanged(u) \/ RelationChanged(u) \/ RelationBroken(u)
         \/ EndRotation(u) \/ FailRotation(u) \/ AgentStops(u)
  PROVE  Aside
<1> USE DEF relation, handling, pbm, agents, passwords, history
<1>1. CASE SecretChanged(u) \/ RelationBroken(u)
  <2>1. \A w \in Units : Owed(w) => Owed(w)'
    BY <1>1 DEF IInv, TypeOK, SecretChanged, RelationBroken, Owed, Changes
  <2>2. UNCHANGED <<relation, handling, config, failed>>
    BY <1>1 DEF SecretChanged, RelationBroken
  <2> QED
    BY <2>1, <2>2 DEF Aside
<1>2. CASE RelationChanged(u) \/ AgentStops(u)
  <2>1. UNCHANGED <<relation, queue, handling, config, failed>>
    BY <1>2 DEF RelationChanged, AgentStops
  <2> QED
    BY <2>1 DEF Aside, Owed
<1>3. CASE EndRotation(u)
  <2>1. \A w \in Units : Owed(w) => Owed(w)'
    BY <1>3 DEF IInv, TypeOK, EndRotation, Owed, Changes
  <2>2. left[u] = {}
    BY <1>3 DEF IInv, InHand, EndRotation
  <2> QED
    BY <1>3, <2>1, <2>2 DEF IInv, TypeOK, EndRotation, Goes, Aside
<1>4. CASE FailRotation(u)
  <2>1. left[u] = {}
    BY <1>4 DEF IInv, InHand, FailRotation
  <2> QED
    BY <1>4, <2>1 DEF IInv, TypeOK, FailRotation, Goes, Aside, Owed
<1> QED
  BY <1>1, <1>2, <1>3, <1>4

(* So do the leader's actions.                                             *)
LEMMA ActionsAside ==
  ASSUME IInv, NEW u \in Units,
         \/ StartOperation(u) \/ FailOperation(u) \/ CheckPassword(u) \/ Rotate(u)
         \/ \E op \in Operations : CheckOperation(u, op)
  PROVE  Aside
<1> USE DEF relation, handling, pbm, agents, passwords, history
<1>1. left[u] = {} /\ \E p \in Phases : Goes(u, p)
  BY DEF IInv, InHand, StartOperation, FailOperation, CheckPassword, Rotate, CheckOperation,
         Action, Idle, Phases, Operations
<1>2. UNCHANGED <<relation, queue, credentials, left, config, failed>>
  BY DEF StartOperation, FailOperation, CheckPassword, Rotate, CheckOperation
<1> QED
  BY <1>1, <1>2 DEF IInv, TypeOK, Goes, Aside, Owed

(* A hook that died has its event again.                                   *)
LEMMA CrashKeeps ==
  ASSUME IInv, NEW u \in Units, Crash(u)
  PROVE  InHand' /\ Pending'
<1> USE DEF relation, handling, pbm, agents, passwords, history
<1>1. /\ \A w \in Units \ {u} : /\ left'[w] = left[w] /\ phase'[w] = phase[w]
                               /\ Owed(w)' = Owed(w)
      /\ left'[u] = {}
      /\ UNCHANGED <<related, offered, failed, config, credentials>>
  BY DEF IInv, TypeOK, Crash, Goes, Owed
<1>2. left[u] # {} => Owed(u)'
  BY DEF IInv, InHand, TypeOK, Crash, Owed, Changes
<1>3. Owed(u) => Owed(u)'
  BY DEF IInv, TypeOK, Crash, Owed
<1>4. InHand'
  BY <1>1 DEF IInv, InHand
<1>5. Pending'
  BY <1>1, <1>2, <1>3 DEF IInv, Pending
<1> QED
  BY <1>4, <1>5

LEMMA NextIInv == IInv /\ [Next]_vars => IInv'
<1> SUFFICES ASSUME IInv, [Next]_vars PROVE IInv'
  OBVIOUS
<1> USE DEF relation, handling, pbm, agents, passwords, history
<1>0. TypeOK /\ TypeOK'
  BY NextTyped DEF IInv
<1>1. CASE Offer
  <2>1. \A u \in Units : Owed(u)' /\ left'[u] = left[u] /\ phase'[u] = phase[u]
    BY <1>1 DEF Offer, Owed, Changes
  <2>2. InHand'
    BY <1>0, <2>1 DEF IInv, InHand
  <2>3. Pending'
    BY <2>1, UnitsAssumption DEF Pending
  <2> QED
    BY <1>0, <2>2, <2>3 DEF IInv
<1>2. CASE RemoveRelation
  <2>1. Pending' /\ InHand'
    BY <1>2 DEF IInv, RemoveRelation, Pending, InHand
  <2> QED
    BY <1>0, <2>1 DEF IInv
<1>3. CASE EndOperation \/ BeginUpgrade \/ EndUpgrade \/ UNCHANGED vars
  <2>1. Aside
    BY <1>3 DEF EndOperation, BeginUpgrade, EndUpgrade, vars, Aside, Owed
  <2> QED
    BY <1>0, <2>1, AsideKeeps DEF IInv, TypeOK
<1>4. ASSUME NEW u \in Units, Hook(u) \/ Goon(u) \/ RelationChanged(u) \/ UpdateStatus(u)
      PROVE  IInv'
  <2>1. Aside \/ (InHand' /\ Pending')
    BY <1>4, CredentialsKeep, ResyncAside, AgentsAside, ActionsAside
       DEF Hook, Goon, UpdateStatus
  <2> QED
    BY <1>0, <2>1, AsideKeeps DEF IInv, TypeOK
<1>5. ASSUME NEW u \in Units,
             \/ CheckPassword(u) \/ \E op \in Operations : CheckOperation(u, op)
             \/ Crash(u) \/ AgentStops(u)
      PROVE  IInv'
  <2>1. Aside \/ (InHand' /\ Pending')
    BY <1>5, CrashKeeps, AgentsAside, ActionsAside
  <2> QED
    BY <1>0, <2>1, AsideKeeps DEF IInv, TypeOK
<1>6. ASSUME NEW u \in Units, Elect(u)
      PROVE  IInv'
  <2>1. Aside
    BY <1>6 DEF Elect, Aside, Owed
  <2> QED
    BY <1>0, <2>1, AsideKeeps DEF IInv, TypeOK
<1> QED
  BY <1>1, <1>2, <1>3, <1>4, <1>5, <1>6 DEF Next

LEMMA Inductive == Spec => []IInv
BY InitIInv, NextIInv, PTL DEF Spec

(* Every variable keeps to its type: nothing a handler, an action or PBM   *)
(* does takes the state out of those.                                      *)
THEOREM TypeCorrect == Spec => []TypeOK
<1>1. IInv => TypeOK
  BY DEF IInv
<1> QED
  BY <1>1, Inductive, PTL

(* The last credentials offered are PBM's configuration as soon as every   *)
(* unit is through with them, unless one gave up setting its options: the  *)
(* units clear and set them (set_config_options) in any order.             *)
THEOREM ConfigWholeAlways == Spec => []WholeConfig
<1>1. IInv => WholeConfig
  <2> SUFFICES ASSUME IInv, related, ~failed,
                      \A u \in Units : queue[u] \cap Changes = {} /\ left[u] = {}
               PROVE  config = Whole
    BY DEF WholeConfig
  <2>1. \A o \in Options : config[o] = offered
    BY DEF IInv, Pending, Owed
  <2> QED
    BY <2>1 DEF IInv, TypeOK, Whole
<1> QED
  BY <1>1, Inductive, PTL

-----------------------------------------------------------------------------
(* As long as there was no fault and a single offer, get_status can tell   *)
(* that PBM backs up or restores, and the one leader's actions exclude     *)
(* each other.                                                             *)
Calm == faults = 0 /\ offered <= 1

Acting == {"rotate", "restart"} \cup Operations

OneActs == \A u \in Units : phase[u] \in Acting => u = leader

NoneRunsAsOneRotates ==
  \A u \in Units : phase[u] \in {"rotate", "restart"} => ~Running(Operations)

ApartAsOneRotates == secret # db => phase[leader] = "restart"

NoneRunsUnrelated ==
  ~related => ~Running(Operations) /\ \A u \in Units : phase[u] \notin Operations

FromTheOffer ==
  /\ \A o \in Options : config[o] <= offered
  /\ \A u \in Units : credentials[u] <= offered

CInv ==
  Calm => /\ \A u \in Units : active[u]
          /\ OneActs
          /\ NoneRunsAsOneRotates
          /\ ApartAsOneRotates
          /\ NoneRunsUnrelated
          /\ FromTheOffer

LEMMA InitCInv == Init => CInv
BY UnitsAssumption
   DEF Init, CInv, Calm, OneActs, Acting, Operations, NoneRunsAsOneRotates, ApartAsOneRotates,
       NoneRunsUnrelated, Running, FromTheOffer, Unset

LEMMA CalmBefore ==
  ASSUME TypeOK, [Next]_vars, Calm'
  PROVE  Calm /\ faults' = faults /\ leader' = leader
<1> USE DEF relation, handling, pbm, agents, passwords, history
<1>1. ASSUME Fault PROVE FALSE
  BY <1>1 DEF Fault, Calm, TypeOK
<1>2. CASE Offer
  BY <1>2 DEF Offer, Calm, TypeOK
<1>3. CASE EndOperation \/ EndUpgrade \/ UNCHANGED vars
  BY <1>3 DEF EndOperation, EndUpgrade, vars, Calm
<1>4. CASE RemoveRelation \/ BeginUpgrade \/ \E u \in Units : Crash(u) \/ AgentStops(u) \/ Elect(u)
  BY <1>1, <1>4 DEF RemoveRelation, BeginUpgrade, Crash, AgentStops, Elect
<1>5. ASSUME NEW u \in Units, Hook(u)
      PROVE  UNCHANGED <<offered, faults, leader>>
  BY <1>1, <1>5 DEF Hook, DeferCredentials, BeginCredentials, RefuseCredentials, SecretChanged,
                    RelationBroken
<1>6. ASSUME NEW u \in Units, Goon(u)
      PROVE  UNCHANGED <<offered, faults, leader>>
  BY <1>1, <1>6 DEF Goon, SetOption, GiveUpOptions, StartAgent, FailStart, RestartAgent, Busy,
                    NotBusy, ForceResync, LoseResync, EndCredentials, SlowResync,
                    StartOperation, FailOperation, Rotate, EndRotation, FailRotation
<1>7. ASSUME NEW u \in Units,
             \/ RelationChanged(u) \/ UpdateStatus(u)
             \/ CheckPassword(u) \/ \E op \in Operations : CheckOperation(u, op)
      PROVE  UNCHANGED <<offered, faults, leader>>
  BY <1>7 DEF RelationChanged, UpdateStatus, CheckPassword, CheckOperation
<1> QED
  BY <1>2, <1>3, <1>4, <1>5, <1>6, <1>7 DEF Next, Calm

(* A step of a hook: it begins no action, starts no operation and leaves   *)
(* passwords and the relation alone.                                       *)
Quiet ==
  /\ \A u \in Units : active[u] => active'[u]
  /\ \A u \in Units : phase'[u] \in Acting => phase'[u] = phase[u]
  /\ \A u \in Units : phase[u] = "restart" => phase'[u] = "restart"
  /\ \A u \in Units : runs'[u] \in Operations => runs[u] \in Operations
  /\ UNCHANGED <<secret, db, related, offered, leader>>
  /\ FromTheOffer => FromTheOffer'

LEMMA QuietKeeps ==
  ASSUME TypeOK, CInv, Quiet, Calm' => Calm
  PROVE  CInv'
<1> SUFFICES ASSUME Calm' PROVE CInv'
  BY DEF CInv
<1>1. /\ \A u \in Units : active[u]
      /\ OneActs /\ NoneRunsAsOneRotates /\ ApartAsOneRotates /\ NoneRunsUnrelated
      /\ FromTheOffer
  BY DEF CInv
<1>2. Running(Operations)' => Running(Operations)
  BY DEF Quiet, Running
<1>3. OneActs' /\ NoneRunsAsOneRotates'
  BY <1>1, <1>2 DEF Quiet, OneActs, NoneRunsAsOneRotates, Acting
<1>4. ApartAsOneRotates'
  BY <1>1 DEF Quiet, ApartAsOneRotates, TypeOK
<1>5. NoneRunsUnrelated'
  BY <1>1, <1>2 DEF Quiet, NoneRunsUnrelated, Acting
<1> QED
  BY <1>1, <1>3, <1>4, <1>5 DEF Quiet, CInv

(* An agent that comes up, or is left alone, starts nothing.               *)
LEMMA ComesUpQuietly ==
  ASSUME TypeOK, NEW u \in Units, NEW p, ComesUp(u, p)
  PROVE  /\ \A w \in Units : active[w] => active'[w]
         /\ \A w \in Units : runs'[w] \in Operations => runs[w] \in Operations
BY DEF TypeOK, ComesUp, Interrupt, Operations

LEMMA ConfigureQuietly ==
  ASSUME TypeOK, NEW u \in Units, NEW p, NEW force, ConfigureAndRestart(u, p, force)
  PROVE  /\ \A w \in Units : active[w] => active'[w]
         /\ \A w \in Units : runs'[w] \in Operations => runs[w] \in Operations
BY ComesUpQuietly DEF ConfigureAndRestart, agents

LEMMA HookQuiet ==
  ASSUME TypeOK, NEW u \in Units, Hook(u) \/ RelationChanged(u) \/ UpdateStatus(u)
  PROVE  Quiet
<1> USE DEF relation, handling, pbm, agents, passwords, history
<1>1. CASE DeferCredentials(u) \/ RefuseCredentials(u)
  BY <1>1 DEF DeferCredentials, RefuseCredentials, Quiet, FromTheOffer
<1>2. CASE BeginCredentials(u)
  <2>1. /\ \A w \in Units : active[w] => active'[w]
        /\ \A w \in Units : runs'[w] \in Operations => runs[w] \in Operations
    BY <1>2, ComesUpQuietly DEF BeginCredentials
  <2>2. /\ \A w \in Units : phase'[w] \in Acting => phase'[w] = phase[w]
        /\ \A w \in Units : phase[w] = "restart" => phase'[w] = "restart"
    BY <1>2 DEF TypeOK, BeginCredentials, Goes, Idle, Acting, Operations
  <2>3. FromTheOffer => FromTheOffer'
    BY <1>2 DEF TypeOK, BeginCredentials, FromTheOffer, Seen, Unset
  <2> QED
    BY <1>2, <2>1, <2>2, <2>3 DEF BeginCredentials, Quiet
<1>3. CASE SecretChanged(u) \/ RelationChanged(u) \/ UpdateStatus(u) \/ RelationBroken(u)
  <2>1. UNCHANGED <<relation, handling, config, passwords, leader>>
    BY <1>3 DEF SecretChanged, RelationChanged, UpdateStatus, RelationBroken
  <2>2. \E force \in BOOLEAN : ConfigureAndRestart(u, secret, force)
    BY <1>3 DEF SecretChanged, RelationChanged, UpdateStatus, RelationBroken
  <2> QED
    BY <2>1, <2>2, ConfigureQuietly DEF Quiet, FromTheOffer
<1> QED
  BY <1>1, <1>2, <1>3 DEF Hook

LEMMA GoonQuiet ==
  ASSUME TypeOK, NEW u \in Units, Goon(u), ~Fault,
         ~StartOperation(u), ~Rotate(u), ~EndRotation(u)
  PROVE  Quiet
<1> USE DEF relation, handling, pbm, agents, passwords, history
<1>1. CASE SetOption(u)
  <2>1. FromTheOffer => FromTheOffer'
    BY <1>1 DEF TypeOK, SetOption, FromTheOffer
  <2> QED
    BY <1>1, <2>1 DEF SetOption, Quiet
<1>2. CASE StartAgent(u)
  <2>1. /\ \A w \in Units : active[w] => active'[w]
        /\ \A w \in Units : runs'[w] \in Operations => runs[w] \in Operations
    BY <1>2, ComesUpQuietly DEF StartAgent
  <2> QED
    BY <1>2, <2>1 DEF TypeOK, StartAgent, Goes, Acting, Operations, Quiet, FromTheOffer
<1>3. CASE RestartAgent(u) \/ Busy(u)
  <2>1. /\ \A w \in Units : active[w] => active'[w]
        /\ \A w \in Units : runs'[w] \in Operations => runs[w] \in Operations
    BY <1>3, ComesUpQuietly DEF RestartAgent, Busy, Restarts
  <2>2. UNCHANGED phase \/ (phase[u] = "poll" /\ Goes(u, "idle"))
    BY <1>3 DEF RestartAgent, Busy
  <2>3. UNCHANGED <<relation, credentials, config, passwords, leader>>
    BY <1>3 DEF RestartAgent, Busy
  <2> QED
    BY <2>1, <2>2, <2>3 DEF TypeOK, Goes, Acting, Operations, Quiet, FromTheOffer
<1>4. CASE GiveUpOptions(u) \/ NotBusy(u) \/ LoseResync(u) \/ EndCredentials(u)
           \/ FailOperation(u)
  <2>1. /\ phase[u] # "restart"
        /\ \E p \in Phases \ Acting : Goes(u, p)
    BY <1>4 DEF GiveUpOptions, NotBusy, LoseResync, EndCredentials, FailOperation,
                Phases, Acting, Operations
  <2>2. UNCHANGED <<relation, credentials, pbm, agents, passwords, leader>>
    BY <1>4 DEF GiveUpOptions, NotBusy, LoseResync, EndCredentials, FailOperation
  <2> QED
    BY <2>1, <2>2 DEF TypeOK, Goes, Quiet, FromTheOffer
<1>5. CASE ForceResync(u)
  <2>1. \A w \in Units : runs'[w] \in Operations => runs[w] \in Operations
    BY <1>5 DEF TypeOK, ForceResync, Operations
  <2> QED
    BY <1>5, <2>1 DEF TypeOK, ForceResync, Goes, Acting, Operations, Quiet, FromTheOffer
<1>6. ~FailStart(u) /\ ~SlowResync(u) /\ ~FailRotation(u)
  BY DEF FailStart, SlowResync, FailRotation
<1> QED
  BY <1>1, <1>2, <1>3, <1>4, <1>5, <1>6 DEF Goon

(* The leader's actions.  A backup begins when nobody rotates, a rotation  *)
(* when get_status says that nothing runs.                                 *)
LEMMA CheckPasswordKeeps ==
  ASSUME TypeOK, CInv, NEW u \in Units, CheckPassword(u), Calm, leader' = leader
  PROVE  CInv'
<1> USE DEF relation, handling, pbm, agents, passwords, history
<1>1. /\ \A w \in Units : active[w]
      /\ OneActs /\ NoneRunsAsOneRotates /\ ApartAsOneRotates /\ NoneRunsUnrelated
      /\ FromTheOffer
  BY DEF CInv
<1>2. u = leader /\ phase[u] = "idle" /\ phase' = [phase EXCEPT ![u] = "rotate"]
  BY DEF CheckPassword, Action, Idle, Goes
<1>3. secret = db
  BY <1>1, <1>2 DEF ApartAsOneRotates
<1>4. ~Running(Operations)
  <2>1. CASE ~related
    BY <1>1, <2>1 DEF NoneRunsUnrelated
  <2>2. CASE related
    <3>1. ~Mixed
      <4> SUFFICES ASSUME NEW o \in Options, NEW p \in Options,
                          config[o] # 0, config[p] # 0, config[o] # config[p]
                   PROVE  FALSE
        BY DEF Mixed
      <4>1. config[o] = 1 /\ config[p] = 1
        <5>1. config[o] \in Nat /\ config[p] \in Nat /\ offered \in Nat
          BY DEF TypeOK
        <5>2. config[o] <= offered /\ config[p] <= offered /\ offered <= 1
          BY <1>1 DEF FromTheOffer, Calm
        <5> QED
          BY <5>1, <5>2
      <4> QED
        BY <4>1
    <3>2. Running(Operations) => Statuses(u, secret) = {"maintenance"}
      BY <1>1, <1>3, <2>2, <3>1 DEF Statuses
    <3> QED
      BY <3>2 DEF CheckPassword, MayRotate
  <2> QED
    BY <2>1, <2>2
<1>5. UNCHANGED <<relation, credentials, pbm, agents, passwords>>
  BY DEF CheckPassword
<1>6. \A w \in Units : w # u => phase'[w] = phase[w]
  BY <1>2 DEF TypeOK
<1>7. phase'[u] = "rotate"
  BY <1>2 DEF TypeOK
<1>8. OneActs' /\ NoneRunsAsOneRotates' /\ ApartAsOneRotates' /\ NoneRunsUnrelated'
  BY <1>1, <1>2, <1>3, <1>4, <1>5, <1>6, <1>7
     DEF OneActs, Acting, NoneRunsAsOneRotates, ApartAsOneRotates, NoneRunsUnrelated, Running,
         Operations
<1> QED
  BY <1>1, <1>5, <1>8 DEF CInv, FromTheOffer

LEMMA OperationKeeps ==
  ASSUME TypeOK, CInv, NEW u \in Units, Calm, leader' = leader,
         StartOperation(u) \/ \E op \in Operations : CheckOperation(u, op)
  PROVE  CInv'
<1> USE DEF relation, handling, pbm, agents, passwords, history
<1>1. /\ \A w \in Units : active[w]
      /\ OneActs /\ NoneRunsAsOneRotates /\ ApartAsOneRotates /\ NoneRunsUnrelated
      /\ FromTheOffer
  BY DEF CInv
<1>2. CASE StartOperation(u)
  <2>1. phase[u] \in Operations /\ u = leader /\ related
    BY <1>1, <1>2 DEF StartOperation, OneActs, Acting, NoneRunsUnrelated
  <2>2. /\ phase' = [phase EXCEPT ![u] = "idle"]
        /\ UNCHANGED <<relation, credentials, config, agents, passwords>>
    BY <1>2 DEF StartOperation, Goes
  <2>3. \A w \in Units : phase'[w] \notin Acting
    BY <1>1, <2>1, <2>2 DEF TypeOK, OneActs, Acting, Operations
  <2>4. OneActs' /\ NoneRunsAsOneRotates' /\ NoneRunsUnrelated'
    BY <2>1, <2>2, <2>3 DEF OneActs, Acting, NoneRunsAsOneRotates, NoneRunsUnrelated
  <2>5. ApartAsOneRotates'
    BY <1>1, <2>1, <2>2 DEF ApartAsOneRotates, Operations
  <2> QED
    BY <1>1, <2>2, <2>4, <2>5 DEF CInv, FromTheOffer
<1>3. ASSUME NEW op \in Operations, CheckOperation(u, op)
      PROVE  CInv'
  <2>1. /\ phase' = [phase EXCEPT ![u] = op] /\ u = leader /\ phase[u] = "idle" /\ related
        /\ UNCHANGED <<relation, credentials, pbm, agents, passwords>>
    BY <1>3 DEF CheckOperation, Action, Idle, Goes
  <2>2. \A w \in Units : w # u => phase'[w] = phase[w]
    BY <2>1 DEF TypeOK
  <2>3. OneActs' /\ NoneRunsAsOneRotates' /\ ApartAsOneRotates' /\ NoneRunsUnrelated'
    BY <1>1, <2>1, <2>2
       DEF TypeOK, OneActs, Acting, NoneRunsAsOneRotates, ApartAsOneRotates, NoneRunsUnrelated,
           Running, Operations
  <2> QED
    BY <1>1, <2>1, <2>3 DEF CInv, FromTheOffer
<1> QED
  BY <1>2, <1>3

LEMMA RotationKeeps ==
  ASSUME TypeOK, CInv, NEW u \in Units, Calm, leader' = leader, Rotate(u) \/ EndRotation(u)
  PROVE  CInv'
<1> USE DEF relation, handling, pbm, agents, passwords, history
<1>1. /\ \A w \in Units : active[w]
      /\ OneActs /\ NoneRunsAsOneRotates /\ ApartAsOneRotates /\ NoneRunsUnrelated
      /\ FromTheOffer
  BY DEF CInv
<1>2. CASE Rotate(u)
  <2>1. /\ u = leader /\ phase' = [phase EXCEPT ![u] = "restart"]
        /\ UNCHANGED <<relation, credentials, pbm, agents, secret>>
    BY <1>1, <1>2 DEF Rotate, Goes, OneActs, Acting
  <2>2. ~Running(Operations)
    BY <1>1, <1>2 DEF Rotate, NoneRunsAsOneRotates
  <2>3. OneActs' /\ NoneRunsAsOneRotates' /\ ApartAsOneRotates' /\ NoneRunsUnrelated'
    BY <1>1, <2>1, <2>2
       DEF TypeOK, OneActs, Acting, NoneRunsAsOneRotates, ApartAsOneRotates, NoneRunsUnrelated,
           Running, Operations
  <2> QED
    BY <1>1, <2>1, <2>3 DEF CInv, FromTheOffer
<1>3. CASE EndRotation(u)
  <2>1. /\ phase' = [phase EXCEPT ![u] = "idle"] /\ secret' = db /\ db' = db
        /\ UNCHANGED <<relation, credentials, config>>
    BY <1>3 DEF EndRotation, Goes
  <2>2. /\ \A w \in Units : active'[w]
        /\ \A w \in Units : runs'[w] \in Operations => runs[w] \in Operations
    BY <1>1, <1>3, ConfigureQuietly DEF EndRotation
  <2>3. /\ Running(Operations)' => Running(Operations)
        /\ \A w \in Units : phase'[w] \in Acting => phase'[w] = phase[w]
    BY <2>1, <2>2 DEF TypeOK, Running, Acting, Operations
  <2>4. OneActs' /\ NoneRunsAsOneRotates' /\ ApartAsOneRotates' /\ NoneRunsUnrelated'
    BY <1>1, <2>1, <2>3
       DEF OneActs, Acting, NoneRunsAsOneRotates, ApartAsOneRotates, NoneRunsUnrelated
  <2> QED
    BY <1>1, <2>1, <2>2, <2>4 DEF CInv, FromTheOffer
<1> QED
  BY <1>2, <1>3

LEMMA NextCInv == TypeOK /\ CInv /\ [Next]_vars => CInv'
<1> SUFFICES ASSUME TypeOK, CInv, [Next]_vars, Calm' PROVE CInv'
  BY DEF CInv
<1> USE DEF relation, handling, pbm, agents, passwords, history
<1>1. Calm /\ faults' = faults /\ leader' = leader
  BY CalmBefore
<1>2. ~Fault
  BY <1>1 DEF Fault, TypeOK
<1>3. CASE Offer
  <2>1. /\ related' = TRUE /\ offered' = offered + 1
        /\ UNCHANGED <<handling, pbm, agents, passwords>>
    BY <1>3 DEF Offer
  <2>2. FromTheOffer'
    BY <1>1, <2>1 DEF CInv, FromTheOffer, TypeOK
  <2> QED
    BY <1>1, <2>1, <2>2
       DEF CInv, OneActs, NoneRunsAsOneRotates, ApartAsOneRotates, NoneRunsUnrelated, Running
<1>4. CASE EndOperation \/ EndUpgrade \/ UNCHANGED vars
  <2>1. Quiet
    BY <1>4 DEF EndOperation, EndUpgrade, vars, Quiet, FromTheOffer, Operations
  <2> QED
    BY <1>1, <2>1, QuietKeeps
<1>5. ~RemoveRelation /\ ~BeginUpgrade /\ \A u \in Units : ~Crash(u) /\ ~AgentStops(u) /\ ~Elect(u)
  BY <1>2 DEF RemoveRelation, BeginUpgrade, Crash, AgentStops, Elect
<1>6. ASSUME NEW u \in Units, Hook(u) \/ RelationChanged(u) \/ UpdateStatus(u)
      PROVE  CInv'
  BY <1>1, <1>6, HookQuiet, QuietKeeps
<1>7. ASSUME NEW u \in Units, Goon(u)
      PROVE  CInv'
  BY <1>1, <1>2, <1>7, GoonQuiet, QuietKeeps, OperationKeeps, RotationKeeps
<1>8. ASSUME NEW u \in Units, CheckPassword(u) \/ \E op \in Operations : CheckOperation(u, op)
      PROVE  CInv'
  BY <1>1, <1>8, CheckPasswordKeeps, OperationKeeps
<1> QED
  BY <1>3, <1>4, <1>5, <1>6, <1>7, <1>8 DEF Next

(* Only Rotate changes the password.                                       *)
LEMMA OnlyRotates ==
  ASSUME TypeOK, [Next]_vars, db' # db
  PROVE  (\E u \in Units : Rotate(u)) /\ faults' = faults /\ offered' = offered
<1> USE DEF relation, handling, pbm, agents, passwords, history
<1>1. ~Offer /\ ~RemoveRelation /\ ~EndOperation /\ ~BeginUpgrade /\ ~EndUpgrade
  BY DEF Offer, RemoveRelation, EndOperation, BeginUpgrade, EndUpgrade
<1>2. \A u \in Units : ~Hook(u)
  BY DEF Hook, DeferCredentials, BeginCredentials, RefuseCredentials, SecretChanged,
         RelationBroken
<1>3. ASSUME NEW u \in Units, Goon(u)
      PROVE  Rotate(u)
  BY <1>3 DEF Goon, SetOption, GiveUpOptions, StartAgent, FailStart, RestartAgent, Busy,
              NotBusy, ForceResync, LoseResync, EndCredentials, SlowResync, StartOperation,
              FailOperation, EndRotation, FailRotation
<1>4. \A u \in Units : /\ ~RelationChanged(u) /\ ~UpdateStatus(u) /\ ~CheckPassword(u)
                       /\ ~Crash(u) /\ ~AgentStops(u) /\ ~Elect(u)
                       /\ \A op \in Operations : ~CheckOperation(u, op)
  BY DEF RelationChanged, UpdateStatus, CheckPassword, Crash, AgentStops, Elect,
         CheckOperation
<1>5. PICK u \in Units : Rotate(u)
  BY <1>1, <1>2, <1>3, <1>4 DEF Next, vars
<1> QED
  BY <1>5 DEF Rotate

(* While PBM backs up or restores the password stays, with the agents up,  *)
(* the relation there and one leader (assert_pass_password_checks).        *)
THEOREM PasswordAlwaysKept == Spec => PasswordKept
<1>1. /\ Init => TypeOK /\ CInv
  BY InitIInv, InitCInv DEF IInv
<1>2. TypeOK /\ CInv /\ [Next]_vars => (TypeOK /\ CInv)'
  BY NextTyped, NextCInv
<1>3. /\ TypeOK /\ CInv
      /\ [Next]_vars
      => [db' # db /\ Running(Operations) => faults > 0 \/ offered > 1]_vars
  <2> SUFFICES ASSUME TypeOK, CInv, [Next]_vars, db' # db, Running(Operations)
               PROVE  faults > 0 \/ offered > 1
    OBVIOUS
  <2>1. PICK u \in Units : Rotate(u)
    BY OnlyRotates
  <2>2. ~Calm
    BY <2>1 DEF CInv, NoneRunsAsOneRotates, Rotate
  <2> QED
    BY <2>2 DEF Calm, TypeOK
<1> QED
  BY <1>1, <1>2, <1>3, PTL DEF Spec, PasswordKept

-----------------------------------------------------------------------------
(* No resync is forgotten.  A unit with credentials-changed before it, or  *)
(* on its way through the handler, has yet to have PBM resync.             *)
ToResync(u) == Owed(u) \/ phase[u] \in {"set", "poll", "command"}

(* PBM has been resynced with the last credentials or will be, unless a    *)
(* unit gave up or a resync was lost.                                      *)
ResyncPending ==
  related /\ ~failed /\ ~lost => synced = Whole \/ \E u \in Units : ToResync(u)

(* A step that forgets nobody, and after which what PBM was resynced with  *)
(* is what it was, or does not count, or will not last.                    *)
Onward ==
  /\ UNCHANGED <<related, offered>>
  /\ failed => failed'
  /\ lost => lost'
  /\ \A u \in Units : ToResync(u) => ToResync(u)'
  /\ synced' = synced \/ lost' \/ \E u \in Units : ToResync(u)'

LEMMA OnwardKeeps ==
  ASSUME ResyncPending, Onward
  PROVE  ResyncPending'
BY DEF ResyncPending, Onward, Whole

LEMMA CredentialsOnward ==
  ASSUME IInv, ResyncPending, NEW u \in Units,
         \/ DeferCredentials(u) \/ BeginCredentials(u) \/ RefuseCredentials(u)
         \/ SetOption(u) \/ GiveUpOptions(u)
  PROVE  ResyncPending'
<1> USE DEF relation, handling, pbm, agents, passwords, history
<1>1. CASE DeferCredentials(u)
  <2>1. \A w \in Units : ToResync(w) => ToResync(w)'
    BY <1>1 DEF IInv, TypeOK, DeferCredentials, Defers, ToResync, Owed, Changes
  <2> QED
    BY <1>1, <2>1, OnwardKeeps DEF DeferCredentials, Onward
<1>2. CASE BeginCredentials(u)
  <2>1. ToResync(u)' /\ \A w \in Units \ {u} : ToResync(w) => ToResync(w)'
    BY <1>2 DEF IInv, TypeOK, BeginCredentials, Goes, ToResync, Owed
  <2> QED
    BY <1>2, <2>1, OnwardKeeps DEF BeginCredentials, Onward
<1>3. CASE RefuseCredentials(u) \/ GiveUpOptions(u)
  BY <1>3 DEF RefuseCredentials, GiveUpOptions, ResyncPending
<1>4. CASE SetOption(u)
  BY <1>4, OnwardKeeps DEF SetOption, Onward, ToResync, Owed
<1> QED
  BY <1>1, <1>2, <1>3, <1>4

(* PBM resyncs with options that are not the last ones only while a unit   *)
(* that will set those is to have it resync in turn (Pending).             *)
LEMMA ForceOnward ==
  ASSUME IInv, NEW u \in Units, ForceResync(u)
  PROVE  ResyncPending'
<1> USE DEF relation, handling, pbm, agents, passwords, history
<1> SUFFICES ASSUME related, ~failed, ~lost, config # Whole
             PROVE  \E w \in Units : ToResync(w)'
  BY DEF ForceResync, ResyncPending, Whole
<1>1. PICK o \in Options : config[o] # offered
  BY DEF IInv, TypeOK, Whole
<1>2. PICK w \in Units : Owed(w) \/ o \in left[w]
  BY <1>1 DEF IInv, Pending
<1>3. left[u] = {}
  BY DEF IInv, InHand, ForceResync
<1>4. Owed(w) \/ (w # u /\ phase[w] = "set")
  BY <1>2, <1>3 DEF IInv, InHand
<1> QED
  BY <1>4 DEF IInv, TypeOK, ForceResync, Goes, ToResync, Owed

LEMMA ResyncOnward ==
  ASSUME IInv, ResyncPending, NEW u \in Units,
         \/ StartAgent(u) \/ FailStart(u) \/ RestartAgent(u) \/ Busy(u) \/ NotBusy(u)
         \/ ForceResync(u) \/ LoseResync(u) \/ EndCredentials(u) \/ SlowResync(u)
  PROVE  ResyncPending'
<1> USE DEF relation, handling, pbm, agents, passwords, history
<1>1. CASE StartAgent(u)
  <2>1. ToResync(u)' /\ \A w \in Units \ {u} : ToResync(w) => ToResync(w)'
    BY <1>1 DEF IInv, TypeOK, StartAgent, Goes, ToResync, Owed
  <2> QED
    BY <1>1, <2>1, OnwardKeeps DEF StartAgent, Onward
<1>2. CASE FailStart(u) \/ LoseResync(u)
  BY <1>2 DEF FailStart, LoseResync, ResyncPending
<1>3. CASE RestartAgent(u)
  <2>1. phase[u] = "poll" /\ \A w \in Units : ToResync(w)' = ToResync(w)
    BY <1>3 DEF RestartAgent, ToResync, Owed
  <2> QED
    BY <1>3, <2>1, OnwardKeeps DEF RestartAgent, Onward, ToResync
<1>4. CASE Busy(u) \/ SlowResync(u)
  <2>1. Goes(u, "idle") /\ Defers(u, "changed")
    BY <1>4 DEF Busy, SlowResync, Again
  <2>2. ToResync(u)' /\ \A w \in Units \ {u} : ToResync(w) => ToResync(w)'
    BY <2>1 DEF IInv, TypeOK, Goes, Defers, ToResync, Owed, Changes
  <2> QED
    BY <1>4, <2>2, OnwardKeeps DEF Busy, SlowResync, Onward
<1>5. CASE NotBusy(u) \/ EndCredentials(u)
  <2>1. \A w \in Units : ToResync(w) => ToResync(w)'
    BY <1>5 DEF IInv, TypeOK, NotBusy, EndCredentials, Goes, ToResync, Owed
  <2> QED
    BY <1>5, <2>1, OnwardKeeps DEF NotBusy, EndCredentials, Onward
<1>6. CASE ForceResync(u)
  BY <1>6, ForceOnward
<1> QED
  BY <1>1, <1>2, <1>3, <1>4, <1>5, <1>6

(* An agent that is stopped in a resync has lost it.                       *)
LEMMA ConfigureLoses ==
  ASSUME NEW u, NEW p, NEW force, ConfigureAndRestart(u, p, force)
  PROVE  (synced' = synced \/ lost') /\ (lost => lost')
BY DEF ConfigureAndRestart, ComesUp, Interrupt, Undone

LEMMA AgentsOnward ==
  ASSUME IInv, ResyncPending, NEW u \in Units,
         \/ SecretChanged(u) \/ RelationChanged(u) \/ RelationBroken(u)
         \/ EndRotation(u) \/ FailRotation(u) \/ AgentStops(u)
  PROVE  ResyncPending'
<1> USE DEF relation, handling, pbm, agents, passwords, history
<1>0. (synced' = synced \/ lost') /\ (lost => lost')
  <2>1. CASE FailRotation(u) \/ AgentStops(u)
    BY <2>1 DEF FailRotation, AgentStops, Interrupt, Undone
  <2>2. CASE ~FailRotation(u) /\ ~AgentStops(u)
    <3>1. \E p, force : ConfigureAndRestart(u, p, force)
      BY <2>2 DEF SecretChanged, RelationChanged, RelationBroken, EndRotation
    <3> QED
      BY <3>1, ConfigureLoses
  <2> QED
    BY <2>1, <2>2
<1>1. UNCHANGED failed
  BY DEF SecretChanged, RelationChanged, RelationBroken, EndRotation, FailRotation, AgentStops
<1>2. UNCHANGED <<related, offered>>
  BY DEF SecretChanged, RelationChanged, RelationBroken, EndRotation, FailRotation, AgentStops
<1>3. UNCHANGED phase \/ (phase[u] = "restart" /\ Goes(u, "idle"))
  BY DEF SecretChanged, RelationChanged, RelationBroken, EndRotation, FailRotation, AgentStops
<1>4. \A w \in Units : Owed(w) => Owed(w)'
  BY AgentsAside DEF Aside
<1>5. \A w \in Units : ToResync(w) => ToResync(w)'
  BY <1>3, <1>4 DEF IInv, TypeOK, Goes, ToResync
<1> QED
  BY <1>0, <1>1, <1>2, <1>5, OnwardKeeps DEF Onward

LEMMA ActionsOnward ==
  ASSUME IInv, ResyncPending, NEW u \in Units,
         \/ StartOperation(u) \/ FailOperation(u) \/ CheckPassword(u) \/ Rotate(u)
         \/ Crash(u) \/ \E op \in Operations : CheckOperation(u, op)
  PROVE  ResyncPending'
<1> USE DEF relation, handling, pbm, agents, passwords, history
<1>1. UNCHANGED <<related, offered, failed, lost, synced>>
  BY DEF StartOperation, FailOperation, CheckPassword, Rotate, Crash, CheckOperation
<1>2. CASE Crash(u)
  <2>1. ToResync(u) => ToResync(u)'
    BY <1>2 DEF IInv, TypeOK, Crash, Goes, ToResync, Owed, Changes
  <2>2. \A w \in Units \ {u} : ToResync(w) => ToResync(w)'
    BY <1>2 DEF IInv, TypeOK, Crash, Goes, ToResync, Owed
  <2> QED
    BY <1>1, <2>1, <2>2, OnwardKeeps DEF Onward
<1>3. CASE ~Crash(u)
  <2>1. phase[u] \notin {"set", "poll", "command"} /\ UNCHANGED queue /\ \E p : Goes(u, p)
    BY <1>3 DEF StartOperation, FailOperation, CheckPassword, Rotate, CheckOperation,
                Action, Idle, Operations
  <2>2. \A w \in Units : ToResync(w) => ToResync(w)'
    BY <2>1 DEF IInv, TypeOK, Goes, ToResync, Owed
  <2> QED
    BY <1>1, <2>2, OnwardKeeps DEF Onward
<1> QED
  BY <1>2, <1>3

LEMMA NextResyncPending == IInv /\ ResyncPending /\ [Next]_vars => ResyncPending'
<1> SUFFICES ASSUME IInv, ResyncPending, [Next]_vars PROVE ResyncPending'
  OBVIOUS
<1> USE DEF relation, handling, pbm, agents, passwords, history
<1>1. CASE Offer
  <2>1. \A u \in Units : ToResync(u)'
    BY <1>1 DEF IInv, TypeOK, Offer, ToResync, Owed, Changes
  <2> QED
    BY <2>1, UnitsAssumption DEF ResyncPending
<1>2. CASE RemoveRelation
  BY <1>2 DEF RemoveRelation, ResyncPending
<1>3. CASE EndOperation \/ BeginUpgrade \/ EndUpgrade \/ UNCHANGED vars
           \/ \E u \in Units : Elect(u)
  <2>1. UNCHANGED <<relation, queue, phase, synced, history>>
    BY <1>3 DEF EndOperation, BeginUpgrade, EndUpgrade, vars, Elect
  <2> QED
    BY <2>1, OnwardKeeps DEF Onward, ToResync, Owed
<1>4. ASSUME NEW u \in Units, Hook(u) \/ Goon(u) \/ RelationChanged(u) \/ UpdateStatus(u)
      PROVE  ResyncPending'
  BY <1>4, CredentialsOnward, ResyncOnward, AgentsOnward, ActionsOnward
     DEF Hook, Goon, UpdateStatus
<1>5. ASSUME NEW u \in Units,
             \/ CheckPassword(u) \/ \E op \in Operations : CheckOperation(u, op)
             \/ Crash(u) \/ AgentStops(u)
      PROVE  ResyncPending'
  BY <1>5, AgentsOnward, ActionsOnward
<1> QED
  BY <1>1, <1>2, <1>3, <1>4, <1>5 DEF Next

(* The resync that the last credentials call for is done or still to come: *)
(* some unit has the event before it or is in the handler, unless one gave *)
(* up or a resync was refused or interrupted.                              *)
THEOREM ResyncAlwaysPending == Spec => []ResyncPending
<1>1. Init => ResyncPending
  BY DEF Init, ResyncPending
<1> QED
  BY <1>1, Inductive, NextResyncPending, PTL DEF Spec

-----------------------------------------------------------------------------
(* The password an agent logs in with.                                     *)

(* The secret holds MongoDB's password, except in the middle of a rotation *)
(* and after one that failed.                                              *)
SecretFollows == secret = db \/ torn \/ \E u \in Units : phase[u] = "restart"

(* A handler of credentials-changed has been offered some.                 *)
WasOffered ==
  offered # 0 \/ \A u \in Units : /\ ~Owed(u)
                                 /\ phase[u] \notin {"set", "poll", "command", "wait"}

(* An agent that is up logs in with what its environment holds, but for    *)
(* set_environment, which on machines does not restart one.                *)
RunsAsSet ==
  start.substrate = "k8s" \/ offered = 0 => \A u \in Units : active[u] => agent[u] = env[u]

LEMMA NextSecretFollows == TypeOK /\ SecretFollows /\ [Next]_vars => SecretFollows'
<1> SUFFICES ASSUME TypeOK, SecretFollows, [Next]_vars PROVE SecretFollows'
  OBVIOUS
<1> USE DEF relation, handling, pbm, agents, passwords, history
<1>1. CASE Offer \/ RemoveRelation \/ EndOperation \/ BeginUpgrade \/ EndUpgrade
           \/ UNCHANGED vars \/ \E u \in Units : Elect(u) \/ AgentStops(u)
  BY <1>1 DEF Offer, RemoveRelation, EndOperation, BeginUpgrade, EndUpgrade, vars, Elect,
              AgentStops, SecretFollows
<1>2. ASSUME NEW u \in Units, EndRotation(u) \/ FailRotation(u) \/ Rotate(u)
      PROVE  SecretFollows'
  BY <1>2 DEF TypeOK, EndRotation, FailRotation, Rotate, Goes, SecretFollows
<1>3. ASSUME NEW u \in Units, Crash(u)
      PROVE  SecretFollows'
  BY <1>3 DEF TypeOK, Crash, Goes, SecretFollows
<1>4. ASSUME NEW u \in Units, UNCHANGED passwords,
             UNCHANGED phase \/ (phase[u] # "restart" /\ \E p : Goes(u, p))
      PROVE  SecretFollows'
  BY <1>4 DEF TypeOK, Goes, SecretFollows
<1>5. ASSUME NEW u \in Units, Hook(u) \/ RelationChanged(u) \/ UpdateStatus(u)
      PROVE  SecretFollows'
  BY <1>4, <1>5 DEF Hook, DeferCredentials, BeginCredentials, RefuseCredentials, Idle,
                    SecretChanged, RelationBroken, RelationChanged, UpdateStatus
<1>6. ASSUME NEW u \in Units, Goon(u)
      PROVE  SecretFollows'
  <2>1. CASE SetOption(u) \/ GiveUpOptions(u) \/ StartAgent(u) \/ FailStart(u)
             \/ RestartAgent(u) \/ Busy(u) \/ NotBusy(u)
    BY <1>4, <2>1 DEF SetOption, GiveUpOptions, StartAgent, FailStart, RestartAgent, Busy,
                      NotBusy
  <2>2. CASE ForceResync(u) \/ LoseResync(u) \/ EndCredentials(u) \/ SlowResync(u)
             \/ StartOperation(u) \/ FailOperation(u)
    BY <1>4, <2>2 DEF ForceResync, LoseResync, EndCredentials, SlowResync, StartOperation,
                      FailOperation, Operations
  <2> QED
    BY <1>2, <1>6, <2>1, <2>2 DEF Goon
<1>7. ASSUME NEW u \in Units, CheckPassword(u) \/ \E op \in Operations : CheckOperation(u, op)
      PROVE  SecretFollows'
  BY <1>4, <1>7 DEF CheckPassword, CheckOperation, Action, Idle
<1> QED
  BY <1>1, <1>2, <1>3, <1>5, <1>6, <1>7 DEF Next

(* What an agent that comes up, or is left alone, logs in with.            *)
LEMMA ComesUpAsSet ==
  ASSUME TypeOK, NEW u \in Units, NEW p \in Nat, ComesUp(u, p), RunsAsSet
  PROVE  start.substrate = "k8s" \/ offered = 0 =>
           \A w \in Units : active'[w] => agent'[w] = env'[w]
BY DEF TypeOK, ComesUp, RunsAsSet

LEMMA ConfigureAsSet ==
  ASSUME TypeOK, NEW u \in Units, NEW p \in Nat, NEW force,
         ConfigureAndRestart(u, p, force), RunsAsSet
  PROVE  start.substrate = "k8s" \/ offered = 0 =>
           \A w \in Units : active'[w] => agent'[w] = env'[w]
BY ComesUpAsSet DEF ConfigureAndRestart, agents, RunsAsSet

LEMMA NextRunsAsSet == TypeOK /\ WasOffered /\ RunsAsSet /\ [Next]_vars => RunsAsSet'
<1> SUFFICES ASSUME TypeOK, WasOffered, RunsAsSet, [Next]_vars PROVE RunsAsSet'
  OBVIOUS
<1> USE DEF relation, handling, pbm, agents, passwords, history
<1>1. CASE Offer
  <2>1. offered' = offered + 1 /\ UNCHANGED <<start, agents>>
    BY <1>1 DEF Offer
  <2> QED
    BY <2>1 DEF TypeOK, RunsAsSet
<1>2. CASE RemoveRelation \/ EndOperation \/ BeginUpgrade \/ EndUpgrade
           \/ UNCHANGED vars \/ \E u \in Units : Elect(u) \/ Crash(u)
  BY <1>2 DEF RemoveRelation, EndOperation, BeginUpgrade, EndUpgrade, vars, Elect,
              Crash, RunsAsSet
<1>3. ASSUME NEW u \in Units,
             \/ SecretChanged(u) \/ RelationChanged(u) \/ UpdateStatus(u)
             \/ RelationBroken(u) \/ EndRotation(u)
      PROVE  RunsAsSet'
  <2>1. /\ UNCHANGED <<start, offered>>
        /\ \E p \in Nat : \E force : ConfigureAndRestart(u, p, force)
    BY <1>3 DEF SecretChanged, RelationChanged, UpdateStatus, RelationBroken, EndRotation,
                TypeOK
  <2> QED
    BY <2>1, ConfigureAsSet DEF RunsAsSet
<1>4. ASSUME NEW u \in Units, FailStart(u) \/ FailRotation(u) \/ AgentStops(u)
      PROVE  RunsAsSet'
  BY <1>4 DEF FailStart, FailRotation, AgentStops, TypeOK, RunsAsSet
<1>5. ASSUME NEW u \in Units,
             \/ BeginCredentials(u) \/ StartAgent(u) \/ RestartAgent(u) \/ Busy(u)
      PROVE  RunsAsSet'
  <2>1. UNCHANGED <<start, offered>>
    BY <1>5 DEF BeginCredentials, StartAgent, RestartAgent, Busy
  <2>2. CASE \E p \in Nat : ComesUp(u, p)
    BY <2>1, <2>2, ComesUpAsSet DEF RunsAsSet
  <2>3. CASE UNCHANGED agents
    BY <2>1, <2>3 DEF RunsAsSet
  <2>4. StartAgent(u) => offered # 0
    BY DEF StartAgent, WasOffered
  <2>5. StartAgent(u) =>
          (\E p \in Nat : ComesUp(u, p)) \/ (start.substrate # "k8s" /\ offered # 0)
    BY <2>4 DEF StartAgent, TypeOK
  <2>6. RestartAgent(u) \/ Busy(u) =>
          (\E p \in Nat : ComesUp(u, p)) \/ UNCHANGED agents
    BY DEF RestartAgent, Busy, Restarts, TypeOK
  <2>7. BeginCredentials(u) => (\E p \in Nat : ComesUp(u, p)) \/ UNCHANGED agents
    BY DEF BeginCredentials, TypeOK
  <2> QED
    BY <1>5, <2>1, <2>2, <2>3, <2>5, <2>6, <2>7 DEF RunsAsSet
<1>6. ASSUME NEW u \in Units,
             \/ DeferCredentials(u) \/ RefuseCredentials(u) \/ SetOption(u)
             \/ GiveUpOptions(u) \/ NotBusy(u) \/ ForceResync(u) \/ LoseResync(u)
             \/ EndCredentials(u) \/ SlowResync(u)
      PROVE  RunsAsSet'
  BY <1>6 DEF DeferCredentials, RefuseCredentials, SetOption, GiveUpOptions, NotBusy,
              ForceResync, LoseResync, EndCredentials, SlowResync, RunsAsSet
<1>7. ASSUME NEW u \in Units,
             \/ StartOperation(u) \/ FailOperation(u) \/ Rotate(u) \/ CheckPassword(u)
             \/ \E op \in Operations : CheckOperation(u, op)
      PROVE  RunsAsSet'
  BY <1>7 DEF StartOperation, FailOperation, Rotate, CheckPassword, CheckOperation, RunsAsSet
<1> QED
  BY <1>1, <1>2, <1>3, <1>4, <1>5, <1>6, <1>7 DEF Next, Hook, Goon

LEMMA NextWasOffered == IInv /\ WasOffered /\ [Next]_vars => WasOffered'
<1> SUFFICES ASSUME IInv, WasOffered, [Next]_vars, offered' = 0 PROVE WasOffered'
  BY DEF WasOffered
<1> USE DEF relation, handling, pbm, agents, passwords, history
<1>1. ~Offer
  BY DEF Offer, IInv, TypeOK
<1>2. offered = 0
  <2>1. CASE UNCHANGED vars \/ RemoveRelation \/ EndOperation \/ BeginUpgrade \/ EndUpgrade
             \/ \E u \in Units : Elect(u) \/ Crash(u)
    BY <2>1 DEF vars, RemoveRelation, EndOperation, BeginUpgrade, EndUpgrade, Elect, Crash
  <2>2. ASSUME NEW u \in Units, Hook(u) \/ RelationChanged(u) \/ UpdateStatus(u)
        PROVE  offered = 0
    BY <2>2 DEF Hook, DeferCredentials, BeginCredentials, RefuseCredentials, SecretChanged,
                RelationBroken, RelationChanged, UpdateStatus
  <2>3. ASSUME NEW u \in Units, Goon(u)
        PROVE  offered = 0
    BY <2>3 DEF Goon, SetOption, GiveUpOptions, StartAgent, FailStart, RestartAgent, Busy,
                NotBusy, ForceResync, LoseResync, EndCredentials, SlowResync, StartOperation,
                FailOperation, Rotate, EndRotation, FailRotation
  <2>4. ASSUME NEW u \in Units, \/ CheckPassword(u) \/ AgentStops(u)
                                \/ \E op \in Operations : CheckOperation(u, op)
        PROVE  offered = 0
    BY <2>4 DEF CheckPassword, AgentStops, CheckOperation
  <2> QED
    BY <1>1, <2>1, <2>2, <2>3, <2>4 DEF Next
<1>3. \A u \in Units : ~Owed(u) /\ phase[u] \notin {"set", "poll", "command", "wait"}
  BY <1>2 DEF WasOffered
<1>4. ASSUME \A u \in Units : Owed(u)' => Owed(u),
             \A u \in Units : phase'[u] \in {"set", "poll", "command", "wait"} =>
               phase'[u] = phase[u]
      PROVE  WasOffered'
  BY <1>3, <1>4 DEF WasOffered
<1>5. CASE UNCHANGED vars \/ RemoveRelation \/ EndOperation \/ BeginUpgrade \/ EndUpgrade
           \/ \E u \in Units : Elect(u)
  BY <1>4, <1>5 DEF vars, RemoveRelation, EndOperation, BeginUpgrade, EndUpgrade, Elect, Owed,
                    Changes, IInv, TypeOK
<1>6. ASSUME NEW u \in Units, Crash(u)
      PROVE  WasOffered'
  <2>1. phase[u] \notin {"set", "poll", "command", "wait"}
    BY <1>3
  <2> QED
    BY <1>4, <1>6, <2>1 DEF Crash, Goes, Owed, IInv, TypeOK
<1>7. ASSUME NEW u \in Units, Hook(u) \/ RelationChanged(u) \/ UpdateStatus(u)
      PROVE  WasOffered'
  <2>1. ~DeferCredentials(u) /\ ~BeginCredentials(u) /\ ~RefuseCredentials(u)
    BY <1>3 DEF DeferCredentials, BeginCredentials, RefuseCredentials, Owed
  <2>2. CASE SecretChanged(u) \/ RelationBroken(u)
    BY <1>4, <2>2 DEF SecretChanged, RelationBroken, Owed, Changes, IInv, TypeOK
  <2>3. CASE RelationChanged(u) \/ UpdateStatus(u)
    BY <1>4, <2>3 DEF RelationChanged, UpdateStatus, Owed
  <2> QED
    BY <1>7, <2>1, <2>2, <2>3 DEF Hook
<1>8. ASSUME NEW u \in Units, Goon(u)
      PROVE  WasOffered'
  <2>1. /\ ~SetOption(u) /\ ~GiveUpOptions(u) /\ ~StartAgent(u) /\ ~FailStart(u)
        /\ ~RestartAgent(u) /\ ~Busy(u) /\ ~NotBusy(u) /\ ~ForceResync(u) /\ ~LoseResync(u)
        /\ ~EndCredentials(u) /\ ~SlowResync(u)
    BY <1>3 DEF SetOption, GiveUpOptions, StartAgent, FailStart, RestartAgent, Busy,
                NotBusy, ForceResync, LoseResync, EndCredentials, SlowResync
  <2>2. CASE StartOperation(u) \/ FailOperation(u) \/ Rotate(u) \/ FailRotation(u)
    BY <1>4, <2>2 DEF StartOperation, FailOperation, Rotate, FailRotation, Goes, Owed, IInv,
                      TypeOK
  <2>3. CASE EndRotation(u)
    BY <1>4, <2>3 DEF EndRotation, Goes, Owed, Changes, IInv, TypeOK
  <2> QED
    BY <1>8, <2>1, <2>2, <2>3 DEF Goon
<1>9. ASSUME NEW u \in Units, \/ CheckPassword(u) \/ AgentStops(u)
                              \/ \E op \in Operations : CheckOperation(u, op)
      PROVE  WasOffered'
  BY <1>4, <1>9 DEF CheckPassword, AgentStops, CheckOperation, Goes, Owed, IInv, TypeOK,
                    Operations
<1> QED
  BY <1>1, <1>5, <1>6, <1>7, <1>8, <1>9 DEF Next

(* An agent that is up and logs in with another password than MongoDB's is *)
(* in the middle or behind a failed rotation, or on a machine that         *)
(* set_environment has passed over, or the next hook that configures it    *)
(* (relation-changed, secret-changed, update-status) restarts it.          *)
AgentsCatchUp ==
  \A u \in Units : active[u] /\ agent[u] # db =>
    \/ torn \/ \E w \in Units : phase[w] = "restart"
    \/ start.substrate # "k8s" /\ offered # 0
    \/ env[u] # secret

(* No agent stays behind a rotated password for good, but for those cases. *)
THEOREM AgentsAlwaysCatchUp == Spec => []AgentsCatchUp
<1> DEFINE AInv == IInv /\ SecretFollows /\ WasOffered /\ RunsAsSet
<1>1. Init => AInv
  <2>1. Init => SecretFollows /\ RunsAsSet
    BY DEF Init, SecretFollows, RunsAsSet
  <2>2. Init => WasOffered
    BY DEF Init, WasOffered, Owed, Changes
  <2> QED
    BY <2>1, <2>2, InitIInv
<1>2. AInv /\ [Next]_vars => AInv'
  BY NextIInv, NextSecretFollows, NextWasOffered, NextRunsAsSet DEF IInv
<1>3. AInv => AgentsCatchUp
  BY DEF SecretFollows, RunsAsSet, AgentsCatchUp
<1> QED
  BY <1>1, <1>2, <1>3, PTL DEF Spec
=============================================================================
