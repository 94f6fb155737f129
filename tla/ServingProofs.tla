---------------------------- MODULE ServingProofs ----------------------------
(***************************************************************************)
(* Theorems about Serving, for any number of clients, models, permits and   *)
(* worker threads and for both protocols.                                   *)
(*                                                                          *)
(* A step of the server looks, to the semaphore, like one of six steps      *)
(* (AdmissionStep): this is the lemma StepsOfTheSemaphore, from which both  *)
(* the permit accounting and the refinement of AdmissionControl follow.     *)
(* The other parts of IndInv are then shown to be kept one by one.          *)
(***************************************************************************)
EXTENDS Serving, FiniteSetTheorems, TLAPS

SeeNothing == UNCHANGED permits /\ Holders' = Holders /\ Queued' = Queued

SeeEnter(c) ==
    /\ c \notin Holders \cup Queued
    /\ permits > 0 /\ permits' = permits - 1
    /\ Holders' = Holders \cup {c} /\ Queued' = Queued

SeeWait(c) ==
    /\ c \notin Holders \cup Queued
    /\ permits = 0 /\ UNCHANGED permits
    /\ Holders' = Holders /\ Queued' = Queued \cup {c}

SeeTurnAway(c) ==
    /\ c \in Queued
    /\ UNCHANGED permits
    /\ Holders' = Holders /\ Queued' = Queued \ {c}

SeeLeave(c) ==
    /\ c \in Holders
    /\ Queued = {} /\ Queued' = Queued
    /\ permits' = permits + 1
    /\ Holders' = Holders \ {c}

SeeHandOver(c, w) ==
    /\ c \in Holders /\ w \in Queued
    /\ UNCHANGED permits
    /\ Holders' = (Holders \ {c}) \cup {w}
    /\ Queued' = Queued \ {w}

AdmissionStep ==
    \/ SeeNothing
    \/ \E c \in Client : SeeEnter(c) \/ SeeWait(c) \/ SeeTurnAway(c) \/ SeeLeave(c)
    \/ \E c, w \in Client : SeeHandOver(c, w)

\* The limit in force is positive, a configured 0 included (lib.rs:43).
LEMMA LimitPositive == MaxInflight \in Nat \ {0}
  BY LimitAssumption DEF MaxInflight

LEMMA HoldersFinite == /\ IsFiniteSet(Holders)
                       /\ Cardinality(Holders) \in Nat
  <1>1. Holders \in SUBSET Client
    BY DEF Holders
  <1>2. IsFiniteSet(Holders)
    BY <1>1, ClientAssumption, FS_Subset
  <1> QED
    BY <1>2, FS_CardinalityType

\* Moving a call on between two stages that both come after its permit, or
\* both do not, and both in the queue, or not, is not seen by the semaphore.
LEMMA MovesUnseen ==
  ASSUME TypeOK, NEW c \in Client, NEW stage,
         pc' = [pc EXCEPT ![c] = stage], UNCHANGED <<kind, permits>>,
         pc[c] \in {"queued", "expired"} <=> stage \in {"queued", "expired"},
         kind[c] = "predict" => (pc[c] \in PermitStages <=> stage \in PermitStages)
  PROVE  SeeNothing
  <1> USE DEF TypeOK
  <1>1. Queued' = Queued
    BY DEF Queued
  <1>2. Holders' = Holders
    BY DEF Holders
  <1> QED
    BY <1>1, <1>2 DEF SeeNothing

\* A call that ends is not seen, is turned away, leaves or hands over.
LEMMA EndsSeen ==
  ASSUME TypeOK, StagesMatchKind, NEW c \in Client, DropPermit(c), UNCHANGED kind
  PROVE  AdmissionStep
  <1> USE DEF TypeOK
  <1> DEFINE idled == [pc EXCEPT ![c] = "idle"]
  <1>0. /\ {"idle", "queued", "expired"} \cap PermitStages = {}
        /\ {"granted", "granted_late"} \subseteq PermitStages
    BY DEF PermitStages, EnsureStages
  <1>1. CASE c \notin Holders /\ pc' = idled /\ UNCHANGED permits
    <2>1. Holders' = Holders
      BY <1>1, <1>0 DEF Holders
    <2>2. CASE c \in Queued
      <3>1. Queued' = Queued \ {c}
        BY <1>1 DEF Queued
      <3> QED
        BY <1>1, <2>1, <2>2, <3>1 DEF AdmissionStep, SeeTurnAway
    <2>3. CASE c \notin Queued
      <3>1. Queued' = Queued
        BY <1>1, <2>3 DEF Queued
      <3> QED
        BY <1>1, <2>1, <3>1 DEF AdmissionStep, SeeNothing
    <2> QED
      BY <2>2, <2>3
  <1>2. CASE c \in Holders /\ Queued = {} /\ pc' = idled /\ permits' = permits + 1
    <2>1. Holders' = Holders \ {c}
      BY <1>2, <1>0 DEF Holders
    <2>2. Queued' = Queued
      BY <1>2 DEF Queued
    <2> QED
      BY <1>2, <2>1, <2>2 DEF AdmissionStep, SeeLeave
  <1>3. ASSUME c \in Holders, NEW w \in Queued, UNCHANGED permits,
               NEW stage \in {"granted", "granted_late"},
               pc' = [pc EXCEPT ![c] = "idle", ![w] = stage]
        PROVE  AdmissionStep
    <2>1. w \in Client /\ w # c /\ kind[w] = "predict"
      BY <1>3, <1>0 DEF Queued, Holders, StagesMatchKind, RefusalStages
    <2>2. Holders' = (Holders \ {c}) \cup {w}
      BY <1>3, <1>0, <2>1 DEF Holders
    <2>3. Queued' = Queued \ {w}
      BY <1>3, <1>0, <2>1 DEF Queued, Holders
    <2> QED
      BY <1>3, <2>1, <2>2, <2>3 DEF AdmissionStep, SeeHandOver
  <1> QED
    BY <1>1, <1>2, <1>3 DEF DropPermit, Queued

LEMMA StepsOfTheSemaphore ==
  ASSUME TypeOK, StagesMatchKind, QueuedOnlyWhenFull, [Next]_vars
  PROVE  AdmissionStep
  <1> USE DEF TypeOK
  <1>s. /\ PermitStages = {"granted", "granted_late", "parsing", "predicting", "read_wait", "reading",
                           "loading", "write_wait", "write_granted", "loaded"}
        /\ AfterPermit \in {"parsing", "read_wait"}
        /\ AfterParse \in {"read_wait", "predicting"}
        /\ AfterEnsure \in {"predicting", "parsing"}
    BY DEF PermitStages, EnsureStages, AfterPermit, AfterParse, AfterEnsure
  <1>stutter. CASE UNCHANGED vars
    <2>1. SeeNothing
      BY <1>stutter DEF SeeNothing, Holders, Queued, vars, callVars, sharedVars
    <2> QED
      BY <2>1 DEF AdmissionStep
  <1>deploy. CASE Deploy
    <2>1. SeeNothing
      BY <1>deploy DEF Deploy, SeeNothing, Holders, Queued, callVars
    <2> QED
      BY <2>1 DEF AdmissionStep
  <1>arrive. ASSUME NEW c \in Client, Arrive(c) PROVE AdmissionStep
    <2>1. Queued' = Queued
      BY <1>arrive DEF Arrive, Queued, sharedVars
    <2>2. Holders' = Holders
      BY <1>arrive, <1>s DEF Arrive, Holders, sharedVars
    <2>3. SeeNothing
      BY <1>arrive, <2>1, <2>2 DEF Arrive, SeeNothing, sharedVars
    <2> QED
      BY <2>3 DEF AdmissionStep
  <1>acquire. ASSUME NEW c \in Client, Acquire(c) PROVE AdmissionStep
    <2>1. c \notin Holders \cup Queued
      BY <1>acquire, <1>s DEF Acquire, StartPredict, Holders, Queued
    <2>2. Holders' = Holders \cup {c}
      BY <1>acquire, <1>s DEF Acquire, StartPredict, Holders
    <2>3. Queued' = Queued
      BY <1>acquire, <1>s DEF Acquire, StartPredict, Queued
    <2>4. SeeEnter(c)
      BY <1>acquire, <2>1, <2>2, <2>3 DEF Acquire, SeeEnter
    <2> QED
      BY <2>4 DEF AdmissionStep
  <1>enqueue. ASSUME NEW c \in Client, Enqueue(c) PROVE AdmissionStep
    <2>1. c \notin Holders \cup Queued
      BY <1>enqueue, <1>s DEF Enqueue, StartPredict, Holders, Queued
    <2>2. Holders' = Holders
      BY <1>enqueue, <1>s DEF Enqueue, StartPredict, Goto, Holders
    <2>3. Queued' = Queued \cup {c}
      BY <1>enqueue, <1>s DEF Enqueue, StartPredict, Goto, Queued
    <2>4. SeeWait(c)
      BY <1>enqueue, <2>1, <2>2, <2>3 DEF Enqueue, Goto, SeeWait
    <2> QED
      BY <2>4 DEF AdmissionStep
  <1>ends. ASSUME NEW c \in Client, NEW a, EndCall(c, a) PROVE AdmissionStep
    <2>1. DropPermit(c) /\ UNCHANGED kind
      BY <1>ends DEF EndCall
    <2> QED
      BY <2>1, EndsSeen
  <1>moves. ASSUME NEW c \in Client, NEW stage, Goto(c, stage),
                   pc[c] \in {"queued", "expired"} <=> stage \in {"queued", "expired"},
                   kind[c] = "predict" => (pc[c] \in PermitStages <=> stage \in PermitStages)
            PROVE  AdmissionStep
    <2>1. pc' = [pc EXCEPT ![c] = stage] /\ UNCHANGED <<kind, permits>>
      BY <1>moves DEF Goto
    <2>2. SeeNothing
      BY <1>moves, <2>1, MovesUnseen
    <2> QED
      BY <2>2 DEF AdmissionStep
  <1>serve. ASSUME NEW c \in Client, Serve(c) PROVE AdmissionStep
    <2>1. CASE AnswerLive(c) \/ AnswerMetrics(c) \/ RefuseLoadError(c) \/ RefuseOversize(c) \/ TimeOut(c) \/ LoadErr(c)
      BY <2>1, <1>ends DEF AnswerLive, AnswerMetrics, RefuseLoadError, RefuseOversize, TimeOut, LoadErr
    <2>2. CASE AnswerReady(c) \/ AnswerReread(c) \/ ParseErr(c) \/ ParsePanic(c)
      BY <2>2, <1>ends DEF AnswerReady, AnswerReread, ParseErr, ParsePanic
    <2>3. CASE StartReady(c) \/ PollGranted(c) \/ DeadlinePasses(c)
      BY <2>3, <1>moves, <1>s DEF StartReady, PollGranted, DeadlinePasses
    <2>4. CASE TakeReadLock(c) \/ CacheHit(c) \/ CacheMiss(c)
      BY <2>4, <1>moves, <1>s DEF TakeReadLock, CacheHit, CacheMiss
    <2>5. CASE LoadOk(c) \/ TakeWriteLock(c)
      BY <2>5, <1>moves, <1>s DEF LoadOk, TakeWriteLock
    <2>6. CASE ContinuePredict(c) \/ ParseOk(c)
      BY <2>6, <1>moves, <1>s DEF ContinuePredict, ParseOk
    <2>7. CASE RereadWait(c) \/ TakeReadLockAgain(c)
      BY <2>7, <1>moves, <1>s DEF RereadWait, TakeReadLockAgain, StagesMatchKind
    <2>8. CASE Store(c)
      <3>1. pc' = [pc EXCEPT ![c] = "loaded"] /\ UNCHANGED <<kind, permits>>
            /\ pc[c] = "write_granted"
        BY <2>8 DEF Store
      <3>2. SeeNothing
        BY <3>1, <1>s, MovesUnseen
      <3> QED
        BY <3>2 DEF AdmissionStep
    <2> QED
      BY <1>serve, <1>acquire, <1>enqueue, <2>1, <2>2, <2>3, <2>4, <2>5, <2>6, <2>7, <2>8 DEF Serve
  <1>predict. ASSUME NEW c \in Client, Predict(c) \/ Cancel(c) PROVE AdmissionStep
    BY <1>predict, <1>ends DEF Predict, Cancel
  <1> QED
    BY <1>stutter, <1>deploy, <1>arrive, <1>serve, <1>predict DEF Next

LEMMA AccountingKept ==
  ASSUME TypeOK, PermitAccounting, QueuedOnlyWhenFull, AdmissionStep
  PROVE  /\ PermitAccounting'
         /\ QueuedOnlyWhenFull'
         /\ permits' \in 0..MaxInflight
  <1>1. /\ permits \in Nat /\ MaxInflight \in Nat
        /\ IsFiniteSet(Holders) /\ Cardinality(Holders) \in Nat
    BY HoldersFinite, LimitPositive DEF TypeOK
  <1>m. MaxInflight' = MaxInflight /\ permits + Cardinality(Holders) = MaxInflight
    BY DEF MaxInflight, PermitAccounting
  <1>2. CASE SeeNothing
    BY <1>1, <1>m, <1>2 DEF SeeNothing, PermitAccounting, QueuedOnlyWhenFull, TypeOK
  <1>3. ASSUME NEW c \in Client, SeeEnter(c)
        PROVE  /\ PermitAccounting' /\ QueuedOnlyWhenFull' /\ permits' \in 0..MaxInflight
    <2>1. Cardinality(Holders \cup {c}) = Cardinality(Holders) + 1
      BY <1>1, <1>3, FS_AddElement DEF SeeEnter
    <2> QED
      BY <1>1, <1>m, <1>3, <2>1 DEF SeeEnter, PermitAccounting, QueuedOnlyWhenFull
  <1>4. ASSUME NEW c \in Client, SeeWait(c) \/ SeeTurnAway(c)
        PROVE  /\ PermitAccounting' /\ QueuedOnlyWhenFull' /\ permits' \in 0..MaxInflight
    BY <1>1, <1>m, <1>4 DEF SeeWait, SeeTurnAway, PermitAccounting, QueuedOnlyWhenFull
  <1>5. ASSUME NEW c \in Client, SeeLeave(c)
        PROVE  /\ PermitAccounting' /\ QueuedOnlyWhenFull' /\ permits' \in 0..MaxInflight
    <2>1. /\ Cardinality(Holders \ {c}) = Cardinality(Holders) - 1
          /\ Cardinality(Holders \ {c}) \in Nat
      BY <1>1, <1>5, FS_RemoveElement, FS_CardinalityType DEF SeeLeave
    <2> QED
      BY <1>1, <1>m, <1>5, <2>1 DEF SeeLeave, PermitAccounting, QueuedOnlyWhenFull
  <1>6. ASSUME NEW c \in Client, NEW w \in Client, SeeHandOver(c, w)
        PROVE  /\ PermitAccounting' /\ QueuedOnlyWhenFull' /\ permits' \in 0..MaxInflight
    <2>1. IsFiniteSet(Holders \ {c}) /\ Cardinality(Holders \ {c}) = Cardinality(Holders) - 1
      BY <1>1, <1>6, FS_RemoveElement DEF SeeHandOver
    <2>2. w \notin Holders \ {c}
      BY <1>6 DEF SeeHandOver, Holders, Queued, PermitStages, EnsureStages
    <2> DEFINE Others == Holders \ {c}
    <2>a. Cardinality(Others \cup {w}) = Cardinality(Others) + 1
      <3> HIDE DEF Others
      <3> QED  BY <2>1, <2>2, FS_AddElement DEF Others
    <2>3. Cardinality((Holders \ {c}) \cup {w}) = Cardinality(Holders)
      BY <1>1, <2>1, <2>a
    <2> QED
      BY <1>1, <1>m, <1>6, <2>3 DEF SeeHandOver, PermitAccounting, QueuedOnlyWhenFull
  <1> QED
    BY <1>2, <1>3, <1>4, <1>5, <1>6 DEF AdmissionStep

-----------------------------------------------------------------------------
\* What the end of a call leaves behind: the call is over, the others are where
\* they were, but for a queued one that may own the permit now.
LEMMA EndFrame ==
  ASSUME TypeOK, NEW c \in Client, NEW a \in Answers, EndCall(c, a)
  PROVE  /\ pc' \in [Client -> Stages] /\ pc'[c] = "idle"
         /\ \A d \in Client \ {c} : \/ pc'[d] = pc[d]
                                    \/ pc[d] = "queued" /\ pc'[d] = "granted"
                                    \/ pc[d] = "expired" /\ pc'[d] = "granted_late"
         /\ kind' = kind /\ cache' = cache /\ disk' = disk
         /\ loadError' = loadError /\ cold' = cold
         /\ answer' = [answer EXCEPT ![c] = a]
         /\ got' = [got EXCEPT ![c] = NoModel]
         /\ installed' = [installed EXCEPT ![c] = {}]
         /\ payload' \in [Client -> SUBSET Defect]
         /\ ahead' \in [Client -> SUBSET Client]
  <1> USE DEF TypeOK
  <1>1. {"idle", "granted", "granted_late"} \subseteq Stages
    BY DEF Stages, PermitStages
  <1>2. LockWaiters \subseteq Client
    BY DEF LockWaiters
  <1>3. /\ pc' \in [Client -> Stages] /\ pc'[c] = "idle"
        /\ \A d \in Client \ {c} : \/ pc'[d] = pc[d]
                                   \/ pc[d] = "queued" /\ pc'[d] = "granted"
                                   \/ pc[d] = "expired" /\ pc'[d] = "granted_late"
    BY <1>1 DEF EndCall, DropPermit, Queued, Holders, PermitStages, EnsureStages
  <1>4. ahead' \in [Client -> SUBSET Client]
    BY <1>2 DEF EndCall, LockQueue
  <1>5. payload' \in [Client -> SUBSET Defect]
    BY DEF EndCall
  <1> QED
    BY <1>3, <1>4, <1>5 DEF EndCall

\* Every step keeps every variable in its type.
LEMMA TypeKept ==
  ASSUME TypeOK, StagesMatchKind, AdapterInHand, permits' \in 0..MaxInflight,
         [Next]_vars
  PROVE  TypeOK'
  <1> USE DEF TypeOK
  <1>s. /\ Stages = {"idle", "arrived", "queued", "expired", "reread_wait", "rereading",
                     "granted", "granted_late", "parsing", "predicting", "read_wait", "reading", "loading",
                     "write_wait", "write_granted", "loaded"}
        /\ {AfterPermit, AfterParse, AfterEnsure} \subseteq Stages
        /\ LockWaiters \subseteq Client
        /\ MaxInflight' = MaxInflight
    BY DEF Stages, PermitStages, EnsureStages, AfterPermit, AfterParse, AfterEnsure,
           LockWaiters, MaxInflight
  <1>stutter. CASE UNCHANGED vars
    BY <1>stutter DEF vars, callVars, sharedVars, historyVars
  <1>deploy. CASE Deploy
    BY <1>deploy, <1>s DEF Deploy, callVars, historyVars
  <1>ends. ASSUME NEW c \in Client, NEW a \in Answers, EndCall(c, a) PROVE TypeOK'
    BY <1>ends, <1>s, EndFrame
  <1>moves. ASSUME NEW c \in Client, NEW stage \in Stages, Goto(c, stage),
                   got' \in [Client -> Model \cup {NoModel}],
                   UNCHANGED <<cache, disk, loadError>>
            PROVE  TypeOK'
    <2>1. ahead' \in [Client -> SUBSET Client]
      BY <1>moves, <1>s DEF Goto, LockQueue
    <2> QED
      BY <1>moves, <1>s, <2>1 DEF Goto
  <1>arrive. ASSUME NEW c \in Client, Arrive(c) PROVE TypeOK'
    <2>1. kind' \in [Client -> Kinds]
      BY <1>arrive DEF Arrive
    <2>2. payload' \in [Client -> SUBSET Defect]
      BY <1>arrive, PayloadAssumption DEF Arrive
    <2>3. installed' \in [Client -> SUBSET Model]
      BY <1>arrive DEF Arrive
    <2>4. pc' \in [Client -> Stages] /\ answer' \in [Client -> Answers] /\ cold' \in SUBSET Client
      BY <1>arrive, <1>s DEF Arrive, Answers
    <2> QED
      BY <1>arrive, <1>s, <2>1, <2>2, <2>3, <2>4 DEF Arrive, sharedVars
  <1>acquire. ASSUME NEW c \in Client, Acquire(c) PROVE TypeOK'
    <2>1. ahead' \in [Client -> SUBSET Client] /\ pc' \in [Client -> Stages]
      BY <1>acquire, <1>s DEF Acquire, LockQueue
    <2> QED
      BY <1>acquire, <1>s, <2>1 DEF Acquire, historyVars
  <1>store. ASSUME NEW c \in Client, Store(c) PROVE TypeOK'
    <2>1. got[c] \in Model
      BY <1>store DEF Store, AdapterInHand
    <2>2. installed' \in [Client -> SUBSET Model]
      BY <1>store, <2>1 DEF Store
    <2> QED
      BY <1>store, <1>s, <2>1, <2>2 DEF Store
  <1>serve. ASSUME NEW c \in Client, Serve(c) PROVE TypeOK'
    <2> USE DEF Answers
    <2>1. CASE AnswerLive(c) \/ AnswerMetrics(c) \/ RefuseLoadError(c) \/ RefuseOversize(c) \/ TimeOut(c) \/ LoadErr(c)
      BY <2>1, <1>ends DEF AnswerLive, AnswerMetrics, RefuseLoadError, RefuseOversize, TimeOut, LoadErr
    <2>2. CASE AnswerReady(c) \/ AnswerReread(c) \/ ParseErr(c) \/ ParsePanic(c)
      BY <2>2, <1>ends DEF AnswerReady, AnswerReread, ParseErr, ParsePanic
    <2>3. CASE StartReady(c) \/ PollGranted(c) \/ Enqueue(c) \/ DeadlinePasses(c)
      BY <2>3, <1>moves, <1>s DEF StartReady, PollGranted, Enqueue, DeadlinePasses
    <2>4. CASE TakeReadLock(c) \/ CacheHit(c) \/ CacheMiss(c)
      BY <2>4, <1>moves, <1>s DEF TakeReadLock, CacheHit, CacheMiss
    <2>5. CASE LoadOk(c) \/ TakeWriteLock(c)
      BY <2>5, <1>moves, <1>s DEF LoadOk, TakeWriteLock
    <2>6. CASE ContinuePredict(c) \/ ParseOk(c)
      BY <2>6, <1>moves, <1>s DEF ContinuePredict, ParseOk
    <2>7. CASE RereadWait(c) \/ TakeReadLockAgain(c)
      BY <2>7, <1>moves, <1>s DEF RereadWait, TakeReadLockAgain
    <2> QED
      BY <1>serve, <1>acquire, <1>store, <2>1, <2>2, <2>3, <2>4, <2>5, <2>6, <2>7 DEF Serve
  <1>predict. ASSUME NEW c \in Client, Predict(c) \/ Cancel(c) PROVE TypeOK'
    BY <1>predict, <1>ends DEF Predict, Cancel, Answers
  <1> QED
    BY <1>stutter, <1>deploy, <1>arrive, <1>serve, <1>predict DEF Next

-----------------------------------------------------------------------------
\* What calls know of the adapter and of the cache.
CallsInv == StagesMatchKind /\ AdapterInHand /\ CallsSeeTheCache
               /\ WarmCallsSeeACache /\ WarmCallsStayServed

\* The end of a call leaves what the others know alone; its own answer is
\* "not_ready" or, without a load error, "internal" only if it began cold.
LEMMA EndsKeepCalls ==
  ASSUME TypeOK, CallsInv, NEW c \in Client, NEW a \in Answers, EndCall(c, a),
         c \notin cold => a # "not_ready" /\ (a = "internal" => loadError)
  PROVE  CallsInv'
  <1> USE DEF TypeOK, CallsInv
  <1>1. /\ pc'[c] = "idle"
        /\ \A d \in Client \ {c} : \/ pc'[d] = pc[d]
                                   \/ pc[d] = "queued" /\ pc'[d] = "granted"
                                   \/ pc[d] = "expired" /\ pc'[d] = "granted_late"
        /\ kind' = kind /\ cache' = cache /\ loadError' = loadError /\ cold' = cold
        /\ answer' = [answer EXCEPT ![c] = a]
        /\ got' = [got EXCEPT ![c] = NoModel]
        /\ installed' = [installed EXCEPT ![c] = {}]
        /\ EnsuredStages' = EnsuredStages
    BY EndFrame DEF EnsuredStages
  <1>2. StagesMatchKind'
    BY <1>1 DEF StagesMatchKind, RefusalStages
  <1>3. AdapterInHand'
    BY <1>1 DEF AdapterInHand, EnsuredStages
  <1>4. CallsSeeTheCache'
    BY <1>1 DEF CallsSeeTheCache
  <1>5. WarmCallsSeeACache'
    BY <1>1 DEF WarmCallsSeeACache
  <1>6. WarmCallsStayServed'
    BY <1>1 DEF WarmCallsStayServed
  <1> QED
    BY <1>2, <1>3, <1>4, <1>5, <1>6

\* A step that moves a call on to a stage whose knowledge it has.
LEMMA MovesKeepCalls ==
  ASSUME TypeOK, CallsInv, NEW c \in Client, NEW stage, NEW m,
         pc' = [pc EXCEPT ![c] = stage], got' = [got EXCEPT ![c] = m],
         UNCHANGED <<kind, answer, cache, loadError, cold, installed>>,
         pc[c] # "idle",
         stage \in {"queued", "granted", "parsing", "predicting"} \cup RefusalStages
             => kind[c] = "predict",
         stage \in {"reread_wait", "rereading"} => kind[c] = "ready",
         stage \in {"write_wait", "write_granted"} => m \in Model,
         stage \in EnsuredStages => m \in installed[c],
         stage \in {"loaded", "reread_wait", "rereading"} => cache # NoModel,
         stage \in {"loading", "write_wait", "write_granted"} => c \in cold
  PROVE  CallsInv'
  <1> USE DEF TypeOK, CallsInv
  <1>0. EnsuredStages' = EnsuredStages
    BY DEF EnsuredStages
  <1>1. StagesMatchKind'
    BY DEF StagesMatchKind
  <1>2. AdapterInHand'
    BY <1>0 DEF AdapterInHand
  <1>3. CallsSeeTheCache'
    BY DEF CallsSeeTheCache
  <1>4. WarmCallsSeeACache'
    BY DEF WarmCallsSeeACache
  <1>5. WarmCallsStayServed'
    BY DEF WarmCallsStayServed
  <1> QED
    BY <1>1, <1>2, <1>3, <1>4, <1>5

LEMMA CallsKept ==
  ASSUME TypeOK, CallsInv, [Next]_vars
  PROVE  CallsInv'
  <1> USE DEF TypeOK
  <1>s. /\ EnsuredStages \subseteq {"loaded", "predicting", "parsing"}
        /\ EnsuredStages' = EnsuredStages
        /\ AfterPermit = "read_wait" \/ (AfterPermit = "parsing" /\ "parsing" \notin EnsuredStages)
        /\ AfterParse = "read_wait"
           \/ (AfterParse = "predicting" /\ "parsing" \in EnsuredStages)
        /\ AfterEnsure \in {"predicting", "parsing"}
        /\ "loaded" \in EnsuredStages
        /\ RefusalStages = {"expired", "granted_late"}
    BY ModeAssumption DEF RefusalStages, EnsuredStages, AfterPermit, AfterParse, AfterEnsure
  <1>stutter. CASE UNCHANGED vars
    BY <1>stutter, <1>s DEF vars, callVars, sharedVars, historyVars, CallsInv, StagesMatchKind,
       AdapterInHand, CallsSeeTheCache, WarmCallsSeeACache, WarmCallsStayServed
  <1>deploy. CASE Deploy
    BY <1>deploy, <1>s DEF Deploy, callVars, historyVars, CallsInv, StagesMatchKind,
       AdapterInHand, CallsSeeTheCache, WarmCallsSeeACache, WarmCallsStayServed
  <1>arrive. ASSUME NEW c \in Client, Arrive(c) PROVE CallsInv'
    <2> USE DEF CallsInv
    <2>1. /\ pc' = [pc EXCEPT ![c] = "arrived"]
          /\ \A d \in Client \ {c} : kind'[d] = kind[d]
          /\ answer' = [answer EXCEPT ![c] = "none"]
          /\ cold' = IF cache = NoModel THEN cold \cup {c} ELSE cold \ {c}
          /\ installed' = [installed EXCEPT ![c] = {cache} \ {NoModel}]
          /\ got' = got /\ cache' = cache /\ loadError' = loadError
      BY <1>arrive DEF Arrive, sharedVars
    <2>2. StagesMatchKind'
      BY <2>1 DEF StagesMatchKind, RefusalStages
    <2>3. AdapterInHand'
      BY <2>1, <1>s DEF AdapterInHand
    <2>4. CallsSeeTheCache'
      BY <2>1 DEF CallsSeeTheCache
    <2>5. WarmCallsSeeACache'
      BY <2>1 DEF WarmCallsSeeACache
    <2>6. WarmCallsStayServed'
      BY <2>1 DEF WarmCallsStayServed
    <2> QED
      BY <2>2, <2>3, <2>4, <2>5, <2>6
  <1>store. ASSUME NEW c \in Client, Store(c) PROVE CallsInv'
    <2> USE DEF CallsInv
    <2>1. /\ got[c] \in Model /\ got[c] # NoModel
          /\ pc[c] = "write_granted"
          /\ cache' = got[c] /\ pc' = [pc EXCEPT ![c] = "loaded"]
          /\ installed' = [d \in Client |-> IF pc[d] = "idle" THEN installed[d]
                                            ELSE installed[d] \cup {got[c]}]
          /\ kind' = kind /\ got' = got /\ answer' = answer
          /\ loadError' = loadError /\ cold' = cold
      BY <1>store, ModelAssumption DEF Store, AdapterInHand
    <2>2. StagesMatchKind'
      BY <2>1 DEF StagesMatchKind, RefusalStages
    <2>3. AdapterInHand'
      BY <2>1, <1>s DEF AdapterInHand
    <2>4. CallsSeeTheCache'
      BY <2>1 DEF CallsSeeTheCache
    <2>5. WarmCallsSeeACache'
      BY <2>1 DEF WarmCallsSeeACache
    <2>6. WarmCallsStayServed'
      BY <2>1 DEF WarmCallsStayServed
    <2> QED
      BY <2>2, <2>3, <2>4, <2>5, <2>6
  <1>serve. ASSUME NEW c \in Client, Serve(c) PROVE CallsInv'
    <2>ends. ASSUME NEW a \in Answers, EndCall(c, a),
                    c \notin cold => a # "not_ready" /\ (a = "internal" => loadError)
             PROVE  CallsInv'
      BY <2>ends, EndsKeepCalls
    <2>0. got = [got EXCEPT ![c] = got[c]]
      OBVIOUS
    <2>moves. ASSUME NEW stage, Goto(c, stage), NEW m,
                     got' = [got EXCEPT ![c] = m], UNCHANGED <<cache, disk, loadError>>,
                     pc[c] # "idle",
                     stage \in {"queued", "granted", "parsing", "predicting"} \cup RefusalStages
                         => kind[c] = "predict",
                     stage \in {"reread_wait", "rereading"} => kind[c] = "ready",
                     stage \in {"write_wait", "write_granted"} => m \in Model,
                     stage \in EnsuredStages => m \in installed[c],
                     stage \in {"loaded", "reread_wait", "rereading"} => cache # NoModel,
                     stage \in {"loading", "write_wait", "write_granted"} => c \in cold
              PROVE  CallsInv'
      <3>1. /\ pc' = [pc EXCEPT ![c] = stage]
            /\ UNCHANGED <<kind, answer, cache, loadError, cold, installed>>
        BY <2>moves DEF Goto
      <3> QED
        BY <2>moves, <3>1, MovesKeepCalls
    <2>1. CASE AnswerLive(c) \/ AnswerMetrics(c) \/ RefuseLoadError(c) \/ RefuseOversize(c) \/ TimeOut(c)
      BY <2>1, <2>ends DEF AnswerLive, AnswerMetrics, RefuseLoadError, RefuseOversize, TimeOut, Answers
    <2>2. CASE AnswerReady(c) \/ ParseErr(c) \/ ParsePanic(c)
      BY <2>2, <2>ends DEF AnswerReady, ParseErr, ParsePanic, Answers
    <2>3. CASE LoadErr(c)
      BY <2>3, <2>ends DEF LoadErr, Answers, CallsInv, WarmCallsStayServed
    <2>4. CASE AnswerReread(c)
      BY <2>4, <2>ends DEF AnswerReread, Answers, CallsInv, AdapterInHand
    <2>5. CASE Acquire(c)
      <3>1. /\ pc' = [pc EXCEPT ![c] = AfterPermit] /\ got' = [got EXCEPT ![c] = got[c]]
            /\ UNCHANGED <<kind, answer, cache, loadError, cold, installed>>
            /\ pc[c] # "idle" /\ kind[c] = "predict"
        BY <2>5, <2>0 DEF Acquire, StartPredict, historyVars
      <3> QED
        BY <3>1, <1>s, MovesKeepCalls
    <2>6. CASE StartReady(c)
      BY <2>6, <2>0, <2>moves, <1>s DEF StartReady
    <2>7. CASE Enqueue(c)
      BY <2>7, <2>0, <2>moves, <1>s DEF Enqueue, StartPredict
    <2>8. CASE PollGranted(c) \/ DeadlinePasses(c)
      BY <2>8, <2>0, <2>moves, <1>s DEF PollGranted, DeadlinePasses, CallsInv, StagesMatchKind
    <2>9. CASE TakeReadLock(c)
      BY <2>9, <2>0, <2>moves, <1>s DEF TakeReadLock
    <2>10. CASE CacheHit(c)
      <3>1. cache \in installed[c]
        BY <2>10 DEF CacheHit, CallsInv, CallsSeeTheCache
      <3>2. /\ pc' = [pc EXCEPT ![c] = "loaded"] /\ got' = [got EXCEPT ![c] = cache]
            /\ UNCHANGED <<kind, answer, cache, loadError, cold, installed>>
            /\ pc[c] # "idle" /\ cache # NoModel
        BY <2>10 DEF CacheHit, Goto
      <3> QED
        BY <3>1, <3>2, <1>s, MovesKeepCalls
    <2>11. CASE CacheMiss(c)
      <3>1. c \in cold
        BY <2>11 DEF CacheMiss, CallsInv, WarmCallsSeeACache
      <3> QED
        BY <2>11, <3>1, <2>0, <2>moves, <1>s DEF CacheMiss
    <2>12. CASE LoadOk(c)
      <3>1. c \in cold /\ disk \in Model
        BY <2>12 DEF LoadOk, CallsInv, WarmCallsStayServed
      <3>2. /\ pc' = [pc EXCEPT ![c] = "write_wait"] /\ got' = [got EXCEPT ![c] = disk]
            /\ UNCHANGED <<kind, answer, cache, loadError, cold, installed>>
            /\ pc[c] # "idle"
        BY <2>12 DEF LoadOk, Goto
      <3> QED
        BY <3>1, <3>2, <1>s, MovesKeepCalls
    <2>13. CASE TakeWriteLock(c)
      <3>1. c \in cold /\ got[c] \in Model
        BY <2>13 DEF TakeWriteLock, CallsInv, WarmCallsStayServed, AdapterInHand
      <3> QED
        BY <2>13, <3>1, <2>0, <2>moves, <1>s DEF TakeWriteLock
    <2>14. CASE ContinuePredict(c)
      <3>1. got[c] \in installed[c]
        BY <2>14, <1>s DEF ContinuePredict, CallsInv, AdapterInHand
      <3> QED
        BY <2>14, <3>1, <2>0, <2>moves, <1>s DEF ContinuePredict
    <2>15. CASE ParseOk(c)
      <3>1. /\ kind[c] = "predict"
            /\ "parsing" \in EnsuredStages => got[c] \in installed[c]
        BY <2>15 DEF ParseOk, CallsInv, AdapterInHand, StagesMatchKind
      <3> QED
        BY <2>15, <3>1, <2>0, <2>moves, <1>s DEF ParseOk
    <2>16. CASE RereadWait(c) \/ TakeReadLockAgain(c)
      <3>1. cache # NoModel /\ kind[c] = "ready"
        BY <2>16 DEF RereadWait, TakeReadLockAgain, CallsInv, AdapterInHand, StagesMatchKind
      <3> QED
        BY <2>16, <3>1, <2>0, <2>moves, <1>s DEF RereadWait, TakeReadLockAgain
    <2> QED
      BY <1>serve, <1>store, <2>1, <2>2, <2>3, <2>4, <2>5, <2>6, <2>7, <2>8, <2>9, <2>10,
         <2>11, <2>12, <2>13, <2>14, <2>15, <2>16 DEF Serve
  <1>predict. ASSUME NEW c \in Client, Predict(c) \/ Cancel(c) PROVE CallsInv'
    BY <1>predict, EndsKeepCalls DEF Predict, Cancel, Answers
  <1> QED
    BY <1>stutter, <1>deploy, <1>arrive, <1>serve, <1>predict DEF Next

-----------------------------------------------------------------------------
LEMMA InitEstablishesIndInv == Init => IndInv
  <1> SUFFICES ASSUME Init PROVE IndInv
    OBVIOUS
  <1>1. Queued = {} /\ Holders = {}
    BY DEF Init, Queued, Holders, PermitStages, EnsureStages
  <1>2. Cardinality(Holders) = 0
    BY <1>1, FS_EmptySet
  <1>3. TypeOK
    BY LimitPositive DEF Init, LoadErrorKept, TypeOK, Stages, PermitStages, Kinds, Answers
  <1>4. PermitAccounting /\ QueuedOnlyWhenFull
    BY <1>1, <1>2, LimitPositive DEF Init, PermitAccounting, QueuedOnlyWhenFull
  <1>5. CallsInv
    BY DEF Init, CallsInv, StagesMatchKind, RefusalStages, AdapterInHand, EnsuredStages,
           CallsSeeTheCache, WarmCallsSeeACache, WarmCallsStayServed
  <1> QED
    BY <1>3, <1>4, <1>5 DEF IndInv, CallsInv

LEMMA NextKeepsIndInv == IndInv /\ [Next]_vars => IndInv'
  <1> SUFFICES ASSUME IndInv, [Next]_vars PROVE IndInv'
    OBVIOUS
  <1>1. AdmissionStep
    BY StepsOfTheSemaphore DEF IndInv
  <1>2. PermitAccounting' /\ QueuedOnlyWhenFull' /\ permits' \in 0..MaxInflight
    BY <1>1, AccountingKept DEF IndInv
  <1>3. TypeOK'
    BY <1>2, TypeKept DEF IndInv
  <1>4. CallsInv'
    BY CallsKept DEF IndInv, CallsInv
  <1> QED
    BY <1>2, <1>3, <1>4 DEF IndInv, CallsInv

THEOREM SpecKeepsIndInv == Spec => []IndInv
  BY InitEstablishesIndInv, NextKeepsIndInv, PTL DEF Spec

\* The state of the server and of every call keeps its type.
THEOREM TypeCorrect == Spec => []TypeOK
  <1>1. IndInv => TypeOK
    BY DEF IndInv
  <1> QED
    BY <1>1, SpecKeepsIndInv, PTL

\* Free permits and permit owners always add up to the limit (http.rs:236,
\* grpc_service.rs:96): the semaphore is never mis-counted.
THEOREM PermitsConserved == Spec => []PermitAccounting
  <1>1. IndInv => PermitAccounting
    BY DEF IndInv
  <1> QED
    BY <1>1, SpecKeepsIndInv, PTL

\* A call that arrives at a warm server neither loads the model nor fails for
\* the lack of it (lib.rs:51).
THEOREM WarmServerStaysUp == Spec => []WarmCallsStayServed
  <1>1. IndInv => WarmCallsStayServed
    BY DEF IndInv
  <1> QED
    BY <1>1, SpecKeepsIndInv, PTL

\* Predictions run on an adapter that was cached during the call, whatever
\* cold calls overwrite meanwhile (lib.rs:51).
THEOREM InstalledAdapterUsed == Spec => []PredictsWithInstalledModel
  <1>1. IndInv => PredictsWithInstalledModel
    BY DEF IndInv, AdapterInHand, EnsuredStages, PredictsWithInstalledModel
  <1> QED
    BY <1>1, SpecKeepsIndInv, PTL

\* The second look of the gRPC readiness probe finds an adapter
\* (grpc_service.rs:55).
THEOREM RereadIsSafe == Spec => []RereadFindsAdapter
  <1>1. IndInv => RereadFindsAdapter
    BY DEF IndInv, AdapterInHand, RereadFindsAdapter
  <1> QED
    BY <1>1, SpecKeepsIndInv, PTL

\* A filled cache is never emptied (lib.rs:57).
THEOREM AdapterStays == Spec => AdapterNeverReverts
  <1>1. IndInv /\ [Next]_vars => [cache # NoModel => cache' # NoModel]_vars
    <2> SUFFICES ASSUME IndInv, Next, cache # NoModel PROVE cache' # NoModel
      BY DEF vars, sharedVars
    <2>1. CASE \E c \in Client : Store(c)
      BY <2>1, ModelAssumption DEF Store, IndInv, AdapterInHand
    <2>2. CASE UNCHANGED cache
      BY <2>2
    <2>3. ASSUME NEW c \in Client, Serve(c), ~Store(c) PROVE UNCHANGED cache
      BY <2>3 DEF Serve, AnswerLive, AnswerMetrics, StartReady, RefuseLoadError, RefuseOversize, Acquire,
         Enqueue, PollGranted, DeadlinePasses, TimeOut, TakeReadLock, CacheHit, CacheMiss, LoadOk, LoadErr,
         TakeWriteLock, ContinuePredict, AnswerReady, RereadWait, TakeReadLockAgain,
         AnswerReread, ParseOk, ParseErr, ParsePanic, EndCall
    <2> QED
      BY <2>1, <2>2, <2>3 DEF Next, Arrive, sharedVars, Predict, Cancel, Deploy, EndCall
  <1> QED
    BY <1>1, SpecKeepsIndInv, PTL DEF Spec, AdapterNeverReverts

\* Only a call whose deadline has passed is answered "busy".
LEMMA OnlyTimeOutRefuses ==
  ASSUME TypeOK, Next, NEW c \in Client, answer[c] # "busy", answer'[c] = "busy"
  PROVE  TimeOut(c)
  <1> USE DEF TypeOK
  <1>1. ASSUME NEW d \in Client, NEW a, EndCall(d, a), a # "busy" PROVE FALSE
    BY <1>1 DEF EndCall
  <1>2. CASE Deploy
    BY <1>2 DEF Deploy, callVars
  <1>3. ASSUME NEW d \in Client, Arrive(d) PROVE FALSE
    BY <1>3 DEF Arrive
  <1>4. ASSUME NEW d \in Client, Predict(d) \/ Cancel(d) PROVE FALSE
    BY <1>4, <1>1 DEF Predict, Cancel
  <1>5. ASSUME NEW d \in Client, Serve(d), ~TimeOut(d) PROVE FALSE
    <2>1. CASE AnswerLive(d) \/ AnswerMetrics(d) \/ RefuseLoadError(d) \/ RefuseOversize(d) \/ LoadErr(d)
      BY <2>1, <1>1 DEF AnswerLive, AnswerMetrics, RefuseLoadError, RefuseOversize, LoadErr
    <2>2. CASE AnswerReady(d) \/ AnswerReread(d) \/ ParseErr(d) \/ ParsePanic(d)
      BY <2>2, <1>1 DEF AnswerReady, AnswerReread, ParseErr, ParsePanic
    <2>3. CASE UNCHANGED answer
      BY <2>3
    <2> QED
      BY <1>5, <2>1, <2>2, <2>3 DEF Serve, StartReady, Acquire, Enqueue, PollGranted,
         DeadlinePasses, TakeReadLock, CacheHit, CacheMiss, LoadOk, TakeWriteLock, Store,
         ContinuePredict, RereadWait, TakeReadLockAgain, ParseOk, Goto
  <1>6. ASSUME NEW d \in Client, d # c, TimeOut(d) PROVE FALSE
    BY <1>6 DEF TimeOut, EndCall
  <1> QED
    BY <1>2, <1>3, <1>4, <1>5, <1>6 DEF Next

\* Only the deadline puts a call on its way to a refusal; neither another
\* call's end nor any other step of its own does.
LEMMA OnlyTheDeadlineExpires ==
  ASSUME TypeOK, Next, NEW c \in Client,
         pc[c] \notin RefusalStages, pc'[c] \in RefusalStages
  PROVE  DeadlinePasses(c)
  <1> USE DEF TypeOK
  <1>s. /\ RefusalStages = {"expired", "granted_late"}
        /\ {AfterPermit, AfterParse, AfterEnsure} \cap RefusalStages = {}
    BY DEF RefusalStages, AfterPermit, AfterParse, AfterEnsure
  <1>1. ASSUME NEW d \in Client, NEW a, EndCall(d, a) PROVE FALSE
    BY <1>1, <1>s DEF EndCall, DropPermit, Queued
  <1>2. ASSUME NEW d \in Client, NEW stage, pc' = [pc EXCEPT ![d] = stage],
               stage \notin RefusalStages
        PROVE  FALSE
    BY <1>2
  <1>3. CASE Deploy
    BY <1>3 DEF Deploy, callVars
  <1>4. ASSUME NEW d \in Client, Arrive(d) PROVE FALSE
    BY <1>4, <1>2, <1>s DEF Arrive
  <1>5. ASSUME NEW d \in Client, Predict(d) \/ Cancel(d) PROVE FALSE
    BY <1>5, <1>1 DEF Predict, Cancel
  <1>6. ASSUME NEW d \in Client, Serve(d), ~DeadlinePasses(d) PROVE FALSE
    <2>1. CASE AnswerLive(d) \/ AnswerMetrics(d) \/ RefuseLoadError(d) \/ RefuseOversize(d) \/ TimeOut(d) \/ LoadErr(d)
      BY <2>1, <1>1 DEF AnswerLive, AnswerMetrics, RefuseLoadError, RefuseOversize, TimeOut, LoadErr
    <2>2. CASE AnswerReady(d) \/ AnswerReread(d) \/ ParseErr(d) \/ ParsePanic(d)
      BY <2>2, <1>1 DEF AnswerReady, AnswerReread, ParseErr, ParsePanic
    <2>3. CASE \E stage : stage \notin RefusalStages /\ pc' = [pc EXCEPT ![d] = stage]
      BY <2>3, <1>2
    <2>4. CASE StartReady(d) \/ Acquire(d) \/ Enqueue(d) \/ PollGranted(d)
      BY <2>3, <2>4, <1>s DEF StartReady, Acquire, Enqueue, PollGranted, Goto
    <2>5. CASE TakeReadLock(d) \/ CacheHit(d) \/ CacheMiss(d) \/ LoadOk(d) \/ TakeWriteLock(d) \/ Store(d)
      BY <2>3, <2>5, <1>s DEF TakeReadLock, CacheHit, CacheMiss, LoadOk, TakeWriteLock, Store, Goto
    <2>6. CASE ContinuePredict(d) \/ RereadWait(d) \/ TakeReadLockAgain(d) \/ ParseOk(d)
      BY <2>3, <2>6, <1>s DEF ContinuePredict, RereadWait, TakeReadLockAgain, ParseOk, Goto
    <2> QED
      BY <1>6, <2>1, <2>2, <2>4, <2>5, <2>6 DEF Serve
  <1>7. ASSUME NEW d \in Client, d # c, DeadlinePasses(d) PROVE FALSE
    BY <1>7 DEF DeadlinePasses, Goto
  <1> QED
    BY <1>3, <1>4, <1>5, <1>6, <1>7 DEF Next

\* Nobody is told "too many requests" who did not look while the permits were
\* all owned by others (http.rs:142, grpc_service.rs:104).
THEOREM RefusalMeansFull == Spec => RefusedOnlyWhenFull
  <1> DEFINE Refusal == \A c \in Client :
               /\ answer[c] # "busy" /\ answer'[c] = "busy" => pc[c] \in RefusalStages
               /\ pc[c] \notin RefusalStages /\ pc'[c] \in RefusalStages =>
                     /\ Cardinality(Holders \ {c}) = MaxInflight
                     /\ Holders \ {c} # {}
  <1>1. IndInv /\ [Next]_vars => [Refusal]_vars
    <2> SUFFICES ASSUME IndInv, Next, NEW c \in Client
                 PROVE  /\ answer[c] # "busy" /\ answer'[c] = "busy" => pc[c] \in RefusalStages
                        /\ pc[c] \notin RefusalStages /\ pc'[c] \in RefusalStages =>
                              /\ Cardinality(Holders \ {c}) = MaxInflight
                              /\ Holders \ {c} # {}
      BY DEF vars, callVars
    <2>1. ASSUME answer[c] # "busy", answer'[c] = "busy" PROVE pc[c] \in RefusalStages
      BY <2>1, OnlyTimeOutRefuses DEF IndInv, TimeOut
    <2>2. ASSUME pc[c] \notin RefusalStages, pc'[c] \in RefusalStages
          PROVE  Cardinality(Holders \ {c}) = MaxInflight /\ Holders \ {c} # {}
      <3>1. DeadlinePasses(c)
        BY <2>2, OnlyTheDeadlineExpires DEF IndInv
      <3>2. c \in Queued /\ c \notin Holders
        BY <3>1 DEF DeadlinePasses, Queued, Holders, PermitStages, EnsureStages
      <3>3. permits = 0 /\ Holders \ {c} = Holders
        BY <3>2 DEF IndInv, QueuedOnlyWhenFull
      <3>4. Cardinality(Holders) = MaxInflight
        BY <3>3, HoldersFinite, LimitPositive DEF IndInv, PermitAccounting
      <3>5. Holders # {}
        BY <3>4, LimitPositive, FS_EmptySet
      <3> QED
        BY <3>3, <3>4, <3>5
    <2> QED
      BY <2>1, <2>2
  <1> QED
    BY <1>1, SpecKeepsIndInv, PTL DEF Spec, RefusedOnlyWhenFull

-----------------------------------------------------------------------------
\* Serving implements AdmissionControl: at most max_inflight predictions are
\* inside, and who leaves makes way for who waits (http.rs:132,
\* grpc_service.rs:96).
THEOREM ServingImplementsAdmission == Spec => ImplementsAdmission
  <1>1. Init => Admission!Init
    BY DEF Init, Admission!Init, Queued, Holders, PermitStages, EnsureStages
  <1>2. IndInv /\ [Next]_vars => [Admission!Next]_(Admission!admissionVars)
    <2> SUFFICES ASSUME IndInv, [Next]_vars
                 PROVE  [Admission!Next]_(Admission!admissionVars)
      OBVIOUS
    <2>1. AdmissionStep
      BY StepsOfTheSemaphore DEF IndInv
    <2>2. /\ permits + Cardinality(Holders) = MaxInflight
          /\ permits \in Nat /\ Cardinality(Holders) \in Nat /\ MaxInflight \in Nat
          /\ Queued # {} => permits = 0
      BY HoldersFinite, LimitPositive
         DEF IndInv, PermitAccounting, QueuedOnlyWhenFull, TypeOK
    <2>3. Admission!Full <=> permits = 0
      <3>1. Admission!Cardinality(Holders) = Cardinality(Holders)
        BY DEF Admission!Cardinality, Cardinality
      <3> QED
        BY <2>2, <3>1 DEF Admission!Full
    <2>4. CASE SeeNothing
      BY <2>4 DEF SeeNothing, Admission!admissionVars
    <2>5. ASSUME NEW c \in Client, SeeEnter(c) PROVE Admission!Enter(c)
      BY <2>2, <2>3, <2>5 DEF SeeEnter, Admission!Enter, Admission!Outside
    <2>6. ASSUME NEW c \in Client, SeeWait(c) PROVE Admission!Wait(c)
      BY <2>3, <2>6 DEF SeeWait, Admission!Wait, Admission!Outside
    <2>7. ASSUME NEW c \in Client, SeeTurnAway(c) PROVE Admission!TurnAway(c)
      BY <2>2, <2>3, <2>7 DEF SeeTurnAway, Admission!TurnAway
    <2>8. ASSUME NEW c \in Client, SeeLeave(c) PROVE Admission!Leave(c)
      BY <2>8 DEF SeeLeave, Admission!Leave
    <2>9. ASSUME NEW c \in Client, NEW w \in Client, SeeHandOver(c, w)
          PROVE  Admission!HandOver(c, w)
      BY <2>9 DEF SeeHandOver, Admission!HandOver
    <2> QED
      BY <2>1, <2>4, <2>5, <2>6, <2>7, <2>8, <2>9 DEF AdmissionStep, Admission!Next
  <1> QED
    BY <1>1, <1>2, SpecKeepsIndInv, PTL DEF Spec, ImplementsAdmission, Admission!Spec
=============================================================================
