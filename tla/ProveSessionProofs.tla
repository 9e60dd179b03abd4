-------------------------- MODULE ProveSessionProofs --------------------------
(* Proofs about ProveSession, for every set of callers and of calls: its   *)
(* invariants, and that it implements MaterialsLifecycle.                  *)
EXTENDS ProveSession, TLAPS

(* A call's materials are in one place: the session, one prover's hands, or *)
(* used up.                                                                *)
OnePlace ==
  /\ slot # None =>
       /\ proofs[slot.request] = 0
       /\ \A c \in Callers : mats[c] # None => mats[c].request # slot.request
  /\ \A c \in Callers : mats[c] # None => proofs[mats[c].request] = 0
  /\ \A c, d \in Callers :
       mats[c] # None /\ mats[d] # None /\ mats[c].request = mats[d].request => c = d

(* What a call under way has put in its key log, and what a call that has  *)
(* not stored has left undone.                                             *)
CallsOK ==
  /\ \A k \in Calls : phase[k] = "connected" => keylog[k] = <<>>
  /\ \A k \in Calls : phase[k] \in {"secured", "received"} => keylog[k] = <<k>>
  /\ \A k \in Calls : proofs[k] > 0 => phase[k] \in Stored

IInv == TypeOK /\ Coherent /\ ProvedAtMostOnce /\ OwnMaterialsStay /\ OnePlace /\ CallsOK

-------------------------------------------------------------------------------

LEMMA InitIInv == Init => IInv
<1> SUFFICES ASSUME Init PROVE IInv
  OBVIOUS
<1>1. TypeOK
  BY DEF Init, TypeOK, Phases, Suites
<1>2. Coherent /\ OnePlace /\ OwnMaterialsStay
  BY DEF Init, Coherent, CoherentMaterials, OnePlace, OwnMaterialsStay
<1>3. CallsOK /\ ProvedAtMostOnce
  BY DEF Init, CallsOK, ProvedAtMostOnce
<1> QED
  BY <1>1, <1>2, <1>3 DEF IInv

(* A step that leaves the session, the provers and the proofs alone, and   *)
(* takes no call out of the stored ones, keeps what is said of them.       *)
LEMMA SessionUntouched ==
  ASSUME IInv, UNCHANGED <<slot, mats, proofs, mine>>,
         \A k \in Calls : phase[k] \in Stored => phase'[k] \in Stored
  PROVE  Coherent' /\ ProvedAtMostOnce' /\ OwnMaterialsStay' /\ OnePlace'
<1>1. Coherent'
  <2>1. slot # None => slot.request \in Calls
    BY DEF IInv, TypeOK, Materials
  <2>2. \A c \in Callers : mats[c] # None => mats[c].request \in Calls
    BY DEF IInv, TypeOK, Materials
  <2> QED
    BY <2>1, <2>2 DEF IInv, Coherent, CoherentMaterials
<1> QED
  BY <1>1 DEF IInv, ProvedAtMostOnce, OwnMaterialsStay, OnePlace

LEMMA CallStepIInv ==
  ASSUME IInv, NEW c \in Callers,
         Send(c) \/ Reject(c) \/ ConnectRelay(c) \/ Handshake(c) \/ Receive(c)
           \/ Fail(c) \/ Decode(c)
  PROVE  /\ IInv'
         /\ UNCHANGED <<slot, mats, proofs, mine>>
         /\ \A k \in Calls : phase[k] \in Stored <=> phase'[k] \in Stored
<1>1. UNCHANGED <<slot, mats, proofs, mine>>
  BY DEF Send, Reject, ConnectRelay, Handshake, Receive, Fail, Decode
<1>2. \A k \in Calls : phase[k] \in Stored <=> phase'[k] \in Stored
  BY DEF IInv, TypeOK, Stored, Send, Reject, ConnectRelay, Handshake, Receive, Fail, Decode,
         At, GoTo
<1>3. Coherent' /\ ProvedAtMostOnce' /\ OwnMaterialsStay' /\ OnePlace'
  BY <1>1, <1>2, SessionUntouched
<1>4. doing[c] # None => doing[c] \in Calls
  BY DEF IInv, TypeOK
<1>5. \A k \in Calls : proofs'[k] > 0 => phase'[k] \in Stored
  BY <1>1, <1>2 DEF IInv, CallsOK
<1>6. CASE Send(c)
  <2>1. TypeOK'
    BY <1>6 DEF IInv, TypeOK, Send, GoTo, Phases
  <2>2. CallsOK'
    BY <1>5, <1>6 DEF IInv, TypeOK, CallsOK, Send, GoTo
  <2> QED
    BY <1>1, <1>2, <1>3, <2>1, <2>2 DEF IInv
<1>7. CASE Reject(c)
  <2>1. TypeOK'
    BY <1>7 DEF IInv, TypeOK, Reject, GoTo, Phases
  <2>2. CallsOK'
    BY <1>5, <1>7 DEF IInv, TypeOK, CallsOK, Reject, GoTo
  <2> QED
    BY <1>1, <1>2, <1>3, <2>1, <2>2 DEF IInv
<1>8. CASE ConnectRelay(c)
  <2>1. TypeOK'
    BY <1>4, <1>8 DEF IInv, TypeOK, ConnectRelay, At, GoTo, Phases
  <2>2. CallsOK'
    BY <1>4, <1>5, <1>8 DEF IInv, TypeOK, CallsOK, ConnectRelay, At, GoTo
  <2> QED
    BY <1>1, <1>2, <1>3, <2>1, <2>2 DEF IInv
<1>9. CASE Handshake(c)
  <2>1. keylog[doing[c]] = <<>> /\ doing[c] \in Calls
    BY <1>4, <1>9 DEF IInv, CallsOK, Handshake, At
  <2>2. Append(keylog[doing[c]], doing[c]) = <<doing[c]>>
    BY <2>1
  <2>3. keylog' = [keylog EXCEPT ![doing[c]] = <<doing[c]>>]
    BY <2>2, <1>9 DEF Handshake
  <2>4. TypeOK'
    <3>1. <<doing[c]>> \in Seq(Calls)
      BY <2>1
    <3> QED
      BY <2>1, <2>3, <3>1, <1>9 DEF IInv, TypeOK, Handshake, At, GoTo, Phases
  <2>5. CallsOK'
    BY <2>1, <2>3, <1>5, <1>9 DEF IInv, TypeOK, CallsOK, Handshake, At, GoTo
  <2> QED
    BY <1>1, <1>2, <1>3, <2>4, <2>5 DEF IInv
<1>10. CASE Receive(c)
  <2>1. TypeOK'
    BY <1>4, <1>10 DEF IInv, TypeOK, Receive, At, GoTo, Phases
  <2>2. CallsOK'
    BY <1>4, <1>5, <1>10 DEF IInv, TypeOK, CallsOK, Receive, At, GoTo
  <2> QED
    BY <1>1, <1>2, <1>3, <2>1, <2>2 DEF IInv
<1>11. CASE Fail(c)
  <2>1. TypeOK'
    BY <1>4, <1>11 DEF IInv, TypeOK, Fail, At, GoTo, Return, Phases
  <2>2. CallsOK'
    BY <1>4, <1>5, <1>11 DEF IInv, TypeOK, CallsOK, Fail, At, GoTo
  <2> QED
    BY <1>1, <1>2, <1>3, <2>1, <2>2 DEF IInv
<1>12. CASE Decode(c)
  <2>1. TypeOK'
    BY <1>4, <1>12 DEF IInv, TypeOK, Decode, At, GoTo, Return, Phases, Stored
  <2>2. CallsOK'
    BY <1>4, <1>5, <1>12 DEF IInv, TypeOK, CallsOK, Decode, At, GoTo
  <2> QED
    BY <1>1, <1>2, <1>3, <2>1, <2>2 DEF IInv
<1> QED
  BY <1>6, <1>7, <1>8, <1>9, <1>10, <1>11, <1>12

LEMMA StoreIInv ==
  ASSUME IInv, NEW c \in Callers, Store(c)
  PROVE  IInv'
<1> DEFINE k == doing[c]
           m == [request |-> k, response |-> k, keylog |-> keylog[k]]
<1>1. k \in Calls /\ phase[k] = "received" /\ keylog[k] = <<k>>
  BY DEF IInv, TypeOK, CallsOK, Store, At
<1>2. slot' = m /\ phase' = [phase EXCEPT ![k] = "stored"]
  BY DEF Store, GoTo
<1>3. m \in Materials /\ m # None
  <2>1. keylog[k] \in Seq(Calls)
    BY <1>1 DEF IInv, TypeOK
  <2>2. m \in Materials
    BY <2>1, <1>1 DEF Materials
  <2> QED
    BY <2>2, NoneAssumption
<1>4. proofs[k] = 0
  <2>1. proofs[k] \in Nat
    BY <1>1 DEF IInv, TypeOK
  <2>2. ~(proofs[k] > 0)
    BY <1>1 DEF IInv, CallsOK, Stored
  <2> QED
    BY <2>1, <2>2
<1>5. TypeOK'
  <2>1. mine' \in [Callers -> Calls \cup {None}]
    BY <1>1 DEF IInv, TypeOK, Store
  <2>2. keylog' \in [Calls -> Seq(Calls)]
    <3>1. <<>> \in Seq(Calls) /\ keylog \in [Calls -> Seq(Calls)]
      BY DEF IInv, TypeOK
    <3>2. keylog' = [keylog EXCEPT ![k] = <<>>]
      BY DEF Store
    <3> QED
      BY <3>1, <3>2
  <2>3. phase' \in [Calls -> Phases]
    BY <1>2 DEF IInv, TypeOK, Phases, Stored
  <2> QED
    BY <1>2, <1>3, <2>1, <2>2, <2>3 DEF IInv, TypeOK, Store
<1>6. Coherent'
  <2>1. CoherentMaterials(slot)'
    BY <1>1, <1>2 DEF IInv, TypeOK, CoherentMaterials, Stored
  <2>2. ASSUME NEW d \in Callers PROVE CoherentMaterials(mats[d])'
    <3>1. mats[d] # None => mats[d].request \in Calls
      BY DEF IInv, TypeOK, Materials
    <3> QED
      BY <3>1, <1>1, <1>2 DEF IInv, TypeOK, Coherent, CoherentMaterials, Stored, Store
  <2> QED
    BY <2>1, <2>2 DEF Coherent
<1>7. OnePlace'
  <2>1. \A d \in Callers : mats[d] # None => mats[d].request # k
    BY <1>1 DEF IInv, Coherent, CoherentMaterials, Stored
  <2> QED
    BY <2>1, <1>2, <1>3, <1>4 DEF IInv, OnePlace, Store
<1>8. CallsOK'
  BY <1>1, <1>2 DEF IInv, TypeOK, CallsOK, Store, Stored
<1>9. OwnMaterialsStay' /\ ProvedAtMostOnce'
  BY <1>2, <1>3 DEF IInv, OwnMaterialsStay, ProvedAtMostOnce, Store
<1> QED
  BY <1>5, <1>6, <1>7, <1>8, <1>9 DEF IInv

LEMMA TakeIInv ==
  ASSUME IInv, NEW c \in Callers, Take(c)
  PROVE  IInv'
<1>1. slot # None /\ slot \in Materials /\ mats' = [mats EXCEPT ![c] = slot] /\ slot' = None
  BY DEF IInv, TypeOK, Take
<1>2. TypeOK'
  BY <1>1 DEF IInv, TypeOK, Take
<1>3. Coherent' /\ OnePlace'
  BY <1>1 DEF IInv, TypeOK, Coherent, CoherentMaterials, OnePlace, Take
<1> QED
  BY <1>2, <1>3 DEF IInv, CallsOK, OwnMaterialsStay, ProvedAtMostOnce, Take

LEMMA ProveOkIInv ==
  ASSUME IInv, NEW c \in Callers, ProveOk(c)
  PROVE  IInv'
<1> DEFINE k == mats[c].request
<1>1. mats[c] # None /\ k \in Calls /\ proofs[k] = 0 /\ phase[k] \in Stored
  BY DEF IInv, TypeOK, Coherent, CoherentMaterials, Materials, OnePlace, ProveOk
<1>2. proofs' = [proofs EXCEPT ![k] = 1] /\ mats' = [mats EXCEPT ![c] = None]
  BY <1>1 DEF ProveOk
<1>3. TypeOK'
  BY <1>1, <1>2 DEF IInv, TypeOK, ProveOk
<1>4. Coherent'
  BY <1>2 DEF IInv, TypeOK, Coherent, CoherentMaterials, ProveOk
<1>5. OnePlace'
  <2>1. slot # None => slot.request # k
    BY <1>1 DEF IInv, OnePlace
  <2>2. \A d \in Callers : d # c /\ mats[d] # None => mats[d].request # k
    BY <1>1 DEF IInv, OnePlace
  <2>3. slot # None => slot.request \in Calls
    BY DEF IInv, TypeOK, Materials
  <2>4. \A d \in Callers : mats[d] # None => mats[d].request \in Calls
    BY DEF IInv, TypeOK, Materials
  <2> QED
    BY <2>1, <2>2, <2>3, <2>4, <1>1, <1>2 DEF IInv, TypeOK, OnePlace, ProveOk
<1>6. ProvedAtMostOnce' /\ CallsOK'
  BY <1>1, <1>2 DEF IInv, TypeOK, ProvedAtMostOnce, CallsOK, ProveOk
<1> QED
  BY <1>3, <1>4, <1>5, <1>6 DEF IInv, OwnMaterialsStay, ProveOk

LEMMA ProveErrIInv ==
  ASSUME IInv, NEW c \in Callers, ProveErr(c)
  PROVE  IInv'
<1>1. mats' = [mats EXCEPT ![c] = None]
  BY DEF ProveErr
<1>2. TypeOK' /\ Coherent' /\ OnePlace'
  BY <1>1 DEF IInv, TypeOK, Coherent, CoherentMaterials, OnePlace, ProveErr
<1> QED
  BY <1>2 DEF IInv, CallsOK, OwnMaterialsStay, ProvedAtMostOnce, ProveErr

THEOREM Invariance == Spec => []IInv
<1>1. IInv /\ UNCHANGED vars => IInv'
  BY DEF vars, IInv, TypeOK, Coherent, CoherentMaterials, ProvedAtMostOnce, OwnMaterialsStay,
         OnePlace, CallsOK
<1>2. IInv /\ Next => IInv'
  BY CallStepIInv, StoreIInv, TakeIInv, ProveOkIInv, ProveErrIInv DEF Next
<1> QED
  BY <1>1, <1>2, InitIInv, PTL DEF Spec

-------------------------------------------------------------------------------

(* Every reachable state is well typed.                                    *)
THEOREM TypeCorrect == Spec => []TypeOK
<1>1. IInv => TypeOK
  BY DEF IInv
<1> QED
  BY <1>1, Invariance, PTL

(* Materials never mix calls.                                              *)
THEOREM Coherence == Spec => []Coherent
<1>1. IInv => Coherent
  BY DEF IInv
<1> QED
  BY <1>1, Invariance, PTL

(* No call is proved twice.                                                *)
THEOREM AtMostOnce == Spec => []ProvedAtMostOnce
<1>1. IInv => ProvedAtMostOnce
  BY DEF IInv
<1> QED
  BY <1>1, Invariance, PTL

(* A caller's materials stay until another caller stores or takes.         *)
THEOREM OwnStay == Spec => []OwnMaterialsStay
<1>1. IInv => OwnMaterialsStay
  BY DEF IInv
<1> QED
  BY <1>1, Invariance, PTL

-------------------------------------------------------------------------------

Bar == [k \in Calls |-> LifeOf(k)]

LEMMA CallStepStutters ==
  ASSUME UNCHANGED <<slot, mats, proofs>>,
         \A k \in Calls : phase[k] \in Stored <=> phase'[k] \in Stored
  PROVE  UNCHANGED Bar
<1>1. ASSUME NEW k \in Calls PROVE LifeOf(k)' = LifeOf(k)
  <2>1. CASE phase[k] \in Stored
    BY <2>1 DEF LifeOf
  <2>2. CASE phase[k] \notin Stored
    BY <2>2 DEF LifeOf
  <2> QED
    BY <2>1, <2>2
<1> QED
  BY <1>1 DEF Bar

LEMMA StoreHolds ==
  ASSUME IInv, NEW c \in Callers, Store(c), NEW k \in Calls, k = doing[c]
  PROVE  Lifecycle!Hold(k)
<1>1. phase[k] = "received"
  BY DEF Store, At
<1>2. slot' # None /\ slot'.request = k
  <2>1. mine'[c] = k /\ k # None
    BY NoneAssumption DEF Store
  <2> QED
    BY <2>1, StoreIInv DEF IInv, OwnMaterialsStay
<1>3. phase' = [phase EXCEPT ![k] = "stored"] /\ UNCHANGED <<mats, proofs>>
  BY DEF Store, GoTo
<1>4. /\ phase[k] \notin Stored /\ proofs[k] = 0
      /\ slot # None => slot.request # k
      /\ \A d \in Callers : mats[d] # None => mats[d].request # k
  <2>1. phase[k] \notin Stored
    BY <1>1 DEF Stored
  <2>2. ~(proofs[k] > 0) /\ proofs[k] \in Nat
    BY <1>1, <2>1 DEF IInv, TypeOK, CallsOK
  <2> QED
    BY <2>1, <2>2 DEF IInv, Coherent, CoherentMaterials
<1>5. LifeOf(k) = "none"
  BY <1>4 DEF LifeOf
<1>6. LifeOf(k)' = "held"
  BY <1>2, <1>3, <1>4 DEF LifeOf
<1>7. ASSUME NEW j \in Calls, j # k
      PROVE  LifeOf(j)' = IF LifeOf(j) = "held" THEN "lost" ELSE LifeOf(j)
  <2>1. phase'[j] = phase[j]
    BY <1>3, <1>7 DEF IInv, TypeOK
  <2>2. CASE slot # None /\ slot.request = j
    <3>1. proofs[j] = 0 /\ phase[j] \in Stored
      BY <2>2 DEF IInv, OnePlace, Coherent, CoherentMaterials
    <3>2. ~\E d \in Callers : mats[d] # None /\ mats[d].request = j
      BY <2>2 DEF IInv, OnePlace
    <3>3. LifeOf(j) = "held"
      BY <2>2, <3>1 DEF LifeOf
    <3>4. LifeOf(j)' = "lost"
      BY <1>2, <1>3, <1>7, <2>1, <3>1, <3>2 DEF LifeOf
    <3> QED
      BY <3>3, <3>4
  <2>3. CASE ~(slot # None /\ slot.request = j)
    BY <1>2, <1>3, <1>7, <2>1, <2>3 DEF LifeOf
  <2> QED
    BY <2>2, <2>3
<1> QED
  BY <1>1, <1>5, <1>6, <1>7 DEF Lifecycle!Hold

LEMMA TakeMoves ==
  ASSUME IInv, NEW c \in Callers, Take(c), NEW k \in Calls, k = slot.request
  PROVE  Lifecycle!Move(k, "held", "taken")
<1>1. slot # None /\ proofs[k] = 0
  BY DEF IInv, OnePlace, Take
<1>2. slot' = None /\ mats[c] = None /\ mats' = [mats EXCEPT ![c] = slot]
  BY DEF Take, Idle
<1>3. UNCHANGED <<phase, proofs>>
  BY DEF Take
<1>4. mats'[c] = slot /\ \A d \in Callers : d # c => mats'[d] = mats[d]
  BY <1>2 DEF IInv, TypeOK
<1>5. LifeOf(k) = "held" /\ LifeOf(k)' = "taken"
  BY <1>1, <1>2, <1>3, <1>4 DEF LifeOf
<1>6. ASSUME NEW j \in Calls, j # k PROVE LifeOf(j)' = LifeOf(j)
  <2>1. (\E d \in Callers : mats[d] # None /\ mats[d].request = j)
          <=> (\E d \in Callers : mats'[d] # None /\ mats'[d].request = j)
    BY <1>2, <1>4, <1>6
  <2> QED
    BY <1>2, <1>3, <1>6, <2>1 DEF LifeOf
<1> QED
  BY <1>1, <1>5, <1>6 DEF Lifecycle!Move

LEMMA ProveMoves ==
  ASSUME IInv, NEW c \in Callers, ProveOk(c) \/ ProveErr(c),
         NEW k \in Calls, k = mats[c].request
  PROVE  Lifecycle!Move(k, "taken", "proved") \/ Lifecycle!Move(k, "taken", "lost")
<1>1. /\ mats[c] # None /\ proofs[k] = 0 /\ phase[k] \in Stored
      /\ slot # None => slot.request # k
  BY DEF IInv, Coherent, CoherentMaterials, OnePlace, ProveOk, ProveErr
<1>2. mats' = [mats EXCEPT ![c] = None] /\ UNCHANGED <<phase, slot>>
  BY DEF ProveOk, ProveErr
<1>3. mats'[c] = None /\ \A d \in Callers : d # c => mats'[d] = mats[d]
  BY <1>2 DEF IInv, TypeOK
<1>4. LifeOf(k) = "taken"
  BY <1>1 DEF LifeOf
<1>5. \A j \in Calls : j # k =>
        ((\E d \in Callers : mats[d] # None /\ mats[d].request = j)
           <=> (\E d \in Callers : mats'[d] # None /\ mats'[d].request = j))
  BY <1>3
<1>6. CASE ProveOk(c)
  <2>1. proofs' = [proofs EXCEPT ![k] = 1]
    <3>1. proofs' = [proofs EXCEPT ![k] = proofs[k] + 1]
      BY <1>6 DEF ProveOk
    <3> QED
      BY <3>1, <1>1
  <2>2. proofs'[k] = 1 /\ \A j \in Calls : j # k => proofs'[j] = proofs[j]
    BY <2>1, <1>1 DEF IInv, TypeOK
  <2>3. LifeOf(k)' = "proved"
    <3>1. proofs'[k] > 0
      BY <2>2
    <3> QED
      BY <3>1 DEF LifeOf
  <2>4. \A j \in Calls : j # k => LifeOf(j)' = LifeOf(j)
    BY <1>2, <1>5, <2>2 DEF LifeOf
  <2> QED
    BY <1>1, <1>4, <2>3, <2>4 DEF Lifecycle!Move
<1>7. CASE ProveErr(c)
  <2>1. proofs' = proofs
    BY <1>7 DEF ProveErr
  <2>2. ~\E d \in Callers : mats'[d] # None /\ mats'[d].request = k
    BY <1>1, <1>3 DEF IInv, OnePlace
  <2>3. LifeOf(k)' = "lost"
    BY <1>1, <1>2, <2>1, <2>2 DEF LifeOf
  <2>4. \A j \in Calls : j # k => LifeOf(j)' = LifeOf(j)
    BY <1>2, <1>5, <2>1 DEF LifeOf
  <2> QED
    BY <1>1, <1>4, <2>3, <2>4 DEF Lifecycle!Move
<1> QED
  BY <1>6, <1>7

(* The session implements the abstract life of materials: every step is a  *)
(* step of MaterialsLifecycle or leaves it alone.                          *)
THEOREM Implements == Spec => FollowsLifecycle
<1>1. Init => Lifecycle!Init
  <2> SUFFICES ASSUME Init, NEW k \in Calls PROVE LifeOf(k) = "none"
    BY DEF Lifecycle!Init
  <2> QED
    BY DEF Init, LifeOf, Stored
<1>2. IInv /\ [Next]_vars => [Lifecycle!Next]_Bar
  <2> SUFFICES ASSUME IInv, [Next]_vars PROVE Lifecycle!Next \/ UNCHANGED Bar
    OBVIOUS
  <2>1. CASE UNCHANGED vars
    BY <2>1, CallStepStutters DEF vars
  <2>2. ASSUME NEW c \in Callers,
               Send(c) \/ Reject(c) \/ ConnectRelay(c) \/ Handshake(c) \/ Receive(c)
                 \/ Fail(c) \/ Decode(c)
        PROVE  UNCHANGED Bar
    BY <2>2, CallStepIInv, CallStepStutters
  <2>3. ASSUME NEW c \in Callers, Store(c) PROVE Lifecycle!Next
    <3>1. doing[c] \in Calls
      BY <2>3 DEF IInv, TypeOK, Store, At
    <3> QED
      BY <2>3, <3>1, StoreHolds DEF Lifecycle!Next
  <2>4. ASSUME NEW c \in Callers, Take(c) PROVE Lifecycle!Next
    <3>1. slot.request \in Calls
      BY <2>4 DEF IInv, TypeOK, Materials, Take
    <3> QED
      BY <2>4, <3>1, TakeMoves DEF Lifecycle!Next
  <2>5. ASSUME NEW c \in Callers, ProveOk(c) \/ ProveErr(c) PROVE Lifecycle!Next
    <3>1. mats[c].request \in Calls
      BY <2>5 DEF IInv, TypeOK, Materials, ProveOk, ProveErr
    <3> QED
      BY <2>5, <3>1, ProveMoves DEF Lifecycle!Next
  <2> QED
    BY <2>1, <2>2, <2>3, <2>4, <2>5 DEF Next
<1> QED
  BY <1>1, <1>2, Invariance, PTL DEF Spec, FollowsLifecycle, Lifecycle!Spec, Bar

===============================================================================
