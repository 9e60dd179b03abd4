----------------------------- MODULE ProveSession -----------------------------
(***************************************************************************)
(* The session that the clones of one ZKClient share: `execute` and `send` *)
(* of client/src/client/mod.rs fill it, `prove` of client/src/prove.rs     *)
(* empties it.  Each caller owns a clone and does one thing at a time; the *)
(* callers run in parallel.  Of a request the model keeps which call made  *)
(* it and whether it fits the circuit's template; of a TLS connection,     *)
(* which cipher suite it negotiated.                                       *)
(***************************************************************************)
EXTENDS Integers, Sequences

CONSTANTS
  Callers,  \* the tasks that own a clone of the client
  Calls,    \* the calls they make, each at most once
  None      \* no call, no materials

(* ProveMaterials, by the calls its parts come from.                       *)
Materials == [request : Calls, response : Calls, keylog : Seq(Calls)]

ASSUME NoneAssumption == None \notin Calls /\ None \notin Materials

(* The TLS 1.3 suites of rustls, by the length of their traffic secret.    *)
Suites == {"chacha20", "aes128", "aes256"}
SecretLen(suite) == IF suite = "aes256" THEN 48 ELSE 32

VARIABLES
  phase,   \* how far each call has come
  suite,   \* the suite its connection negotiated
  fits,    \* does its request match the circuit's template?
  keylog,  \* its KeyLogVec: the calls whose client secret was logged to it
  slot,    \* session: Arc<Mutex<Option<ProveMaterials>>>
  doing,   \* the call each caller is executing
  mats,    \* the materials each caller has taken and is proving
  proofs,  \* how many proofs were made of each call
  mine     \* history: the call a caller stored last, until another caller
           \* stores or takes

vars == <<phase, suite, fits, keylog, slot, doing, mats, proofs, mine>>

(* Phases of a call whose materials have been stored.                      *)
Stored == {"stored", "ok", "badreply"}
Phases == {"unsent", "padded", "connected", "secured", "received", "failed"} \cup Stored

Init ==
  /\ phase = [k \in Calls |-> "unsent"]
  /\ suite = [k \in Calls |-> "chacha20"]
  /\ fits = [k \in Calls |-> TRUE]
  /\ keylog = [k \in Calls |-> <<>>]
  /\ slot = None
  /\ doing = [c \in Callers |-> None]
  /\ mats = [c \in Callers |-> None]
  /\ proofs = [k \in Calls |-> 0]
  /\ mine = [c \in Callers |-> None]

Idle(c) == doing[c] = None /\ mats[c] = None
At(c, p) == doing[c] # None /\ phase[doing[c]] = p
GoTo(k, p) == phase' = [phase EXCEPT ![k] = p]
Return(c) == doing' = [doing EXCEPT ![c] = None]

-------------------------------------------------------------------------------
(* Faults a change of this code could introduce; none is part of Next.     *)

\* one KeyLogVec for the client instead of one for each call
HandshakeSharedLog(c) ==
  /\ At(c, "connected")
  /\ GoTo(doing[c], "secured")
  /\ \E s \in Suites : suite' = [suite EXCEPT ![doing[c]] = s]
  /\ keylog' = [k \in Calls |-> Append(keylog[k], doing[c])]
  /\ UNCHANGED <<fits, slot, doing, mats, proofs, mine>>

\* a failed call empties the session
FailClears(c) ==
  /\ At(c, "padded") \/ At(c, "connected") \/ At(c, "secured")
  /\ GoTo(doing[c], "failed")
  /\ Return(c)
  /\ slot' = None
  /\ UNCHANGED <<suite, fits, keylog, mats, proofs, mine>>

\* the materials are stored before the response is read
StoreEarly(c) ==
  /\ At(c, "secured")
  /\ LET k == doing[c] IN
       /\ slot' = [request |-> k, response |-> None, keylog |-> keylog[k]]
       /\ keylog' = [keylog EXCEPT ![k] = <<>>]
       /\ GoTo(k, "stored")
       /\ mine' = [d \in Callers |-> IF d = c THEN k ELSE None]
  /\ UNCHANGED <<suite, fits, doing, mats, proofs>>

\* clone() for take()
TakeCopy(c) ==
  /\ Idle(c) /\ slot # None
  /\ mats' = [mats EXCEPT ![c] = slot]
  /\ mine' = [d \in Callers |-> None]
  /\ UNCHANGED <<phase, suite, fits, keylog, slot, doing, proofs>>

\* a failed prove puts its materials back
ProveErrPutsBack(c) ==
  /\ mats[c] # None
  /\ slot' = mats[c]
  /\ mats' = [mats EXCEPT ![c] = None]
  /\ UNCHANGED <<phase, suite, fits, keylog, doing, proofs, mine>>

-------------------------------------------------------------------------------
(* send and execute                                                        *)

(* encode_request and check_and_pad accept the request: its template fields *)
(* are right, their order and spelling on the wire may not be the circuit's.*)
Send(c) ==
  /\ Idle(c)
  /\ \E k \in Calls :
       /\ phase[k] = "unsent"
       /\ GoTo(k, "padded")
       /\ doing' = [doing EXCEPT ![c] = k]
       /\ \E b \in BOOLEAN : fits' = [fits EXCEPT ![k] = b]
  /\ UNCHANGED <<suite, keylog, slot, mats, proofs, mine>>

(* ... or reject it: execute returns before it has connected.              *)
Reject(c) ==
  /\ Idle(c)
  /\ \E k \in Calls : phase[k] = "unsent" /\ GoTo(k, "failed")
  /\ UNCHANGED <<suite, fits, keylog, slot, doing, mats, proofs, mine>>

(* TcpStream::connect to the relay; the call gets a KeyLogVec of its own.  *)
ConnectRelay(c) ==
  /\ At(c, "padded")
  /\ GoTo(doing[c], "connected")
  /\ keylog' = [keylog EXCEPT ![doing[c]] = <<>>]
  /\ UNCHANGED <<suite, fits, slot, doing, mats, proofs, mine>>

(* The TLS handshake logs its secrets to the connection's key log.         *)
Handshake(c) ==
  /\ At(c, "connected")
  /\ GoTo(doing[c], "secured")
  /\ \E s \in Suites : suite' = [suite EXCEPT ![doing[c]] = s]
  /\ keylog' = [keylog EXCEPT ![doing[c]] = Append(@, doing[c])]
  /\ UNCHANGED <<fits, slot, doing, mats, proofs, mine>>

(* write_all of the request and the read loop, up to read returning 0.     *)
Receive(c) ==
  /\ At(c, "secured")
  /\ GoTo(doing[c], "received")
  /\ UNCHANGED <<suite, fits, keylog, slot, doing, mats, proofs, mine>>

(* The `?` of any of the three, or the caller drops the future there.      *)
Fail(c) ==
  /\ At(c, "padded") \/ At(c, "connected") \/ At(c, "secured")
  /\ GoTo(doing[c], "failed")
  /\ Return(c)
  /\ UNCHANGED <<suite, fits, keylog, slot, mats, proofs, mine>>

(* The materials replace whatever the session held.                        *)
Store(c) ==
  /\ At(c, "received")
  /\ LET k == doing[c] IN
       /\ slot' = [request |-> k, response |-> k, keylog |-> keylog[k]]
       /\ keylog' = [keylog EXCEPT ![k] = <<>>]
       /\ GoTo(k, "stored")
       /\ mine' = [d \in Callers |-> IF d = c THEN k ELSE None]
  /\ UNCHANGED <<suite, fits, doing, mats, proofs>>

(* decode_response, after the store: send returns Ok or Err.               *)
Decode(c) ==
  /\ At(c, "stored")
  /\ GoTo(doing[c], "ok") \/ GoTo(doing[c], "badreply")
  /\ Return(c)
  /\ UNCHANGED <<suite, fits, keylog, slot, mats, proofs, mine>>

-------------------------------------------------------------------------------
(* prove.  On an empty session it returns Err and changes nothing.         *)

Take(c) ==
  /\ Idle(c)
  /\ slot # None
  /\ mats' = [mats EXCEPT ![c] = slot]
  /\ slot' = None
  /\ mine' = [d \in Callers |-> None]
  /\ UNCHANGED <<phase, suite, fits, keylog, doing, proofs>>

(* client_traffic_secret finds a secret of 32 bytes, and the circuit is    *)
(* satisfied by the request's header sections.                             *)
SecretUsable(m) == m.keylog # <<>> /\ SecretLen(suite[Head(m.keylog)]) = 32
Provable(m) == SecretUsable(m) /\ fits[m.request]

ProveOk(c) ==
  /\ mats[c] # None
  /\ Provable(mats[c])
  /\ proofs' = [proofs EXCEPT ![mats[c].request] = @ + 1]
  /\ mats' = [mats EXCEPT ![c] = None]
  /\ UNCHANGED <<phase, suite, fits, keylog, slot, doing, mine>>

(* A `?` or the bail: the materials are dropped with the error.            *)
ProveErr(c) ==
  /\ mats[c] # None
  /\ ~Provable(mats[c])
  /\ mats' = [mats EXCEPT ![c] = None]
  /\ UNCHANGED <<phase, suite, fits, keylog, slot, doing, proofs, mine>>

-------------------------------------------------------------------------------

Next == \E c \in Callers :
  \/ Send(c) \/ Reject(c) \/ ConnectRelay(c) \/ Handshake(c) \/ Receive(c)
  \/ Fail(c) \/ Store(c) \/ Decode(c)
  \/ Take(c) \/ ProveOk(c) \/ ProveErr(c)

Spec == Init /\ [][Next]_vars

-------------------------------------------------------------------------------

(* Every variable holds a value of its type.                               *)
TypeOK ==
  /\ phase \in [Calls -> Phases]
  /\ suite \in [Calls -> Suites]
  /\ fits \in [Calls -> BOOLEAN]
  /\ keylog \in [Calls -> Seq(Calls)]
  /\ slot \in Materials \cup {None}
  /\ doing \in [Callers -> Calls \cup {None}]
  /\ mats \in [Callers -> Materials \cup {None}]
  /\ proofs \in [Calls -> Nat]
  /\ mine \in [Callers -> Calls \cup {None}]

(* The request, the response and the TLS secret of materials are those of  *)
(* one call, however calls of other clones interleave: the proof decrypts  *)
(* the ciphertext of the request it is about (mod.rs:93-119).              *)
CoherentMaterials(m) ==
  m # None =>
    /\ m.response = m.request
    /\ m.keylog = <<m.request>>
    /\ phase[m.request] \in Stored

Coherent == CoherentMaterials(slot) /\ \A c \in Callers : CoherentMaterials(mats[c])

(* No call is proved twice, though every clone may call prove at any time. *)
ProvedAtMostOnce == \A k \in Calls : proofs[k] <= 1

(* A caller that stored materials finds them in the session until another  *)
(* caller stores or takes: calls that fail, wherever they fail, and calls  *)
(* under way leave the session alone.                                      *)
OwnMaterialsStay == \A c \in Callers :
  mine[c] # None => slot # None /\ slot.request = mine[c]

(* Where the materials of a call are.                                      *)
LifeOf(k) ==
  IF proofs[k] > 0 THEN "proved"
  ELSE IF slot # None /\ slot.request = k THEN "held"
  ELSE IF \E c \in Callers : mats[c] # None /\ mats[c].request = k THEN "taken"
  ELSE IF phase[k] \in Stored THEN "lost"
  ELSE "none"

Lifecycle == INSTANCE MaterialsLifecycle WITH life <- [k \in Calls |-> LifeOf(k)]

(* The session gives the materials of every call the life that             *)
(* MaterialsLifecycle describes.                                           *)
FollowsLifecycle == Lifecycle!Spec

===============================================================================
