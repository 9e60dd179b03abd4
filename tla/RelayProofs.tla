------------------------------ MODULE RelayProofs ------------------------------
(* Proofs about Relay, for every finite set of connections, every number   *)
(* of pieces and every descriptor limit.                                   *)
EXTENDS Relay, TLAPS

(* How far each direction has come when the target or a task has moved on. *)
Progress == \A c \in Conns :
  /\ client[c] = "idle" => sentUp[c] = 0 /\ got[c] = 0 /\ hd[c] = "none"
  /\ client[c] = "request" => sentUp[c] < Req
  /\ sentDown[c] > 1 => toTarget[c] = Req
  /\ client[c] = "ok" => got[c] = Notify
  /\ got[c] = Notify => client[c] \in Closed
  /\ hd[c] = "none" => fwd[c] = "none"
  /\ hd[c] = "connect" => fwd[c] = "none"
  /\ hd[c] = "copy" => target[c] # "none" /\ fwd[c] # "none"
  /\ client[c] \in Talking => sentUp[c] > 0
  /\ client[c] = "hello" => got[c] = 0
  /\ client[c] = "reading" => sentUp[c] = Req

(* Why copy has ended on a connection whose tasks were started.            *)
CopyEnded == \A c \in Conns :
  hd[c] = "end" /\ fwd[c] # "none" =>
    \/ target[c] = "closed" /\ copied[c] = sentDown[c]
    \/ target[c] = "reset"
    \/ client[c] \in Closed

(* What forward's end and an error of the client say of the other side.    *)
Ends == \A c \in Conns :
  /\ fwd[c] = "end" /\ target[c] = "open" => client[c] \in Closed
  /\ client[c] = "err" => Hangup(c)

IInv == TypeOK /\ Progress /\ CopyEnded /\ Ends

-------------------------------------------------------------------------------

LEMMA InitIInv == Init => IInv
<1> SUFFICES ASSUME Init PROVE IInv
  OBVIOUS
<1>1. Notify \in Nat /\ Notify > 1 /\ Req \in Nat
  BY PiecesAssumption DEF Notify
<1>2. TypeOK
  BY <1>1 DEF Init, TypeOK
<1>3. Progress
  BY <1>1 DEF Init, Progress, Talking
<1> QED
  BY <1>2, <1>3 DEF Init, IInv, CopyEnded, Ends

LEMMA ClientStepIInv ==
  ASSUME IInv, NEW c \in Conns, Connect(c) \/ ClientStep(c) \/ ClientGone(c)
  PROVE  IInv'
<1>1. Notify \in Nat /\ Notify > 1 /\ Req \in Nat /\ Req > 0
  BY PiecesAssumption DEF Notify
<1>2. Ends'
  BY DEF IInv, TypeOK, Ends, Hangup, HoldsClient, Closed, Talking, Connect, ClientStep, ClientWrite,
         ClientWriteReady, ClientRead, ClientReadReady, ClientError, ClientErrorReady,
         ClientGone, fwdVars, hdVars, targetVars
<1>3. CASE Connect(c)
  <2>1. TypeOK'
    BY <1>1, <1>3 DEF IInv, TypeOK, Progress, Connect, Talking, Closed, fwdVars, hdVars, targetVars
  <2>2. Progress'
    BY <1>1, <1>3 DEF IInv, TypeOK, Progress, Connect, Talking, Closed, fwdVars, hdVars,
       targetVars
  <2>3. CopyEnded'
    BY <1>3 DEF IInv, TypeOK, CopyEnded, Connect, Closed, fwdVars, hdVars, targetVars
  <2> QED
    BY <1>2, <2>1, <2>2, <2>3 DEF IInv
<1>4. CASE ClientWrite(c)
  BY <1>1, <1>2, <1>4 DEF IInv, TypeOK, Progress, CopyEnded, ClientWrite, ClientWriteReady, Talking, Closed,
     fwdVars, hdVars, targetVars
<1>5. CASE ClientRead(c)
  BY <1>1, <1>2, <1>5 DEF IInv, TypeOK, Progress, CopyEnded, ClientRead, ClientReadReady, Talking, Closed,
     fwdVars, hdVars, targetVars
<1>6. CASE ClientError(c)
  BY <1>1, <1>2, <1>6 DEF IInv, TypeOK, Progress, CopyEnded, ClientError, ClientErrorReady, Talking, Closed,
     fwdVars, hdVars, targetVars
<1>7. CASE ClientGone(c)
  BY <1>1, <1>2, <1>7 DEF IInv, TypeOK, Progress, CopyEnded, ClientGone, Talking, Closed,
     fwdVars, hdVars, targetVars
<1> QED
  BY <1>3, <1>4, <1>5, <1>6, <1>7 DEF ClientStep

LEMMA HandlerStepIInv ==
  ASSUME IInv, NEW c \in Conns, Accept(c) \/ HandlerStep(c)
  PROVE  IInv'
<1>1. Notify \in Nat /\ Notify > 1 /\ Req \in Nat /\ Req > 0
  BY PiecesAssumption DEF Notify
<1>2. Ends'
  <2>1. CASE Accept(c)
    BY <2>1 DEF IInv, TypeOK, Progress, Ends, Hangup, HoldsClient, Accept, InBacklog,
       clientVars, fwdVars, targetVars
  <2>2. CASE ConnectTarget(c)
    BY <2>2 DEF IInv, TypeOK, Progress, Ends, Hangup, HoldsClient, ConnectTarget, clientVars
  <2>3. CASE ConnectTargetError(c)
    BY <2>3 DEF IInv, TypeOK, Progress, Ends, Hangup, HoldsClient, ConnectTargetError,
       clientVars, fwdVars, targetVars
  <2>4. CASE CopyPiece(c)
    BY <2>4 DEF IInv, TypeOK, Ends, Hangup, HoldsClient, CopyPiece, clientVars, fwdVars, targetVars
  <2>5. CASE CopyEnd(c)
    BY <2>5 DEF IInv, TypeOK, Ends, Hangup, HoldsClient, CopyEnd, clientVars, fwdVars, targetVars
  <2> QED
    BY <2>1, <2>2, <2>3, <2>4, <2>5 DEF HandlerStep
<1>3. CASE Accept(c)
  BY <1>1, <1>2, <1>3 DEF IInv, TypeOK, Progress, CopyEnded, Accept, InBacklog,
     clientVars, fwdVars, targetVars
<1>4. CASE ConnectTarget(c)
  BY <1>1, <1>2, <1>4 DEF IInv, TypeOK, Progress, CopyEnded, ConnectTarget, clientVars
<1>5. CASE ConnectTargetError(c)
  BY <1>1, <1>2, <1>5 DEF IInv, TypeOK, Progress, CopyEnded, ConnectTargetError,
     clientVars, fwdVars, targetVars
<1>6. CASE CopyPiece(c)
  BY <1>1, <1>2, <1>6 DEF IInv, TypeOK, Progress, CopyEnded, CopyPiece,
     clientVars, fwdVars, targetVars
<1>7. CASE CopyEnd(c)
  BY <1>1, <1>2, <1>7 DEF IInv, TypeOK, Progress, CopyEnded, CopyEnd, CopyEndReady,
     clientVars, fwdVars, targetVars
<1> QED
  BY <1>3, <1>4, <1>5, <1>6, <1>7 DEF HandlerStep

LEMMA ForwardStepIInv ==
  ASSUME IInv, NEW c \in Conns, ForwardStep(c)
  PROVE  IInv'
<1>1. Notify \in Nat /\ Notify > 1 /\ Req \in Nat /\ Req > 0
  BY PiecesAssumption DEF Notify
<1>2. Ends'
  BY DEF IInv, TypeOK, Ends, Hangup, HoldsClient, ForwardStep, FwdRead, FwdEnd, FwdEndReady,
         FwdWrite, clientVars, hdVars, targetVars
<1>3. CASE FwdRead(c)
  BY <1>1, <1>2, <1>3 DEF IInv, TypeOK, Progress, CopyEnded, FwdRead,
     clientVars, hdVars, targetVars
<1>4. CASE FwdEnd(c)
  BY <1>1, <1>2, <1>4 DEF IInv, TypeOK, Progress, CopyEnded, FwdEnd, FwdEndReady,
     clientVars, hdVars, targetVars
<1>5. CASE FwdWrite(c)
  BY <1>1, <1>2, <1>5 DEF IInv, TypeOK, Progress, CopyEnded, FwdWrite,
     clientVars, hdVars, targetVars
<1> QED
  BY <1>3, <1>4, <1>5 DEF ForwardStep

LEMMA TargetStepIInv ==
  ASSUME IInv, NEW c \in Conns, TargetSend(c) \/ TargetClose(c) \/ TargetReset(c)
  PROVE  IInv'
<1>1. Notify \in Nat /\ Notify > 1 /\ Req \in Nat /\ Req > 0
  BY PiecesAssumption DEF Notify
<1>2. Ends'
  BY DEF IInv, TypeOK, Ends, Hangup, HoldsClient, TargetSend, TargetClose, TargetReset,
         clientVars, fwdVars, hdVars
<1>3. CASE TargetSend(c)
  BY <1>1, <1>2, <1>3 DEF IInv, TypeOK, Progress, CopyEnded, TargetSend, TargetSendReady, Awaited,
     clientVars, fwdVars, hdVars
<1>4. CASE TargetClose(c)
  BY <1>1, <1>2, <1>4 DEF IInv, TypeOK, Progress, CopyEnded, TargetClose,
     clientVars, fwdVars, hdVars
<1>5. CASE TargetReset(c)
  BY <1>1, <1>2, <1>5 DEF IInv, TypeOK, Progress, CopyEnded, TargetReset,
     clientVars, fwdVars, hdVars
<1> QED
  BY <1>3, <1>4, <1>5

LEMMA AcceptErrorIInv ==
  ASSUME IInv, NEW c \in Conns, AcceptError(c)
  PROVE  IInv'
<1>1. Ends'
  BY DEF IInv, Ends, Hangup, AcceptError, clientVars, fwdVars, hdVars, targetVars
<1> QED
  BY <1>1 DEF IInv, TypeOK, Progress, CopyEnded, AcceptError,
     clientVars, fwdVars, hdVars, targetVars

THEOREM Invariance == Spec => []IInv
<1>1. IInv /\ UNCHANGED vars => IInv'
  BY DEF vars, clientVars, fwdVars, hdVars, targetVars, IInv, TypeOK, Progress, CopyEnded,
         Ends, Hangup, HoldsClient
<1>2. IInv /\ Next => IInv'
  BY ClientStepIInv, HandlerStepIInv, ForwardStepIInv, TargetStepIInv, AcceptErrorIInv
     DEF Next, AcceptStep
<1> QED
  BY <1>1, <1>2, InitIInv, PTL DEF Spec

-------------------------------------------------------------------------------

(* Every reachable state is well typed, and in each direction a piece is   *)
(* read only after it was written.                                         *)
THEOREM TypeCorrect == Spec => []TypeOK
<1>1. IInv => TypeOK
  BY DEF IInv
<1> QED
  BY <1>1, Invariance, PTL

(* A client's Ok means the whole response to the whole request.            *)
THEOREM OkComplete == Spec => []OkIsComplete
<1>1. IInv => OkIsComplete
  <2> SUFFICES ASSUME IInv, NEW c \in Conns, client[c] = "ok"
               PROVE  /\ got[c] = Notify /\ sentDown[c] = Notify
                      /\ sentUp[c] = Req /\ toTarget[c] = Req
    BY DEF OkIsComplete
  <2>1. Notify \in Nat /\ Notify > 1 /\ Req \in Nat
    BY PiecesAssumption DEF Notify
  <2>2. got[c] = Notify
    BY DEF IInv, Progress
  <2>3. sentDown[c] = Notify
    BY <2>1, <2>2 DEF IInv, TypeOK
  <2>4. toTarget[c] = Req
    BY <2>1, <2>3 DEF IInv, Progress
  <2>5. sentUp[c] = Req
    BY <2>1, <2>4 DEF IInv, TypeOK
  <2> QED
    BY <2>2, <2>3, <2>4, <2>5
<1> QED
  BY <1>1, Invariance, PTL

(* The client and `forward` wait for each other only when the target left  *)
(* without close_notify.                                                   *)
THEOREM MutualWait == Spec => []MutualWaitOnlyIfTruncated
<1>1. IInv => MutualWaitOnlyIfTruncated
  <2> SUFFICES ASSUME IInv, NEW c \in Conns, WaitingForEachOther(c), target[c] # "reset"
               PROVE  target[c] = "closed" /\ sentDown[c] < Notify
    BY DEF MutualWaitOnlyIfTruncated
  <2>1. Notify \in Nat
    BY PiecesAssumption DEF Notify
  <2>2. client[c] \notin Closed /\ hd[c] = "end" /\ fwd[c] # "none" /\ got[c] = copied[c]
    BY DEF WaitingForEachOther, Closed
  <2>3. target[c] = "closed" /\ copied[c] = sentDown[c]
    BY <2>2 DEF IInv, CopyEnded
  <2>4. got[c] # Notify
    BY <2>2 DEF IInv, Progress
  <2>5. sentDown[c] \in 0 .. Notify
    BY DEF IInv, TypeOK
  <2> QED
    BY <2>1, <2>2, <2>3, <2>4, <2>5
<1> QED
  BY <1>1, Invariance, PTL

(* A call under way and a connection the proxy holds never come to a stop  *)
(* of their own: someone can go on, or it is one of the two mutual waits   *)
(* (main.rs:19-22, 43-57, 91).                                             *)
THEOREM OnlyTwoWedges == Spec => []TwoWedgesOnly
<1>1. IInv => TwoWedgesOnly
  <2> SUFFICES ASSUME IInv, NEW c \in Conns, HoldsClient(c) \/ client[c] \in Talking,
                      ~ClientReady(c), ~AcceptReady(c), ~HandlerReady(c), ~ForwardReady(c),
                      ~TargetReady(c)
               PROVE  WaitingForEachOther(c) \/ AbandonedMidRequest(c)
    BY DEF TwoWedgesOnly
  <2>1. /\ Req \in Nat /\ Notify \in Nat
        /\ toTarget[c] \in Nat /\ sentUp[c] \in Nat /\ toTarget[c] <= sentUp[c]
        /\ got[c] \in Nat /\ copied[c] \in Nat /\ sentDown[c] \in Nat
        /\ got[c] <= copied[c] /\ copied[c] <= sentDown[c] /\ sentDown[c] <= Notify
    BY PiecesAssumption DEF IInv, TypeOK, Notify
  <2>2. HoldsClient(c)
    <3> SUFFICES ASSUME ~HoldsClient(c), client[c] \in Talking PROVE FALSE
      OBVIOUS
    <3>1. relay = "up" => hd[c] = "end"
      BY DEF AcceptReady, InBacklog, HoldsClient, IInv, TypeOK, Progress
    <3>2. Hangup(c)
      BY <3>1 DEF Hangup, IInv, TypeOK
    <3>3. client[c] \in {"hello", "reading"} /\ got[c] < copied[c]
      BY <2>1, <3>2 DEF ClientReady, ClientErrorReady, Talking
    <3> QED
      BY <3>3 DEF ClientReady, ClientReadReady
  <2>3. relay = "up" /\ hd[c] # "connect"
    BY <2>2 DEF HoldsClient, HandlerReady
  <2>4. client[c] # "err" /\ client[c] # "request"
    BY <2>2, <2>3 DEF IInv, Ends, Hangup, Progress, ClientReady, ClientWriteReady
  <2>5. client[c] \in {"hello", "reading"} => got[c] = copied[c]
    BY <2>1 DEF ClientReady, ClientReadReady
  <2>6. fwd[c] = "read" => toTarget[c] = sentUp[c] /\ client[c] \notin Closed
    BY <2>1, <2>3 DEF ForwardReady, FwdEndReady
  <2>7. fwd[c] = "read" => client[c] \in {"hello", "reading"}
    BY <2>2, <2>4, <2>6 DEF IInv, TypeOK, Progress, Talking
  <2>8. fwd[c] \in {"read", "end", "none"}
    BY <2>3 DEF ForwardReady, IInv, TypeOK
  <2>9. CASE hd[c] # "copy"
    <3>1. fwd[c] = "read" /\ hd[c] = "end"
      BY <2>2, <2>3, <2>8, <2>9 DEF HoldsClient, IInv, TypeOK, Progress
    <3> QED
      BY <2>3, <2>5, <2>6, <2>7, <3>1 DEF WaitingForEachOther
  <2>10. CASE hd[c] = "copy"
    <3>1. copied[c] = sentDown[c] /\ target[c] = "open"
      <4>1. copied[c] = sentDown[c] /\ ~CopyEndReady(c)
        BY <2>1, <2>3, <2>10 DEF HandlerReady
      <4> QED
        BY <2>10, <4>1 DEF CopyEndReady, IInv, TypeOK, Progress
    <3>2. sentDown[c] < Notify /\ toTarget[c] < Awaited(c)
      <4>1. Awaited(c) \in Nat
        BY <2>1 DEF Awaited
      <4> QED
        BY <2>1, <3>1, <4>1 DEF TargetReady, TargetSendReady
    <3>3. fwd[c] # "read"
      <4> SUFFICES ASSUME fwd[c] = "read" PROVE FALSE
        OBVIOUS
      <4>1. toTarget[c] = sentUp[c] /\ got[c] = sentDown[c] /\ sentUp[c] > 0
        BY <2>5, <2>6, <2>7, <3>1 DEF IInv, Progress, Talking
      <4>2. client[c] = "hello" => sentDown[c] = 0
        BY <4>1 DEF IInv, Progress
      <4>3. client[c] = "reading" => sentUp[c] = Req
        BY DEF IInv, Progress
      <4> QED
        BY <2>1, <2>7, <3>2, <4>1, <4>2, <4>3 DEF Awaited
    <3>4. fwd[c] = "end"
      BY <2>8, <2>10, <3>3 DEF IInv, Progress
    <3>5. client[c] # "ok"
      BY <2>1, <3>2 DEF IInv, Progress
    <3>6. client[c] = "gone"
      BY <2>4, <3>1, <3>4, <3>5 DEF IInv, Ends, Closed
    <3> QED
      BY <2>3, <2>10, <3>1, <3>2, <3>4, <3>6 DEF AbandonedMidRequest
  <2> QED
    BY <2>9, <2>10
<1> QED
  BY <1>1, Invariance, PTL

===============================================================================
