-------------------------------- MODULE Relay --------------------------------
(***************************************************************************)
(* The life of the connections of the proxy: `main` and `handle_client` of *)
(* proxy/src/main.rs, its two tasks per connection (`forward` from client  *)
(* to target, tokio's `copy` from target to client), the client at one end *)
(* (`execute` of client/src/client/mod.rs) and the target server at the    *)
(* other.  What `forward` computes is in TlsForward; here a piece of the   *)
(* stream is just a piece.                                                 *)
(*                                                                         *)
(* The client sends piece 1 (its hello), waits for the target's piece 1,   *)
(* sends pieces 2..Req and reads up to the TLS close_notify, which is the  *)
(* target's piece Resp + 1.  tokio::io::split shares each socket between   *)
(* the two tasks, so it is closed only when both of them have ended.       *)
(***************************************************************************)
EXTENDS Integers, FiniteSets

CONSTANTS
  Conns,    \* the connections clients may open
  Req,      \* pieces a client sends
  Resp,     \* pieces a target sends before close_notify
  FdLimit   \* sockets the proxy process may hold for its connections

ASSUME ConnsAssumption == IsFiniteSet(Conns)
ASSUME PiecesAssumption == Req \in Nat \ {0} /\ Resp \in Nat \ {0}
ASSUME FdAssumption == FdLimit \in Nat

VARIABLES
  relay,    \* "up", or "down" once main has returned an error
  client,   \* where `execute` is
  sentUp,   \* pieces the client has written
  got,      \* target pieces the client has read
  fwd,      \* where `forward` is
  toTarget, \* pieces `forward` has written to the target
  hd,       \* where `handle_client` is
  copied,   \* target pieces `copy` has written to the client
  target,   \* the target's end of its connection
  sentDown  \* pieces the target has written

clientVars == <<client, sentUp, got>>
fwdVars == <<fwd, toTarget>>
hdVars == <<hd, copied>>
targetVars == <<target, sentDown>>
vars == <<relay, clientVars, fwdVars, hdVars, targetVars>>

Notify == Resp + 1

Talking == {"hello", "request", "reading"}   \* execute is at work
Closed == {"ok", "err", "gone"}              \* execute has returned or was dropped

Init ==
  /\ relay = "up"
  /\ client = [c \in Conns |-> "idle"]
  /\ sentUp = [c \in Conns |-> 0]
  /\ got = [c \in Conns |-> 0]
  /\ fwd = [c \in Conns |-> "none"]
  /\ toTarget = [c \in Conns |-> 0]
  /\ hd = [c \in Conns |-> "none"]
  /\ copied = [c \in Conns |-> 0]
  /\ target = [c \in Conns |-> "none"]
  /\ sentDown = [c \in Conns |-> 0]

(* The sockets the proxy holds: the client's from accept until both tasks  *)
(* have dropped their halves, the target's from connect likewise.          *)
HoldsClient(c) == relay = "up" /\ (hd[c] \in {"connect", "copy"} \/ fwd[c] \in {"read", "write"})
HoldsTarget(c) == relay = "up" /\ (hd[c] = "copy" \/ fwd[c] \in {"read", "write"})
Used == Cardinality({c \in Conns : HoldsClient(c)}) + Cardinality({c \in Conns : HoldsTarget(c)})

(* What the client's socket sees of the proxy's end.                       *)
Hangup(c) == relay = "down" \/ (hd[c] = "end" /\ ~HoldsClient(c))

(* In the listener's backlog, not yet accepted.                            *)
InBacklog(c) == hd[c] = "none" /\ sentUp[c] > 0

-------------------------------------------------------------------------------
(* Faults a change of this code could introduce; none is part of Next.     *)

\* the read loop goes on after close_notify, until the connection closes
ClientReadToEof(c) ==
  /\ client[c] \in {"hello", "reading"} /\ got[c] < copied[c]
  /\ got' = [got EXCEPT ![c] = @ + 1]
  /\ client' = [client EXCEPT ![c] =
       IF client[c] = "hello" /\ sentUp[c] < Req THEN "request" ELSE "reading"]
  /\ UNCHANGED <<relay, sentUp, fwdVars, hdVars, targetVars>>

\* a missing close_notify is taken for the end of the response
ClientErrorAsEnd(c) ==
  /\ client[c] \in Talking /\ Hangup(c)
  /\ client[c] = "request" \/ got[c] = copied[c] \/ toTarget[c] < sentUp[c]
  /\ client' = [client EXCEPT ![c] = IF client[c] = "reading" THEN "ok" ELSE "err"]
  /\ UNCHANGED <<relay, sentUp, got, fwdVars, hdVars, targetVars>>

\* an end without close_notify is read over and the read tried again
ClientErrorReadyRetried(c) ==
  /\ client[c] \in Talking /\ Hangup(c)
  /\ client[c] = "request" \/ toTarget[c] < sentUp[c]

\* copy stops at the target's close, before it has written what it read
CopyEndReadyEarly(c) ==
  \/ target[c] \in {"closed", "reset"}
  \/ client[c] \in Closed /\ copied[c] < sentDown[c]

\* copy does not return at the end of its input
CopyEndReadyOnError(c) ==
  target[c] = "reset" \/ (client[c] \in Closed /\ copied[c] < sentDown[c])

\* the buffer of the last read is written again
FwdReadAgain(c) ==
  /\ relay = "up" /\ fwd[c] = "read" /\ sentUp[c] > 0 /\ toTarget[c] < Req
  /\ fwd' = [fwd EXCEPT ![c] = "write"]
  /\ UNCHANGED <<relay, clientVars, toTarget, hdVars, targetVars>>

\* n == 0 does not break the loop
FwdEndReadyMissed(c) == client[c] \in Closed /\ got[c] < copied[c]

-------------------------------------------------------------------------------
(* execute, client/src/client/mod.rs                                       *)

(* TcpStream::connect: into the listener's backlog, or refused.            *)
Connect(c) ==
  /\ client[c] = "idle"
  /\ IF relay = "up"
     THEN client' = [client EXCEPT ![c] = "hello"] /\ sentUp' = [sentUp EXCEPT ![c] = 1]
     ELSE client' = [client EXCEPT ![c] = "err"] /\ UNCHANGED sentUp
  /\ UNCHANGED <<relay, got, fwdVars, hdVars, targetVars>>

(* write_all of the padded request, after the handshake.                   *)
ClientWriteReady(c) == client[c] = "request" /\ sentUp[c] < Req

ClientWrite(c) ==
  /\ ClientWriteReady(c)
  /\ sentUp' = [sentUp EXCEPT ![c] = @ + 1]
  /\ client' = [client EXCEPT ![c] = IF sentUp[c] + 1 = Req THEN "reading" ELSE "request"]
  /\ UNCHANGED <<relay, got, fwdVars, hdVars, targetVars>>

(* The handshake's answer completes connect; after that the read loop      *)
(* takes every piece, and the close_notify makes read return 0.            *)
ClientReadReady(c) == client[c] \in {"hello", "reading"} /\ got[c] < copied[c]

ClientRead(c) ==
  /\ ClientReadReady(c)
  /\ got' = [got EXCEPT ![c] = @ + 1]
  /\ client' = [client EXCEPT ![c] =
       IF got[c] + 1 = Notify THEN "ok"
       ELSE IF client[c] = "hello" /\ sentUp[c] < Req THEN "request" ELSE "reading"]
  /\ UNCHANGED <<relay, sentUp, fwdVars, hdVars, targetVars>>

(* EOF without close_notify, or a reset: the `?` of a read or a write.  A  *)
(* proxy that closes with unread bytes of the client resets, and what it   *)
(* had copied may be lost.                                                 *)
ClientErrorReady(c) ==
  /\ client[c] \in Talking
  /\ Hangup(c)
  /\ client[c] = "request" \/ got[c] = copied[c] \/ toTarget[c] < sentUp[c]

ClientError(c) ==
  /\ ClientErrorReady(c)
  /\ client' = [client EXCEPT ![c] = "err"]
  /\ UNCHANGED <<relay, sentUp, got, fwdVars, hdVars, targetVars>>

(* The caller drops the future (a timeout, a cancelled task): the socket   *)
(* closes without a word.                                                  *)
ClientGone(c) ==
  /\ client[c] \in Talking
  /\ client' = [client EXCEPT ![c] = "gone"]
  /\ UNCHANGED <<relay, sentUp, got, fwdVars, hdVars, targetVars>>

-------------------------------------------------------------------------------
(* main and handle_client, proxy/src/main.rs                               *)

(* listener.accept() hands the connection to a new task.                   *)
Accept(c) ==
  /\ relay = "up" /\ InBacklog(c) /\ Used < FdLimit
  /\ hd' = [hd EXCEPT ![c] = "connect"]
  /\ UNCHANGED <<relay, clientVars, fwdVars, copied, targetVars>>

(* Whatever error accept has - no descriptor for the new socket, no        *)
(* memory, a connection aborted in the backlog - its `?` ends main, and    *)
(* the process takes every connection with it.                             *)
AcceptError(c) ==
  /\ relay = "up" /\ InBacklog(c)
  /\ relay' = "down"
  /\ UNCHANGED <<clientVars, fwdVars, hdVars, targetVars>>

(* TcpStream::connect(addr) succeeds: split both sockets, spawn forward,   *)
(* run copy.                                                               *)
ConnectTarget(c) ==
  /\ relay = "up" /\ hd[c] = "connect" /\ Used < FdLimit
  /\ target' = [target EXCEPT ![c] = "open"]
  /\ fwd' = [fwd EXCEPT ![c] = "read"]
  /\ hd' = [hd EXCEPT ![c] = "copy"]
  /\ UNCHANGED <<relay, clientVars, toTarget, copied, sentDown>>

(* It fails, for want of a descriptor or of an answer: the client's socket *)
(* is dropped.                                                             *)
ConnectTargetError(c) ==
  /\ relay = "up" /\ hd[c] = "connect"
  /\ hd' = [hd EXCEPT ![c] = "end"]
  /\ UNCHANGED <<relay, clientVars, fwdVars, copied, targetVars>>

(* One read and one write of copy.  A write to a client that has closed    *)
(* may still be taken by the kernel.                                       *)
CopyPiece(c) ==
  /\ relay = "up" /\ hd[c] = "copy"
  /\ copied[c] < sentDown[c]
  /\ copied' = [copied EXCEPT ![c] = @ + 1]
  /\ UNCHANGED <<relay, clientVars, fwdVars, hd, targetVars>>

(* copy returns: the target closed and all it sent is written, the target  *)
(* reset, or a write to a closed client failed.  Only copy's halves of the *)
(* sockets are dropped; nothing shuts the client's socket down.            *)
CopyEndReady(c) ==
  \/ target[c] = "closed" /\ copied[c] = sentDown[c]
  \/ target[c] = "reset"
  \/ client[c] \in Closed /\ copied[c] < sentDown[c]

CopyEnd(c) ==
  /\ relay = "up" /\ hd[c] = "copy" /\ CopyEndReady(c)
  /\ hd' = [hd EXCEPT ![c] = "end"]
  /\ UNCHANGED <<relay, clientVars, fwdVars, copied, targetVars>>

(* forward: a read that returns bytes ...                                  *)
FwdRead(c) ==
  /\ relay = "up" /\ fwd[c] = "read"
  /\ toTarget[c] < sentUp[c]
  /\ fwd' = [fwd EXCEPT ![c] = "write"]
  /\ UNCHANGED <<relay, clientVars, toTarget, hdVars, targetVars>>

(* ... one that returns 0, or the error of a client that closed with       *)
(* unread bytes ...                                                        *)
FwdEndReady(c) ==
  client[c] \in Closed /\ (toTarget[c] = sentUp[c] \/ got[c] < copied[c])

FwdEnd(c) ==
  /\ relay = "up" /\ fwd[c] = "read" /\ FwdEndReady(c)
  /\ fwd' = [fwd EXCEPT ![c] = "end"]
  /\ UNCHANGED <<relay, clientVars, toTarget, hdVars, targetVars>>

(* ... and write_all, which fails only when the target has closed.         *)
FwdWrite(c) ==
  /\ relay = "up" /\ fwd[c] = "write"
  /\ \/ /\ fwd' = [fwd EXCEPT ![c] = "read"]
        /\ toTarget' = [toTarget EXCEPT ![c] = @ + 1]
     \/ /\ target[c] # "open"
        /\ fwd' = [fwd EXCEPT ![c] = "end"]
        /\ UNCHANGED toTarget
  /\ UNCHANGED <<relay, clientVars, hdVars, targetVars>>

-------------------------------------------------------------------------------
(* The target server (external): answers the hello, then the whole request *)
(* and says close_notify; it may close or reset at any time.               *)
Awaited(c) == IF sentDown[c] = 0 THEN 1 ELSE Req

TargetSendReady(c) ==
  target[c] = "open" /\ sentDown[c] < Notify /\ toTarget[c] >= Awaited(c)

TargetSend(c) ==
  /\ TargetSendReady(c)
  /\ sentDown' = [sentDown EXCEPT ![c] = @ + 1]
  /\ UNCHANGED <<relay, clientVars, fwdVars, hdVars, target>>

TargetClose(c) ==
  /\ target[c] = "open"
  /\ target' = [target EXCEPT ![c] = "closed"]
  /\ UNCHANGED <<relay, clientVars, fwdVars, hdVars, sentDown>>

TargetReset(c) ==
  /\ target[c] = "open"
  /\ target' = [target EXCEPT ![c] = "reset"]
  /\ UNCHANGED <<relay, clientVars, fwdVars, hdVars, sentDown>>

-------------------------------------------------------------------------------

ClientStep(c) == ClientWrite(c) \/ ClientRead(c) \/ ClientError(c)
HandlerStep(c) == ConnectTarget(c) \/ ConnectTargetError(c) \/ CopyPiece(c) \/ CopyEnd(c)
ForwardStep(c) == FwdRead(c) \/ FwdEnd(c) \/ FwdWrite(c)
AcceptStep(c) == Accept(c) \/ AcceptError(c)

Next == \E c \in Conns :
  \/ Connect(c) \/ ClientStep(c) \/ ClientGone(c)
  \/ AcceptStep(c) \/ HandlerStep(c) \/ ForwardStep(c)
  \/ TargetSend(c) \/ TargetClose(c) \/ TargetReset(c)

(* tokio polls every task whose socket is ready, and so does the client's  *)
(* runtime.  Of the target it is assumed only that it closes a connection  *)
(* on which it has said close_notify (every request says Connection:       *)
(* close); callers need not give up and targets need not answer.           *)
Fairness == \A c \in Conns :
  /\ WF_vars(ClientStep(c))
  /\ WF_vars(AcceptStep(c))
  /\ WF_vars(HandlerStep(c))
  /\ WF_vars(ForwardStep(c))
  /\ WF_vars(sentDown[c] = Notify /\ TargetClose(c))

Spec == Init /\ [][Next]_vars
FairSpec == Spec /\ Fairness

-------------------------------------------------------------------------------

(* Every variable holds a value of its type; a piece is read after it was  *)
(* copied, copied after it was sent, and so in the other direction.        *)
TypeOK ==
  /\ relay \in {"up", "down"}
  /\ client \in [Conns -> {"idle"} \cup Talking \cup Closed]
  /\ fwd \in [Conns -> {"none", "read", "write", "end"}]
  /\ hd \in [Conns -> {"none", "connect", "copy", "end"}]
  /\ target \in [Conns -> {"none", "open", "closed", "reset"}]
  /\ sentUp \in [Conns -> 0 .. Req]
  /\ toTarget \in [Conns -> 0 .. Req]
  /\ sentDown \in [Conns -> 0 .. Notify]
  /\ copied \in [Conns -> 0 .. Notify]
  /\ got \in [Conns -> 0 .. Notify]
  /\ \A c \in Conns :
       /\ toTarget[c] + (IF fwd[c] = "write" THEN 1 ELSE 0) <= sentUp[c]
       /\ got[c] <= copied[c] /\ copied[c] <= sentDown[c]

(* execute returns Ok only with the whole response to the whole request:   *)
(* a target or proxy that goes away in the middle is never taken for the   *)
(* end of the response (mod.rs:105-111; rustls reports a missing           *)
(* close_notify as an error).                                              *)
OkIsComplete == \A c \in Conns :
  client[c] = "ok" =>
    /\ got[c] = Notify /\ sentDown[c] = Notify
    /\ sentUp[c] = Req /\ toTarget[c] = Req

(* The only way client and forward wait for each other for ever: copy has  *)
(* ended, forward waits for bytes of the client, and the client, which has *)
(* read everything, waits for a hang-up that forward's half of its socket  *)
(* withholds.  It takes a target that left without close_notify            *)
(* (main.rs:49-56).                                                        *)
WaitingForEachOther(c) ==
  /\ hd[c] = "end" /\ fwd[c] = "read" /\ relay = "up"
  /\ client[c] \in {"hello", "reading"}
  /\ toTarget[c] = sentUp[c] /\ got[c] = copied[c]

MutualWaitOnlyIfTruncated == \A c \in Conns :
  WaitingForEachOther(c) => target[c] = "reset" \/ (target[c] = "closed" /\ sentDown[c] < Notify)

(* The target and copy wait for each other: the client has left before the *)
(* target had what it needs to answer, forward has read the end of the     *)
(* client's stream and ended without shutting the target's socket down     *)
(* (main.rs:20-22, 43), and copy's half keeps that socket open.            *)
AbandonedMidRequest(c) ==
  /\ relay = "up" /\ hd[c] = "copy" /\ fwd[c] = "end"
  /\ client[c] = "gone" /\ target[c] = "open"
  /\ copied[c] = sentDown[c] /\ toTarget[c] < Awaited(c)

(* When each of them can take a step: the guards of their actions, which   *)
(* change something whenever they are taken; of the target, those of an    *)
(* answer and of the close behind it.                                      *)
ClientReady(c) == ClientWriteReady(c) \/ ClientReadReady(c) \/ ClientErrorReady(c)
AcceptReady(c) == relay = "up" /\ InBacklog(c)
HandlerReady(c) ==
  relay = "up" /\ \/ hd[c] = "connect"
                  \/ hd[c] = "copy" /\ (copied[c] < sentDown[c] \/ CopyEndReady(c))
ForwardReady(c) ==
  relay = "up" /\ \/ fwd[c] = "read" /\ (toTarget[c] < sentUp[c] \/ FwdEndReady(c))
                  \/ fwd[c] = "write"
TargetReady(c) ==
  TargetSendReady(c) \/ (target[c] = "open" /\ sentDown[c] = Notify)

(* There are two wedges and no other: a connection the proxy holds, or a   *)
(* call under way in the client, has a step before it - of the client, the *)
(* accept loop, one of the two tasks, or a target that has all it waits    *)
(* for - or client and forward wait for each other, or target and copy do. *)
(* No call is stuck behind a proxy that has died.                          *)
TwoWedgesOnly == \A c \in Conns :
  HoldsClient(c) \/ client[c] \in Talking =>
    \/ ClientReady(c) \/ AcceptReady(c) \/ HandlerReady(c) \/ ForwardReady(c)
    \/ TargetReady(c)
    \/ WaitingForEachOther(c)
    \/ AbandonedMidRequest(c)

(* An accept error takes the proxy down with every connection in flight,   *)
(* but no caller is left waiting: each call returns (main.rs:91,           *)
(* mod.rs:100-111).                                                        *)
CallsReturnWhenDown == \A c \in Conns :
  (relay = "down") ~> (client[c] \notin Talking)

(* A response that ends with close_notify reaches the caller, unless the   *)
(* caller gave up, the target reset or the proxy died.                     *)
ResponseDelivered == \A c \in Conns :
  (sentDown[c] = Notify) ~>
    (client[c] \in {"ok", "gone"} \/ target[c] = "reset" \/ relay = "down")

(* After close_notify both sockets of the connection are released, unless  *)
(* a reset of the target cuts the close_notify off.                        *)
ReleasedAfterNotify == \A c \in Conns :
  (sentDown[c] = Notify) ~> (~(HoldsClient(c) \/ HoldsTarget(c)) \/ target[c] = "reset")

(* Once the client and the target are both gone the sockets are released:  *)
(* each of the two tasks sees an end of its own.                           *)
ReleasedWhenBothGone == \A c \in Conns :
  (client[c] \in Closed /\ target[c] \in {"closed", "reset"}) ~>
    ~(HoldsClient(c) \/ HoldsTarget(c))

===============================================================================
