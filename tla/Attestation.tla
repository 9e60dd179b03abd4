----------------------------- MODULE Attestation -----------------------------
(***************************************************************************)
(* What ties a proof to the relay: the ciphertext the proxy commits to     *)
(* (TlsForward) and the ciphertext `prove` of client/src/prove.rs makes    *)
(* again from the request and the traffic secret, hands to the circuit of  *)
(* prover/src/build_cs.rs and commits to.                                  *)
(*                                                                         *)
(* A byte of ciphertext is a cell: the keystream byte it was combined      *)
(* with, named by the cipher, the key, the record's sequence number (the   *)
(* nonce), the block counter and the position in the block, and the byte   *)
(* of plaintext, named by its position in the request.  Combining a cell   *)
(* with its own keystream byte gives the plaintext back, any other does    *)
(* not: that two keystreams agree in a byte by chance is left out.  A      *)
(* commitment is the sequence of cells it is computed from.  The request   *)
(* is one the circuit's template fits; RequestTemplate says which are.     *)
(*                                                                         *)
(* The suite is whatever client and target negotiate: client/proxy.rs asks *)
(* for TLS 1.3 and for no suite of it, and `prove` seals with ChaCha20     *)
(* whichever it was.                                                       *)
(*                                                                         *)
(* TlsForward says which records the proxy has the ciphertext of; here the *)
(* buffers of `forward` hold the ciphertext itself.                        *)
(***************************************************************************)
EXTENDS Integers, Sequences, SequencesExt

CONSTANTS
  Requests,     \* a request, as the positions in it where rustls ends a record
  HelloLen,     \* length of the ClientHello record
  SegmentEnds, BufLen   \* as in TlsForward

BlockLen == 64       \* a ChaCha20 block
MaxFragment == 16384 \* the most a TLS record carries
AeadFirstBlock == 1  \* block 0 of a record's keystream is its Poly1305 key
InnerType == 0       \* stands for the content type that ends a TLS 1.3 plaintext
AuthTag == [tag |-> "poly1305"]

\* what of request q lies before its j-th record, and in it
Before(q, j) == IF j = 1 THEN 0 ELSE q[j - 1]
FragmentLen(q, j) == q[j] - Before(q, j)
RequestLen(q) == q[Len(q)]

ASSUME RequestsAssumption ==
  \A q \in Requests :
    /\ q \in Seq(Nat) /\ Len(q) > 0
    /\ \A i, j \in 1 .. Len(q) : i < j => q[i] < q[j]
    /\ \A j \in 1 .. Len(q) : FragmentLen(q, j) \in 1 .. MaxFragment
ASSUME HelloAssumption == HelloLen \in 1 .. MaxFragment
ASSUME ReadsAssumption == SegmentEnds \subseteq Nat /\ BufLen \in Nat \ {0}

VARIABLES
  request,  \* where the request's records end; never changes
  suite,    \* the one negotiated; never changes
  outcome,  \* "none", or what prove made of the request
  stream, pc, received, base, offset, out, cipher, attested, sent, mixed,  \* TlsForward's
  outBytes, cipherBytes, attestedBytes  \* what out, cipher and attested stand for

proxyVars == <<stream, pc, received, base, offset, out, cipher, attested, sent, mixed>>
byteVars == <<outBytes, cipherBytes, attestedBytes>>
vars == <<request, suite, outcome, proxyVars, byteVars>>

-------------------------------------------------------------------------------
(* The client's TLS stack.                                                 *)

\* the TLS 1.3 suites of rustls' ring provider, by their ciphers
Suites == {"chacha20", "aes128", "aes256"}

\* SHA-384 goes with AES-256-GCM, SHA-256 with the others
HashLen(s) == IF s = "aes256" THEN 48 ELSE 32

\* type(1), length(3), the MAC; with SHA-256, sealed behind the content type
\* and with the tag, it is the 53 of tls.rs:20
FinishedLen(s) == 4 + HashLen(s)

\* behind ClientHello, the change_cipher_spec of compatibility mode, Finished
FirstApp == 4

StreamOf(q, s) ==
  LET n == FirstApp - 1 + Len(q)
      hello == 5 + HelloLen
      spec == hello + 5 + 1
      finished == spec + 5 + FinishedLen(s) + 1 + 16
  IN [n |-> n,
      typ |-> [i \in 1 .. n |-> IF i = 1 THEN 22 ELSE IF i = 2 THEN 20 ELSE 23],
      end |-> [i \in 0 .. n |->
        IF i = 0 THEN 0 ELSE IF i = 1 THEN hello ELSE IF i = 2 THEN spec
        ELSE IF i = 3 THEN finished
        ELSE finished + q[i - 3] + (i - 3) * (5 + 1 + 16)],
      app |-> FirstApp .. n]

Proxy == INSTANCE TlsForward WITH Streams <- {StreamOf(q, s) : q \in Requests, s \in Suites}

(* The k-th byte of a record.  The blocks are ChaCha20's; of the keystream *)
(* of an AES suite all that matters here is that it is another one.        *)
Sealed(alg, key, seq, k, p) ==
  [alg |-> alg, key |-> key, nonce |-> seq,
   block |-> AeadFirstBlock + (k - 1) \div BlockLen, at |-> (k - 1) % BlockLen,
   plain |-> p]

Cell == [alg : Suites, key : {"handshake", "traffic"}, nonce : Nat, block : Nat,
         at : 0 .. BlockLen - 1, plain : Nat]

(* Byte k of the payload of record i: a sealed byte of the plaintext, the  *)
(* content type, or the tag.                                               *)
PayloadByte(i, k) ==
  LET j == i - FirstApp + 1
      n == Proxy!PayloadLen(stream, i) - 16
  IN IF k > n THEN AuthTag
     ELSE IF i < FirstApp THEN Sealed(suite, "handshake", 0, k, InnerType)
     ELSE Sealed(suite, "traffic", j - 1, k,
                 IF k = n THEN InnerType ELSE Before(request, j) + k)

\* the record that has byte k of the request
RecordOf(k) == CHOOSE j \in 1 .. Len(request) : Before(request, j) < k /\ k <= request[j]

(* The bytes of the request as TLS sealed them, without what ends records. *)
TlsCipher ==
  [k \in 1 .. RequestLen(request) |->
     PayloadByte(FirstApp - 1 + RecordOf(k), k - Before(request, RecordOf(k)))]

-------------------------------------------------------------------------------
(* Faults a change of this code could introduce; none is part of Next.     *)

\* the tag stays on
RecordCipherWithTag(i) ==
  [k \in 1 .. Proxy!PayloadLen(stream, i) |-> PayloadByte(i, k)]
\* a record's header is taken for one byte longer than it is
RecordCipherLate(i) ==
  [k \in 1 .. Proxy!PayloadLen(stream, i) - Proxy!TagLen - 1 |-> PayloadByte(i, k + 1)]
\* the nonce of the first record after the handshake's
SeqOne == 1
\* a secret of any length is taken for the 32 bytes
ProveAnySecret ==
  /\ outcome = "none"
  /\ sent >= stream.end[1]
  /\ outcome' = "proved"
  /\ UNCHANGED <<request, suite, proxyVars, byteVars>>
\* prove on materials stored before the request is out
ProveEarly ==
  /\ outcome = "none"
  /\ outcome' = "proved"
  /\ UNCHANGED <<request, suite, proxyVars, byteVars>>

-------------------------------------------------------------------------------
(* What the drain takes of a record.                                       *)
RecordCipher(i) ==
  [k \in 1 .. Proxy!PayloadLen(stream, i) - Proxy!TagLen |-> PayloadByte(i, k)]

(* encrypt_with_chacha20: the whole request as one record of sequence      *)
(* number `seq`, without a content type; the tag is thrown away.  The      *)
(* suite is a constant of prove.rs, not the connection's.                  *)
ProveSeq == 0
ProveCipher ==
  [k \in 1 .. RequestLen(request) |-> Sealed("chacha20", "traffic", ProveSeq, k, k)]

(* ChaCha20Var: each chunk of BlockLen bytes takes the next block, from    *)
(* `count`, under the nonce encrypt_with_chacha20 returned.                *)
Count == 1
CircuitText(text) ==
  [k \in 1 .. Len(text) |->
     IF /\ text[k].alg = "chacha20" /\ text[k].key = "traffic"
        /\ text[k].nonce = ProveSeq
        /\ text[k].block = Count + (k - 1) \div BlockLen
        /\ text[k].at = (k - 1) % BlockLen
     THEN text[k].plain ELSE -1]

Plaintext == [k \in 1 .. RequestLen(request) |-> k]

(* The template is compared with the decrypted bytes: for a request it     *)
(* fits, the constraints hold if these are the request's.                  *)
CircuitSatisfied == CircuitText(ProveCipher) = Plaintext

-------------------------------------------------------------------------------
Init ==
  /\ request \in Requests /\ suite \in Suites
  /\ outcome = "none"
  /\ Proxy!Init
  /\ stream = StreamOf(request, suite)
  /\ outBytes = <<>> /\ cipherBytes = <<>> /\ attestedBytes = <<>>

(* The client sends nothing behind its ClientHello before the target has   *)
(* it and answers; Finished and the request follow each other freely.      *)
Read ==
  /\ Proxy!Read
  /\ received' > stream.end[1] => sent >= stream.end[1]
  /\ outBytes' = <<>>
  /\ UNCHANGED <<request, suite, outcome, cipherBytes, attestedBytes>>

DrainRecord ==
  /\ Proxy!DrainRecord
  /\ outBytes' = IF Proxy!Selected(offset + 1)
                 THEN outBytes \o RecordCipher(offset + 1) ELSE outBytes
  /\ UNCHANGED <<request, suite, outcome, cipherBytes, attestedBytes>>

DrainEnd ==
  /\ Proxy!DrainEnd
  /\ cipherBytes' = cipherBytes \o outBytes
  /\ attestedBytes' = IF outBytes # <<>> THEN cipherBytes' ELSE attestedBytes
  /\ UNCHANGED <<request, suite, outcome, outBytes>>

WriteOrStop ==
  /\ Proxy!Write \/ Proxy!IoError \/ Proxy!Eof
  /\ UNCHANGED <<request, suite, outcome, byteVars>>

(* prove, once execute has stored the materials: the target has answered.  *)
(* It cannot before it has the ClientHello, but it need not wait for the   *)
(* rest.  client_traffic_secret takes a secret of 32 bytes only.           *)
Prove ==
  /\ outcome = "none"
  /\ sent >= stream.end[1]
  /\ outcome' = IF HashLen(suite) # 32 THEN "error"
                ELSE IF CircuitSatisfied THEN "proved" ELSE "unsatisfied"
  /\ UNCHANGED <<request, suite, proxyVars, byteVars>>

Next == Read \/ DrainRecord \/ DrainEnd \/ WriteOrStop \/ Prove

Spec == Init /\ [][Next]_vars

-------------------------------------------------------------------------------

(* Every variable holds a value of its type: no byte of a tag gets into    *)
(* the committed buffers, and nothing is proved before the target has      *)
(* answered.                                                               *)
TypeOK ==
  /\ request \in Requests /\ suite \in Suites
  /\ outcome \in {"none", "proved", "unsatisfied", "error"}
  /\ stream = StreamOf(request, suite)
  /\ Proxy!TypeOK
  /\ outBytes \in Seq(Cell) /\ cipherBytes \in Seq(Cell) /\ attestedBytes \in Seq(Cell)
  /\ outcome # "none" => sent >= stream.end[1]

(* A request of the template is never refused by its own proof             *)
(* (prove.rs:136-147).  Of what TLS sealed this says that the circuit's    *)
(* keystream opens it too if and only if the suite is ChaCha20-Poly1305    *)
(* and the request went out in one record: cipher, key, nonce, first block *)
(* and block length are then the same in three pieces of code.  Otherwise  *)
(* the proof is accepted all the same, of a ciphertext nobody sent.        *)
CircuitSeesRequest ==
  outcome \in {"proved", "unsatisfied"} =>
    /\ outcome = "proved"
    /\ CircuitText(TlsCipher) = Plaintext <=> suite = "chacha20" /\ Len(request) = 1

(* Which requests the proof and the proxy agree on: the ciphertext prove   *)
(* commits to begins the stream under the proxy's last commitment if and   *)
(* only if ChaCha20-Poly1305 was negotiated, the request went out in one   *)
(* record and that record was the first the drain kept.                    *)
ProvedBeginsAttested ==
  outcome = "proved" =>
    (IsPrefix(ProveCipher, attestedBytes)
       <=> /\ suite = "chacha20" /\ Len(request) = 1
           /\ attested # <<>> /\ attested[1] = FirstApp)

(* End to end: with a request in one record, of a length the drain does    *)
(* not take for a Finished, and no pass that coalesced a Finished, what    *)
(* the proxy has attested when the target has the request is one byte      *)
(* longer than what prove commits to, for the content type TLS 1.3 seals   *)
(* behind the data.  With ChaCha20-Poly1305 that byte is the whole         *)
(* difference; with AES-128-GCM, which prove accepts as well, the two have *)
(* no byte in common.                                                      *)
AttestedIsProvedAndType ==
  outcome = "proved" /\ sent = stream.end[stream.n] /\ Len(request) = 1 /\ ~mixed
    /\ Proxy!Len8(stream, FirstApp) # Proxy!FinishedLowByte
  => /\ Len(attestedBytes) = Len(ProveCipher) + 1
     /\ IF suite = "chacha20" THEN IsPrefix(ProveCipher, attestedBytes)
        ELSE \A k \in 1 .. Len(ProveCipher) : ProveCipher[k] # attestedBytes[k]

(* The comment "from proxy" on the second public input (prove.rs:160): the *)
(* ciphertext prove commits to is the one the proxy's commitment is of, at *)
(* least under the suite prove assumes and for a request of one record     *)
(* that the drain spoiled nothing of and that the target has.              *)
PublicInputIsProxys ==
  /\ suite = "chacha20"
  /\ outcome = "proved" /\ sent = stream.end[stream.n] /\ Len(request) = 1
  /\ ~mixed /\ attested # <<>> /\ attested[1] = FirstApp
  => ProveCipher = attestedBytes

===============================================================================
