# zkPrompt in TLA+

TLA+ models of zkPrompt, the TLC configurations that check them on small
instances, and TLAPS proofs of what holds for every value of their constants.
Source paths below are relative to the repository (`proxy/src/main.rs` and so
on); `PROJECT.json` maps every definition to the lines it models.

    tlc -workers 2 -config MCRelayTwo.cfg MCRelay      # one run
    tlapm RelayProofs.tla                              # the proofs of one module

## The system

A client (`ZKClient`) sends one chat request to a model provider over TLS 1.3
through a relay (`proxy`). The relay copies bytes in both directions and commits
to the application-data ciphertext it sees going up. The client pads the request
to a fixed shape, keeps what a proof needs, and later makes a Groth16 proof that
the ciphertext decrypts to a request of that shape whose prompt hashes to a
public commitment.

    caller --send--> encode_request -> check_and_pad (pad_body) -> execute
                                                                     | TLS over TCP
        proxy:  accept -> handle_client: forward (client -> target, drain, commit)
                                         copy    (target -> client)
                                                                     | TLS
                                                                  provider
    execute --stores--> session (one slot, shared by all clones)
    prove   --takes---> session -> seal again -> circuit -> prove/verify -> assert

### Inventory

| component | state | operations | talks to | hard behaviour | correct when |
|---|---|---|---|---|---|
| record drain and forwarding, `proxy/src/tls.rs`, `main.rs:13-44` | `pending`, `cipher_stream`, the chunk | read, drain, commit, write | client and target sockets | records split over reads and coalesced in them, partial writes, errors between commit and write | committed before forwarded; ciphertext in wire order, once; nothing held back; the committed stream is the application data |
| relay connections, `proxy/src/main.rs:46-97` | two split sockets and two tasks per connection, the accept loop | accept, connect, copy, end of either task | listener, client, target | halves of a socket owned by two tasks; ends, resets and give-ups in any order; an end of file that is not passed on; any error of accept ends the relay | complete responses arrive, sockets are released, what can stand still for ever is known, every call returns when the relay dies |
| client and its session, `client/src/client/mod.rs`, `prove.rs` | `Arc<Mutex<Option<ProveMaterials>>>`, one key log per call | `send`, `execute`, `prove` from any clone | relay; caller | clones interleave; a slot read and emptied by others; errors after the store, errors after the take | materials are of one call, proved at most once, lost only for a stated reason |
| body padding, `prover/src/openai/wire.rs:203-257` | scan position, `escaped` | `pad_body` | `check_and_pad` | runs of backslashes, quotes, unterminated strings, exact lengths | spaces go before the closing quote of the user's message and nothing else changes |
| request template, `client/src/utils.rs`, `wire.rs`, `openai/req/mod.rs` | the header lines, the body | `encode_request`, `check_and_pad`, `rebuild_request`, `ReqVar` | circuit, target | three places decide on the same bytes: the encoder, the validator, the circuit | what is accepted can be proved; the wire says its own length; the prompt region is the body |
| proof pipeline, `client/src/prove.rs`, `build_cs.rs`, `chacha20/mod.rs` | none of its own | seal again, count blocks, compare | session, proxy's printed commitment | the negotiated suite, nonces, block counters, record boundaries, the content type | it is known for which connections and requests the circuit decrypts what TLS sealed and how the two ciphertext commitments are related |
| commitment, `commitment.rs`, `mimc/` | Feistel halves | pack bits, absorb | proxy, `prove`, circuit | two programs for one function, 250-bit chunks of 8-bit bytes | native and circuit agree; packing and rounds lose nothing unstated |
| ChaCha20 gadget, `chacha20/mod.rs`, `round.rs`, `quarter_round.rs` | sixteen words, the words being mixed, the output | quarter rounds in place, feed-forward, next counter | circuit | 32-bit arithmetic, a counter over chunks, a short last chunk | the output is RFC 8439's after every chunk; no quarter round loses anything |
| response decoding, `client/src/utils.rs` | - | `decode_response` | `send` | fails after the store | `Err` leaves a stated session |
| multipart and streaming, `mod.rs:150-178` | - | passed to a plain HTTP client | - | none here | - |
| example, `example/src/main.rs` | - | one `send`, one `prove` | - | none | - |

The hazards - what is hard to test here, at its line, and the properties that
would catch it - are the list `hazards` of `PROJECT.json`.

## Modules

| module | models | composes | runs | proofs |
|---|---|---|---|---|
| `AttestedRelay` | abstract: what a relay that attests to a client's data promises | | | |
| `TlsForward` | `forward`, `drain_application_data` | refines `AttestedRelay` | `MCTlsForward` | `TlsForwardProofs` |
| `Relay` | `main`, `handle_client`, `execute` and the target at the ends | | `MCRelay` | `RelayProofs` |
| `MaterialsLifecycle` | abstract: what a session promises of each call's materials | | | |
| `ProveSession` | clones calling `send` and `prove` | refines `MaterialsLifecycle` | `MCProveSession` | `ProveSessionProofs` |
| `PadBody` | `pad_body`, `user_content_pad_position` | | `MCPadBody` | `PadBodyProofs` |
| `RequestTemplate` | from a caller's headers to the outcome of `prove` | uses `PadBody`'s outcome | `MCRequestTemplate` | `RequestTemplateProofs` |
| `Attestation` | the ciphertext of the relay and the ciphertext of `prove` | `INSTANCE TlsForward` | `MCAttestation` | `AttestationProofs` |
| `Commitment` | bit packing and MiMC, native and circuit | | `MCCommitment` | `CommitmentProofs` |
| `ChaCha20` | the cipher of the circuit, on 32-bit words | | `MCChaCha20` | `ChaCha20Proofs` |

In every module some operators under the heading "Faults" restate an action the
way a plausible bug would write it. They are not part of `Next`; the mutants of
`PROJECT.json` put them in the place of the action, and TLC then finds the
property that guards it violated.

### TlsForward and AttestedRelay

Byte positions are counted from the start of the connection. A record is a type
and a length; record i lies between `end[i-1]` and `end[i]`. `pending` is
`end[base] .. received-1`, the drain's `offset` and `out` are records, `sent` is
what `write_all` has written. One action per statement of the loop: `Read`,
`DrainRecord` (one turn of the `while`), `DrainEnd` (the end of the drain,
`cipher_stream.extend` and the printed commitment), `Write` (one write of
`write_all`), `Eof`, `IoError`. `Selected` keeps the code's test as it is: the
type of the record at `offset`, the length byte of the record at the front of
`pending`. A commitment is the value of `cipher_stream` it is computed from.

`AttestedRelay` knows nothing of buffers, reads or lengths: records are taken in
order, some of them are attested to in order, and a record is delivered only
after it was taken. `Promise` in `TlsForward` is the mapping: `taken` is `base`,
the records the drain is done with, `log` is the stream under the last
commitment, `delivered` the records that lie before `sent`. The end of a drain
is an `Attest` (a stutter, if it took nothing), a write is a `Deliver`, and all
else a stutter. Which records the log must have is `ExactUnlessMixed`.

### Relay

A connection is a client (`execute`, which may be dropped at any await), the
handler task with `copy`, the task `forward`, and a target that may close or
reset at any time. A piece of stream is just a piece; the close_notify is the
last piece of the response. `tokio::io::split` shares a socket between the two
tasks, so `HoldsClient` is true until both have ended - nothing in the code
shuts a socket down, and the end of a client's stream is passed to the target
only when both have. `AcceptError` is the `?` of `main.rs:91`: on any error of
`accept` - no descriptor, no memory, a connection that was aborted in the
backlog - `main` returns and takes every connection with it, so it may happen
whenever a client is waiting to be accepted. A target that has all it waits for
(`Awaited`) may answer at any time or never.

### ProveSession and MaterialsLifecycle

Callers own clones; a call goes through the phases of `execute` and may fail at
each `?`. `Store` replaces the slot before `Decode` decides what `send` returns.
`Take` empties the slot before the steps of `prove` that may fail. Calls
negotiate a cipher suite, whose secret has 32 or 48 bytes. The panics of `prove`
(a slice out of range, the `assert!` on verification) count as failed proofs
here; `RequestTemplate` tells them apart. `prove_materials()` clones the slot
and changes nothing. `LifeOf` is the refinement mapping to `MaterialsLifecycle`.

### PadBody

A body is a sequence of cells: a quote, a backslash, another byte, and the first
`"role":"user","content":"` marker as one cell. One action per turn of the scan.
`Closes` says with JSON's own rule which quote closes the string, by counting
backslashes; the code keeps one flag.

### RequestTemplate

A header line is which header it is, whether it has the template's bytes,
whether validation takes its value, a Content-Length's number, and a length.
`EncodeStart`, `EncodeHeader` and `EncodeEnd` are `encode_request`; `Refuse`,
`AcceptAsIs` and `AcceptPadded` are `check_and_pad`. `Prove` gives what becomes
of the request in the circuit: a slice out of range, an unsatisfied system, a
prompt region that is not the body, or a proof. `mode = "execute"` starts from a
raw request, since `ProxyClient::execute` may be called with one. Authority-less
URIs leave out the Host line.

### Attestation

A ciphertext byte is a cell: cipher, key, nonce, block counter, place in the
block, and the plaintext byte; only the same keystream byte opens it. Keystreams
are symbols: two different ones are taken to differ in every byte, where real
ones agree in one of 256 by chance. `suite` is what the connection negotiated,
any of the three TLS 1.3 suites of rustls' ring provider, because
`client/proxy.rs:22-24` asks for TLS 1.3 and no suite of it. It decides the
length of the Finished and the cipher of every record TLS seals; `prove` and the
circuit use ChaCha20 whatever it is, and `client_traffic_secret` refuses the
48-byte secret that goes with AES-256-GCM. A request is the positions in it
   where rustls ends a record. `PayloadByte` is what TLS 1.3 sends (with the
   content type behind the data and the tag), `TlsCipher` the request's bytes
   among it, `RecordCipher` what the proxy keeps of a record, `ProveCipher` what
   `encrypt_with_chacha20` makes and `CircuitText` what the circuit decrypts.
   The proxy is `TlsForward` itself; `outBytes`, `cipherBytes` and
   `attestedBytes` are the bytes for which its `out`, `cipher` and `attested`
   name the records, as the buffers of `forward` hold them. The client sends
   nothing behind its ClientHello before the target has it; its Finished and its
   request follow each other freely.

### Commitment

The native code and the circuit run in lockstep, bit by bit and round by round,
over the integers modulo `P`. The two copies of the Feistel network are copies
here too: `K`, `Mix` and `Halves` are the native trait's, `KVar`, `MixVar` and
`HalvesVar` the circuit's; only the trait's constants, which the circuit reads
from it, and raising to a power are shared. `num_outputs` is 1 in every call of
the code.

### ChaCha20

A word is the set of its one bits, as a `UInt32` of the constraint system is a
list of bits. `QuarterRoundStep` is one quarter round with its four updates in
place, `ChunkEnd` the feed-forward, the combination with a chunk of up to 64
bytes and the next counter. `CipherText` says what the standard says, in rows
and columns of words and with the counter computed from the number of the block
(`WordOf`), so it shares neither the in-place updates nor the running counter
with the code; `KnownAnswers` in `MCChaCha20` holds it to the two vectors of the
repository's own tests.

## Runs

| run | instance | states | shows |
|---|---|---|---|
| `tls_forward` | four client streams (plain; two records, the first of the largest size; a record of 309 bytes; a SHA-384 Finished, an empty record and an alert), cut at every record's end, two bytes into every header, and inside the large record | 4,864 | the drain is right however records are cut and coalesced: committed before forwarded, it implements `AttestedRelay`, exact unless a length-53 record shared a pass, and what is read is forwarded |
| `tls_forward_coalesced` | the same | | **violation**: finding 1 |
| `relay_two` | two connections, three descriptors, request of 2 pieces and response of 1 and a close_notify | 14,017 | the wedge at `main.rs:49-56` takes a target that leaves without close_notify, the one at `main.rs:20` a client that leaves in the middle of its request, and there is no third; responses arrive, sockets are released, and calls return when the relay dies |
| `relay_exhausted` | three connections, two descriptors, connections symmetric | 131,773 | connects fail, and accepts at any time, so the relay dies in the middle of any call; still no caller takes a cut response for a whole one |
| `prove_session` | two clones, three calls, symmetric | 63,919 | the session's invariants and the life cycle |
| `pad_body` | all bodies of up to six cells, five targets | 42,215 | the scan agrees with JSON's rule, padding loses nothing, a refusal has its reason |
| `request_template` | up to three of ten caller headers, 36 raw requests one edit from the template, bodies shorter, equal, longer | 721,176 | which requests are accepted, what goes on the wire, what can be proved |
| `attestation` | requests of one and two records, below, at and above a 64-byte block, two with a Finished's length byte, each under three suites; the target may answer, and the client prove, at any time after the ClientHello | 77,998 | when the proof is about the ciphertext TLS sent and the relay committed to, and by how much they differ |
| `attestation_from_proxy` | the same | | **violation**: finding 2 |
| `chacha20` | the inputs of the two tests of `chacha20/mod.rs`, and messages of two and three chunks whose last is short | 571 | after every chunk the output is the standard's; quarter rounds can be undone |
| `commitment` | inputs of up to four 2-bit bytes, 3-bit chunks, modulo 13, four rounds | 10,343 | native and circuit agree; packing and rounds lose nothing else |

Why the bounds are enough to be of interest. The drain looks at one record, the
front of `pending` and the bytes received, so streams of five records with cuts
in headers and payloads show every relation of the three; the length filter is
met by 53, by 53 modulo 256 and by a Finished of another length. In `Relay`
connections touch each other only through descriptors and the accept loop, so
two or three suffice; two pieces up and one down (with the close_notify) put a
piece before and after the handshake's answer. Two clones and three calls give
an overwrite, a take by another clone and a call that fails in between. Six
cells hold a marker with runs of up to five backslashes and quotes on both sides
of them. Chunks of three bits and bytes of two share no boundary before six
bits, like 250 and 8. The cipher has no branch on its data; the keys of all
zeros, all ones and of the tests differ in the carries they cause, and messages
of 4, 64, 65 and 129 bytes end before, at and behind the end of a chunk.
`CHECK_DEADLOCK FALSE` stands in every configuration because connections,
requests and bodies come to an end: no run models an endless supply of them.

What some of the passing properties say is worth a reader's notice.
`TwoWedgesOnly` holds, and names two standstills that do happen. One is
`WaitingForEachOther`: after a target that closes without close_notify, `copy`
ends, its half of the client's socket is dropped, `forward`'s half keeps it
open, and client and `forward` wait for each other. The other is
`AbandonedMidRequest`: a client leaves when the target has only part of its
request; `forward` reads the end of the stream and ends without shutting the
target's socket down, `copy` holds the other half, so the target waits for the
rest of the request and `copy` for the target. `AttestedIsProvedAndType` holds,
and so a proof on a connection that negotiated AES-128-GCM is accepted although
it has no byte of its ciphertext from the connection. `ProvableExactly` holds,
and so most of the headers that `check_and_pad` accepts cannot be proved later:
only Authorization and Content-Type, in this order and spelled like the
template, can be, with at most a Content-Length behind them whose number the
padding rewrites.

### Fairness

- `TlsForward`: weak fairness of the drain's steps, which are straight-line
  code, and of `Write`, since tokio polls the task when the socket takes bytes
  and a connected target is assumed to take them. None on `Read`, `Eof` and
  `IoError`.
- `Relay`: weak fairness, per connection, of the client's, the accept loop's,
  the handler's and `forward`'s steps: tokio polls a task whose socket is ready.
  Of the target only that it closes once it has said close_notify, as
  `Connection: close` asks of it. (Its close_notify, in this model, comes after
  the whole request; `Attestation` lets it answer earlier.) No fairness on
  give-ups, resets or answers.
- The other specifications are safety only.

### Findings

1. `proxy/src/tls.rs:20`, run `tls_forward_coalesced`. The filter for the
   client's Finished reads `pending[4]`, the length byte of the first record of
   `pending`, whatever record is at `offset`. When one read brings the Finished
   and the request, the request's ciphertext is not returned and not committed
   to. The doc comment, `tls.rs:3-5`, promises the application data of all
   complete records. `ExactUnlessMixed` says that this, records of a length of 53
   modulo 256 and a Finished of another length (a SHA-384 suite's) are the only
   ways for the committed stream to be wrong.
2. `client/src/prove.rs:160`, run `attestation_from_proxy`. The public input
   commented "from proxy" is computed from ciphertext the client seals again, as
   one record without a content type. The proxy's commitment covers the content
   type TLS 1.3 seals behind the data, so the two are of different lengths even
   when nothing else went wrong. `AttestedIsProvedAndType` says that with
   ChaCha20-Poly1305 this byte is then the whole difference. With AES-128-GCM,
   whose secret has 32 bytes too, the lengths are related in the same way, no
   byte of the two is the same, and the proof succeeds; with AES-256-GCM `prove`
   returns an error.

## Proofs

All proofs are checked by TLAPS down to their leaves. Each module proves an
inductive invariant `IInv` (`InitIInv`, `NextIInv`, `Invariance`) with one step
per action, and reads the theorems off it.

- `TlsForwardProofs` (any well-formed streams, cuts and buffer size; assumptions
  `StreamsAssumption`, `SegmentsAssumption`, `BufAssumption`): `TypeCorrect`,
  `WireOrder`, `PartialPending`, `Transparent`, `CommitFirst`, `Exact`, and
  `Implements`: `Spec => Promise!Spec`. The invariant adds that `attested =
  cipher` (a pass that returns nothing leaves both alone), that `out` lies in
  order between `base` and `offset` while the drain runs, and `SentBehind`: the
  target never holds the end of a record still pending. `CommitFirst` follows
  from the last two facts. `Exact` needs the history of a pass: when no record
  of length byte 53 shared it, the byte at the front of `pending` speaks for
  every record of the pass (`EInv`, kept by `ExactInvariance`). `Implements`
  maps the end of a drain to `Attest` and a write to `Deliver`, each from
  `IInv`.
- `RelayProofs` (any finite set of connections, any pieces and descriptors):
  `TypeCorrect`, `OkComplete`, `MutualWait`, `OnlyTwoWedges`. `CopyEnded`
  records why `copy` has ended, `Progress` that a target answers only a whole
  request and that an open caller has not read the close_notify, `Ends` that
  `forward` ends before its target does only behind a client that has left, and
  that a call fails only behind a hang-up. `OnlyTwoWedges` goes
  through the states of the two tasks and finds a step that is ready, or one of
  the two standstills; that no third is possible when `forward` has ended takes
  `Ends`.
- `ProveSessionProofs` (any callers and calls): `TypeCorrect`, `Coherence`,
  `AtMostOnce`, `OwnStay`, and `Implements`: `Spec => Lifecycle!Spec`. The
  invariant adds `OnePlace`, a call's materials are in the slot, in one prover's
  hands or used up; without it `ProvedAtMostOnce` is not inductive.
- `PadBodyProofs` (any bodies and targets): `TypeCorrect`, `ClosingQuote`,
  `OnlyAdded`, `ForCause`. The heart is `Parity`: `escaped` is the parity of the
  run of backslashes before `pos`, and no quote passed so far closes.
- `RequestTemplateProofs` (any template, headers, raw requests and bodies):
  `TypeCorrect`, `NeverMismatches`, `Honest`. `ConnectionLast`: the only
  Connection line with the template's bytes is the one `encode_request` writes
  itself, last of all, because names in a `HeaderMap` are lower case
  (`CallerAssumption`). A wire that satisfies the circuit has that line sixth,
  so it has six lines, and the body begins where the circuit looks. `Lengths`
  follows what the Content-Length lines say from encoder to padding. `Provable`
  needs to know where each line comes from: `Origin(n, from)` says that the
  lines are the n the encoder starts with, then the caller's headers at the
  positions `from`, which enumerate `Kept(encoded)` in order, then what the
  encoder ends with. Six lines that are the template's leave two or three
  positions in `from`, which is `ProvableHeaders`, and back (`EnumerateTwo`,
  `EnumerateThree`). `Sums` says of a function that it adds up lengths, and
  `SumLenIs` that the recursive sum of the model is its last value.
  `NoOverrun` finds a line of the wire for each of the template's six: the
  values `Lens` fit, at places of their own (`Fitting`), into the lengths of the
  lines, so six lines or sixty are together no shorter (`SixBelow`). It needs
  that an accepted Authorization, Content-Type or Connection line is not shorter
  than the template's, since validation only trims blanks and forgives case
  (`CallerAssumption`, `wire.rs`).
- `CommitmentProofs` (any modulus, byte and chunk size, exponent, rounds and
  keys): `TypeCorrect`, `CircuitMatches`, `Binding`, `Invertible`,
  `Permutation`. The provers have no arithmetic for `^`; `PowersAssumption` says
  that the powers in use are naturals that begin with 1 and double, and TLC
  evaluates it with the other assumptions. `Binding` is about `PackingBinds`.
  Its invariant `PackInv` says that every complete element is the value of its
  chunk's bits (`Packed`), and that the element in the making, with the bits it
  still lacks (`Lacking`), will be. `Horner` describes such values without
  recursion; they exist, are unique (`HornerUnique`), stay below the modulus
  (`HornerBound`) and determine their bits by parity and halving
  (`HornerBinds`). `CircuitMatches` needs that one turn of the circuit's network
  is one of the native (`SameTurn`). `Permutation` carries `Invertible` from one
  round to all of them: two rows of halves (`Network`) that end together were
  together all along, since there is no last round behind which they first met.
- `AttestationProofs` (any requests in any records, any cuts and buffer size):
  `TypeCorrect`, `SeesRequest`, `ProvedBegins`, `AttestedIsProved`. What the
  proxy does is taken from `TlsForwardProofs` through `INSTANCE`: `ProxySpec`
  says that every behaviour here is one of `TlsForward` with the streams rustls
  makes of the requests, and `StreamsWellFormed` that these meet its assumption.
  The invariant `AInv` adds what the byte buffers hold: the ciphertexts of the
  records `out`, `cipher` and `attested` name, one after the other (`Holds`).
  With it the end-to-end statement follows from `Exact`. `AInv` also says that
  only a connection with a 32-byte hash has a proof, and so a Finished of 53
  bytes; without it the 69 bytes of a SHA-384 Finished would be in the stream.
  `CircuitOfTls` compares the circuit with what TLS sealed: with one record
  under ChaCha20 every cell is the circuit's, else the last byte of the request
  has another nonce or every byte another cipher (`TlsCipherFacts`).
- `ChaCha20Proofs` (any keys, nonces, counters and messages of any length):
  `TypeCorrect`, `Reversible` and `ComputesChaCha20`. The core of `Reversible`
  is that subtraction undoes addition modulo 2^32 with carries and borrows as
  sets of bits (`SubAdd`): the borrow of the difference equals the carry of the
  sum at every bit. `ComputesChaCha20` joins three arguments. A quarter round
  touches the words it names and no other (`FourWorked`), so four of them are a
  round on the columns of the rows, four more one on the diagonals
  (`ColumnsAreRound`, `DiagonalsAreRound`), and eight the double round
  (`EightAreDoubleRound`). `RoundsDone` remembers that the quarter rounds of a
  chunk lead from `state` to `work`, which makes eighty of them ten double
  rounds (`TrailTen`). And `BlockBegun` says that the counter of a block is the
  first one plus its number: counting on adds one with its carry (`NextWord`),
  and addition modulo 2^32 is associative (`AddAssociative`).

Several proofs are inductions over data: over bits, lines, halves of a number.
The library's induction rules take an operator, which the provers cannot
instantiate, so they are written as descents: were the set of the
counterexamples not empty, it would have a least element (`LeastNatural`, from
`WellFoundedInduction`), which is not the first and whose predecessor is none. A
recursive function enters such a proof as any function that satisfies its
equations, after one is shown to exist.

Only model-checked: the five liveness properties `ReadIsForwarded`,
`ResponseDelivered`, `ReleasedAfterNotify`, `ReleasedWhenBothGone` and
`CallsReturnWhenDown`. Liveness
under fairness is beyond the prover. Every other property of a passing run is a
theorem.

## Not modelled

- Groth16, the R1CS matrices and the field's curve: external (arkworks).
- HTTP response parsing, serde, header-value syntax: they keep no state; their
  outcomes are nondeterministic or a line's `text`.
- Multipart and streaming requests: they bypass relay and session.
- Process start-up of the proxy (arguments, DNS) and the client's configuration
  (`client/src/lib.rs`, certificates and the crypto provider): they run once,
  before the first connection.
- `witness.rs` and `body_region_from_wire`: nothing in the program calls them.
- The content of a response (`decode_response` reads a body to the end of the
  stream and does not undo a chunked Transfer-Encoding): no other state depends
  on it; only whether it fails does, which is `Decode`.

External parts modelled from how the code uses them: rustls' record stream and
key log, tokio's sockets, split and `copy`, the provider.

## Plan

All modules named above are written and checked, and every property but the
liveness ones is proved. What would add most next, in this order:

1. `ProveSession` composed with the outcomes of `RequestTemplate`, so that a
   panic of `prove` and a returned error are told apart for a clone.
2. Several connections in `Attestation`: whose commitment a proof is about.
