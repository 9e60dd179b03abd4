------------------------------ MODULE MCChaCha20 ------------------------------
(* ChaCha20 with the keys, nonces and messages of the tests of             *)
(* chacha20/mod.rs, and with longer messages that end in a short chunk.    *)
EXTENDS ChaCha20

ByteOf(n) == {i \in 0 .. 7 : (n \div 2^i) % 2 = 1}
BytesOf(q) == [k \in 1 .. Len(q) |-> ByteOf(q[k])]

ZeroKey == [k \in 1 .. 32 |-> 0]
ZeroNonce == [k \in 1 .. 12 |-> 0]
TestKey == <<45, 29, 211, 254, 148, 21, 111, 0, 99, 55, 45, 21, 35, 161, 11, 84,
             35, 72, 243, 173, 116, 145, 254, 196, 67, 144, 173, 36, 162, 243, 237, 199>>
TestNonce == <<74, 31, 80, 61, 168, 139, 170, 110, 88, 42, 47, 225>>
Sentence == <<84, 111, 109, 111, 114, 114, 111, 119, 32, 119, 105, 108, 108, 32, 98, 101,
              32, 98, 101, 116, 116, 101, 114, 33, 33, 33, 33, 33, 33, 33, 33, 33>>

Given(key, nonce, text) ==
  [key |-> BytesOf(key), nonce |-> BytesOf(nonce), count |-> {0}, input |-> BytesOf(text)]

Case0 == Given(ZeroKey, ZeroNonce, <<49, 50, 51, 52>>)
Case1 == Given(TestKey, TestNonce, Sentence \o Sentence)

MCInputs ==
  {Case0, Case1,
   Given(ZeroKey, TestNonce, Sentence \o Sentence \o <<33>>),
   Given([k \in 1 .. 32 |-> 255], ZeroNonce, Sentence \o Sentence \o Sentence \o Sentence \o <<33>>)}

(* The outputs the tests of chacha20/mod.rs expect.                        *)
ASSUME KnownAnswers ==
  /\ CipherText(Case0, 0, 4) = BytesOf(<<174, 53, 212, 138>>)
  /\ CipherText(Case1, 0, 64) = BytesOf(
       <<129, 96, 190, 244, 206, 117, 166, 54, 16, 184, 83, 117, 97, 159, 226, 12,
         59, 204, 46, 21, 67, 137, 183, 71, 65, 117, 86, 129, 221, 10, 211, 123,
         34, 1, 103, 26, 54, 133, 39, 41, 218, 116, 185, 88, 24, 43, 175, 180,
         217, 189, 108, 43, 52, 138, 227, 39, 122, 170, 5, 110, 18, 48, 239, 157>>)
===============================================================================
