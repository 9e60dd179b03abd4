------------------------------- MODULE PadBody -------------------------------
(***************************************************************************)
(* How the client brings a chat body to the fixed length of the circuit:   *)
(* `pad_body` and the scan `user_content_pad_position` it calls, in        *)
(* prover/src/openai/wire.rs.                                              *)
(*                                                                         *)
(* A body is a sequence of cells, one for a byte, except that the marker   *)
(* `"role":"user","content":"` is one cell: the scan compares it as a      *)
(* whole and enters the string behind it.  Only the first marker is such a *)
(* cell; the bytes of a later one are a quote and what follows.            *)
(***************************************************************************)
EXTENDS Integers, Sequences

CONSTANTS
  Bodies,   \* the bodies pad_body may be called with
  Targets   \* the values of content_length

Cells == {"marker", "quote", "backslash", "char"}
Space == "space"   \* b' ', the padding; told apart from "char" to follow it

ASSUME BodiesAssumption ==
  /\ Bodies \subseteq Seq(Cells)
  /\ \A b \in Bodies : \A i, j \in 1 .. Len(b) :
       b[i] = "marker" /\ b[j] = "marker" => i = j
ASSUME TargetsAssumption == Targets \subseteq Nat

VARIABLES
  body,     \* the argument `body`
  target,   \* the argument `target_len`
  pc,       \* "check", "find", "scan", "insert" or "done"
  start,    \* the marker's position
  pos,      \* the scan's `pos`
  escaped,  \* the scan's `escaped`
  result,   \* "none", "same", "padded" or "err"
  wire      \* new_body

vars == <<body, target, pc, start, pos, escaped, result, wire>>

Init ==
  /\ body \in Bodies
  /\ target \in Targets
  /\ pc = "check"
  /\ start = 0 /\ pos = 0
  /\ escaped = FALSE
  /\ result = "none"
  /\ wire = <<>>

Finish(r) == pc' = "done" /\ result' = r

-------------------------------------------------------------------------------
(* Faults a change of this code could introduce; none is part of Next.     *)

\* a backslash always escapes the next byte, even when it is escaped itself
ScanByteNaive ==
  /\ pc = "scan" /\ pos <= Len(body)
  /\ ~(body[pos] = "quote" /\ ~escaped)
  /\ escaped' = (body[pos] = "backslash")
  /\ pos' = pos + 1
  /\ UNCHANGED <<body, target, pc, start, result, wire>>

\* the first quote is taken, escaped or not
ScanFoundAnyQuote ==
  /\ pc = "scan" /\ pos <= Len(body)
  /\ body[pos] = "quote"
  /\ pc' = "insert"
  /\ UNCHANGED <<body, target, start, pos, escaped, result, wire>>

\* the byte at the insert position is lost
InsertSkipping ==
  /\ pc = "insert"
  /\ wire' = SubSeq(body, 1, pos - 1)
               \o [i \in 1 .. target - Len(body) |-> Space]
               \o SubSeq(body, pos + 1, Len(body))
  /\ Finish("padded")
  /\ UNCHANGED <<body, target, start, pos, escaped>>

\* an escape is stepped over as two bytes, also when the body ends in it
ScanByteOverrun ==
  /\ pc = "scan" /\ pos <= Len(body)
  /\ ~(body[pos] = "quote" /\ ~escaped)
  /\ pos' = IF body[pos] = "backslash" THEN pos + 2 ELSE pos + 1
  /\ UNCHANGED <<body, target, pc, start, escaped, result, wire>>

-------------------------------------------------------------------------------

(* A body of the right length is returned as it is, a longer one refused.  *)
CheckLength ==
  /\ pc = "check"
  /\ \/ Len(body) = target /\ Finish("same") /\ wire' = body
     \/ Len(body) > target /\ Finish("err") /\ UNCHANGED wire
     \/ Len(body) < target /\ pc' = "find" /\ UNCHANGED <<result, wire>>
  /\ UNCHANGED <<body, target, start, pos, escaped>>

(* windows().position(): the marker, or an error.                          *)
FindMarker ==
  /\ pc = "find"
  /\ \/ \E s \in 1 .. Len(body) :
          /\ body[s] = "marker"
          /\ start' = s /\ pos' = s + 1 /\ escaped' = FALSE
          /\ pc' = "scan" /\ UNCHANGED result
     \/ /\ \A i \in 1 .. Len(body) : body[i] # "marker"
        /\ Finish("err")
        /\ UNCHANGED <<start, pos, escaped>>
  /\ UNCHANGED <<body, target, wire>>

(* One turn of the while loop that does not return.                        *)
ScanByte ==
  /\ pc = "scan"
  /\ pos <= Len(body)
  /\ ~(body[pos] = "quote" /\ ~escaped)
  /\ escaped' = (~escaped /\ body[pos] = "backslash")
  /\ pos' = pos + 1
  /\ UNCHANGED <<body, target, pc, start, result, wire>>

(* return Ok(pos)                                                          *)
ScanFound ==
  /\ pc = "scan"
  /\ pos <= Len(body)
  /\ body[pos] = "quote" /\ ~escaped
  /\ pc' = "insert"
  /\ UNCHANGED <<body, target, start, pos, escaped, result, wire>>

(* The loop runs off the end: the string is never closed.                  *)
ScanFailed ==
  /\ pc = "scan"
  /\ pos > Len(body)
  /\ Finish("err")
  /\ UNCHANGED <<body, target, start, pos, escaped, wire>>

Pad == [i \in 1 .. target - Len(body) |-> Space]

Insert ==
  /\ pc = "insert"
  /\ wire' = SubSeq(body, 1, pos - 1) \o Pad \o SubSeq(body, pos, Len(body))
  /\ Finish("padded")
  /\ UNCHANGED <<body, target, start, pos, escaped>>

Next == CheckLength \/ FindMarker \/ ScanByte \/ ScanFound \/ ScanFailed \/ Insert

Spec == Init /\ [][Next]_vars

-------------------------------------------------------------------------------

(* Every variable holds a value of its type.                               *)
TypeOK ==
  /\ body \in Seq(Cells)
  /\ target \in Nat
  /\ pc \in {"check", "find", "scan", "insert", "done"}
  /\ start \in 0 .. Len(body)
  /\ pos \in 0 .. Len(body) + 1
  /\ escaped \in BOOLEAN
  /\ result \in {"none", "same", "padded", "err"}
  /\ wire \in Seq(Cells \cup {Space})

(* JSON's own rule.  n backslashes stand right before position p of the    *)
(* string that opens behind position s; the byte at p is escaped when n is *)
(* odd.                                                                    *)
Backslashes(b, s, p, n) ==
  /\ n <= p - s - 1
  /\ \A i \in p - n .. p - 1 : b[i] = "backslash"
  /\ n < p - s - 1 => b[p - n - 1] # "backslash"

IsEscaped(b, s, p) == \E n \in 0 .. Len(b) : Backslashes(b, s, p, n) /\ n % 2 = 1

Closes(b, s, p) == b[p] = "quote" /\ ~IsEscaped(b, s, p)

(* The padding goes right before the quote that closes the user's message: *)
(* it lands inside the string, after all of the message, and never between *)
(* a backslash and the byte it escapes (wire.rs:207-228).                  *)
PadAtClosingQuote ==
  pc = "insert" \/ result = "padded" =>
    /\ start < pos /\ pos <= Len(body) /\ body[start] = "marker"
    /\ Closes(body, start, pos)
    /\ \A p \in start + 1 .. pos - 1 : ~Closes(body, start, p)

(* The padded body has the target's length and is the body with spaces     *)
(* inserted at pos, nothing lost or moved (wire.rs:241-254).               *)
OnlySpacesAdded ==
  result = "padded" =>
    LET n == target - Len(body) IN
      /\ Len(wire) = target
      /\ \A i \in 1 .. pos - 1 : wire[i] = body[i]
      /\ \A i \in pos .. pos + n - 1 : wire[i] = Space
      /\ \A i \in pos .. Len(body) : wire[i + n] = body[i]

(* A body that would fit is refused only if it has no user message, or     *)
(* that message's string is never closed.                                  *)
RefusedForCause ==
  result = "err" /\ Len(body) <= target =>
    \/ \A i \in 1 .. Len(body) : body[i] # "marker"
    \/ \E s \in 1 .. Len(body) :
         body[s] = "marker" /\ \A p \in s + 1 .. Len(body) : ~Closes(body, s, p)

===============================================================================
