--------------------------- MODULE RequestTemplate ---------------------------
(***************************************************************************)
(* From a request to what the circuit sees of it: `encode_request` of      *)
(* client/src/utils.rs, `check_and_pad` with the functions it calls and    *)
(* RequestConfig of prover/src/openai/wire.rs, ReqVar of                   *)
(* prover/src/openai/req/mod.rs and the outcome of `prove`.                *)
(*                                                                         *)
(* A request is a sequence of header lines and a body.  Of a line the      *)
(* model keeps which header it is, whether its bytes are those of the      *)
(* circuit's template, whether parse_headers and validate_headers take its *)
(* value for the right one, the number a Content-Length says and the       *)
(* line's length with its CRLF.  Of a body it keeps the length, whether it *)
(* is a chat request, and whether its user message can be padded (PadBody  *)
(* says when).                                                             *)
(***************************************************************************)
EXTENDS Integers, Sequences

Keys == {"request", "host", "authorization", "content-type",
         "content-length", "connection", "other"}

(* "tmpl": the bytes of header_sections() (for a Content-Length, up to its *)
(* number).  "same": other bytes that validation accepts: another          *)
(* spelling of the name, blanks, "Close", "bearer".  "wrong": a value that *)
(* validation refuses.  "malformed": a line that parse_headers stops at.   *)
Texts == {"tmpl", "same", "wrong", "malformed"}

Line == [key : Keys, text : Texts, num : Nat, len : Nat]

CONSTANTS
  ContentLength,  \* RequestConfig.content_length
  SecLen,         \* the length of each section of the template
  CallerHeaders,  \* the lines a caller's HeaderMap may give rise to
  RawRequests,    \* the header lines that may be given to execute directly
  MaxHeaders,     \* bound on the headers of one request
  BodyLens        \* lengths of request bodies

SectionKeys ==
  <<"request", "host", "authorization", "content-type", "content-length", "connection">>

ASSUME LengthAssumption == ContentLength \in Nat /\ BodyLens \subseteq Nat /\ MaxHeaders \in Nat
ASSUME SectionsAssumption == SecLen \in [Keys -> Nat]
ASSUME CallerAssumption ==
  /\ CallerHeaders \subseteq Line
  /\ \A h \in CallerHeaders :
       /\ h.key # "request"
       \* a HeaderName is lower case; the template's are not
       /\ h.key \in {"host", "content-length", "connection"} => h.text # "tmpl"
       /\ h.text = "tmpl" => h.num = 0 /\ h.len = SecLen[h.key]
       \* validation trims blanks and forgives case: it accepts nothing shorter
       /\ h.text = "same" /\ h.key \in {"authorization", "content-type", "connection"} =>
            h.len >= SecLen[h.key]
ASSUME RawAssumption ==
  /\ RawRequests \subseteq Seq(Line)
  /\ \A r \in RawRequests : \A i \in 1 .. Len(r) : r[i].key = "request" <=> i = 1

VARIABLES
  mode,     \* "send", or "execute" for a caller of ProxyClient::execute
  headers,  \* the caller's HeaderMap; never changes
  encoded,  \* how many of the headers are encoded
  lines,    \* the header lines of the wire
  own,      \* did the caller give a Content-Length? (has_content_length)
  hasConn,  \* has_connection
  bodyLen, chat, closed,  \* the body
  given,    \* bodyLen before the padding
  pc,
  outcome   \* what prove makes of the request

vars == <<mode, headers, encoded, lines, own, hasConn, bodyLen, chat, closed, given, pc, outcome>>
bodyVars == <<bodyLen, chat, closed, given>>

SectionLine(k, n) == [key |-> k, text |-> "tmpl", num |-> n, len |-> SecLen[k]]

\* the number of a Content-Length line does not change its length here: it
\* matters only when the number is the template's
ContentLengthLine(n) == SectionLine("content-length", n)

Section(i) ==
  SectionLine(SectionKeys[i], IF SectionKeys[i] = "content-length" THEN ContentLength ELSE 0)

HeaderLists == UNION {[1 .. n -> CallerHeaders] : n \in 0 .. MaxHeaders}

Init ==
  /\ \/ mode = "send" /\ headers \in HeaderLists /\ lines = <<>> /\ pc = "encode"
     \/ mode = "execute" /\ headers = <<>> /\ lines \in RawRequests /\ pc = "check"
  /\ encoded = 0 /\ own = FALSE /\ hasConn = FALSE
  /\ bodyLen \in BodyLens /\ chat \in BOOLEAN /\ closed \in BOOLEAN
  /\ given = bodyLen
  /\ outcome = "none"

(* parse_headers keeps the last line of each header; validate_headers      *)
(* wants each of these five to be there and right.                         *)
Checked == {"request", "host", "authorization", "content-type", "connection"}

LastIs(k) ==
  \E i \in DOMAIN lines :
    /\ lines[i].key = k /\ lines[i].text \in {"tmpl", "same"}
    /\ \A j \in DOMAIN lines : j > i => lines[j].key # k

HeadersValid ==
  /\ \A i \in DOMAIN lines : lines[i].text # "malformed"
  /\ \A k \in Checked : LastIs(k)

-------------------------------------------------------------------------------
(* Faults a change of this code could introduce; none is part of Next.     *)

\* a default header is added behind the others
EncodeEndUserAgent ==
  /\ pc = "encode" /\ lines # <<>> /\ encoded = Len(headers)
  /\ lines' = lines \o (IF own THEN <<>> ELSE <<ContentLengthLine(bodyLen)>>)
                    \o (IF hasConn THEN <<>> ELSE <<SectionLine("connection", 0)>>)
                    \o <<SectionLine("other", 0)>>
  /\ pc' = "check"
  /\ UNCHANGED <<mode, headers, encoded, own, hasConn, bodyVars, outcome>>

\* Connection is written before Content-Length
EncodeEndSwapped ==
  /\ pc = "encode" /\ lines # <<>> /\ encoded = Len(headers)
  /\ lines' = lines \o (IF hasConn THEN <<>> ELSE <<SectionLine("connection", 0)>>)
                    \o (IF own THEN <<>> ELSE <<ContentLengthLine(bodyLen)>>)
  /\ pc' = "check"
  /\ UNCHANGED <<mode, headers, encoded, own, hasConn, bodyVars, outcome>>

\* the padded request keeps the Content-Length of the unpadded one
AcceptPaddedOldLength ==
  /\ pc = "check" /\ HeadersValid /\ chat /\ bodyLen < ContentLength /\ closed
  /\ bodyLen' = ContentLength
  /\ pc' = "sent"
  /\ UNCHANGED <<mode, headers, encoded, lines, own, hasConn, chat, closed, given, outcome>>

\* rebuild_request skips Content-Length lines and writes nothing for them
AcceptPaddedNoLength ==
  /\ pc = "check" /\ HeadersValid /\ chat /\ bodyLen < ContentLength /\ closed
  /\ bodyLen' = ContentLength
  /\ lines' = SelectSeq(lines, LAMBDA l : l.key # "content-length")
  /\ pc' = "sent"
  /\ UNCHANGED <<mode, headers, encoded, own, hasConn, chat, closed, given, outcome>>

\* the headers are rebuilt around the body as the caller gave it
AcceptPaddedOldBody ==
  /\ pc = "check" /\ HeadersValid /\ chat /\ bodyLen < ContentLength /\ closed
  /\ lines' = [i \in DOMAIN lines |->
       IF lines[i].key = "content-length" THEN ContentLengthLine(ContentLength) ELSE lines[i]]
  /\ pc' = "sent"
  /\ UNCHANGED <<mode, headers, encoded, own, hasConn, bodyVars, outcome>>

-------------------------------------------------------------------------------
(* encode_request                                                          *)

(* The request line and, if the URI has an authority, the Host line.       *)
EncodeStart ==
  /\ pc = "encode" /\ lines = <<>>
  /\ \E t \in {"tmpl", "wrong", "malformed"}, h \in {"none", "tmpl", "wrong"} :
       lines' = <<[SectionLine("request", 0) EXCEPT !.text = t]>>
                  \o IF h = "none" THEN <<>>
                     ELSE <<[SectionLine("host", 0) EXCEPT !.text = h]>>
  /\ UNCHANGED <<mode, headers, encoded, own, hasConn, bodyVars, pc, outcome>>

(* One header of the map: Host is skipped, the others written out.         *)
EncodeHeader ==
  /\ pc = "encode" /\ lines # <<>> /\ encoded < Len(headers)
  /\ LET h == headers[encoded + 1] IN
       /\ lines' = IF h.key = "host" THEN lines ELSE Append(lines, h)
       /\ own' = (own \/ h.key = "content-length")
       /\ hasConn' = (hasConn \/ h.key = "connection")
  /\ encoded' = encoded + 1
  /\ UNCHANGED <<mode, headers, bodyVars, pc, outcome>>

EncodeEnd ==
  /\ pc = "encode" /\ lines # <<>> /\ encoded = Len(headers)
  /\ lines' = lines \o (IF own THEN <<>> ELSE <<ContentLengthLine(bodyLen)>>)
                    \o (IF hasConn THEN <<>> ELSE <<SectionLine("connection", 0)>>)
  /\ pc' = "check"
  /\ UNCHANGED <<mode, headers, encoded, own, hasConn, bodyVars, outcome>>

-------------------------------------------------------------------------------
(* check_and_pad                                                           *)

Refuse ==
  /\ pc = "check"
  /\ ~(HeadersValid /\ chat) \/ bodyLen > ContentLength \/ (bodyLen < ContentLength /\ ~closed)
  /\ pc' = "refused"
  /\ UNCHANGED <<mode, headers, encoded, lines, own, hasConn, bodyVars, outcome>>

(* A body of the circuit's length: the request is sent as it is.           *)
AcceptAsIs ==
  /\ pc = "check" /\ HeadersValid /\ chat /\ bodyLen = ContentLength
  /\ pc' = "sent"
  /\ UNCHANGED <<mode, headers, encoded, lines, own, hasConn, bodyVars, outcome>>

(* A shorter one: pad_body, and rebuild_request replaces every             *)
(* Content-Length line.                                                    *)
AcceptPadded ==
  /\ pc = "check" /\ HeadersValid /\ chat /\ bodyLen < ContentLength /\ closed
  /\ bodyLen' = ContentLength
  /\ lines' = [i \in DOMAIN lines |->
       IF lines[i].key = "content-length" THEN ContentLengthLine(ContentLength) ELSE lines[i]]
  /\ pc' = "sent"
  /\ UNCHANGED <<mode, headers, encoded, own, hasConn, chat, closed, given, outcome>>

-------------------------------------------------------------------------------
(* prove                                                                   *)

SumLen(s) ==
  LET sum[i \in 0 .. Len(s)] == IF i = 0 THEN 0 ELSE sum[i-1] + s[i].len
  IN sum[Len(s)]

BodyStart == SumLen([i \in 1 .. 6 |-> Section(i)]) + 2
WireLen == SumLen(lines) + 2 + bodyLen

(* ReqVar compares the sections with the bytes at their offsets.  Lines    *)
(* end in CRLF, so these are the first six lines.                          *)
Satisfied == Len(lines) >= 6 /\ \A i \in 1 .. 6 : lines[i] = Section(i)

(* The circuit's prompt region starts two bytes behind the sections; these *)
(* two bytes are not constrained.                                          *)
RegionIsBody == Len(lines) = 6

Prove ==
  /\ pc = "sent" /\ outcome = "none"
  /\ outcome' =
       IF WireLen < BodyStart + ContentLength THEN "overrun"  \* a slice panics
       ELSE IF ~Satisfied THEN "unsatisfied"                  \* bail!
       ELSE IF ~RegionIsBody THEN "mismatch"                  \* verify fails: assert!
       ELSE "proved"
  /\ UNCHANGED <<mode, headers, encoded, lines, own, hasConn, bodyVars, pc>>

Next ==
  \/ EncodeStart \/ EncodeHeader \/ EncodeEnd
  \/ Refuse \/ AcceptAsIs \/ AcceptPadded
  \/ Prove

Spec == Init /\ [][Next]_vars

-------------------------------------------------------------------------------

(* Every variable holds a value of its type, and a request that is sent    *)
(* has a body of the length the circuit is built for.                      *)
TypeOK ==
  /\ mode \in {"send", "execute"}
  /\ headers \in Seq(CallerHeaders)
  /\ encoded \in 0 .. Len(headers)
  /\ lines \in Seq(Line)
  /\ own \in BOOLEAN /\ hasConn \in BOOLEAN
  /\ bodyLen \in Nat /\ given \in Nat /\ chat \in BOOLEAN /\ closed \in BOOLEAN
  /\ pc \in {"encode", "check", "sent", "refused"}
  /\ outcome \in {"none", "overrun", "unsatisfied", "mismatch", "proved"}
  /\ pc = "sent" => bodyLen = ContentLength

(* A request made through send that satisfies the circuit has its body     *)
(* where the circuit looks for the prompt: the commitment prove computes   *)
(* from materials.body is the circuit's, and the assert at prove.rs:164    *)
(* holds.                                                                  *)
SendNeverMismatches == mode = "send" => outcome # "mismatch"

(* The request on the wire says the length of the body it carries, once at *)
(* least, unless the caller gave a Content-Length of his own and the body  *)
(* needed no padding.                                                      *)
HonestLength ==
  mode = "send" /\ pc = "sent" /\ ~(own /\ given = ContentLength) =>
    /\ \E i \in DOMAIN lines : lines[i].key = "content-length"
    /\ \A i \in DOMAIN lines :
         lines[i].key = "content-length" => lines[i].num = bodyLen

(* Which accepted requests can be proved: those whose caller gives the     *)
(* Authorization, then the Content-Type of the template and nothing more;  *)
(* a Content-Length behind them does no harm if the body is padded.        *)
Kept(n) == {i \in 1 .. n : headers[i].key # "host"}

ProvableHeaders ==
  LET kept == Kept(Len(headers)) IN
  \E a, t \in kept :
    /\ a < t /\ headers[a] = Section(3) /\ headers[t] = Section(4)
    /\ \/ kept = {a, t}
       \/ \E l \in kept : /\ kept = {a, t, l} /\ t < l
                          /\ headers[l].key = "content-length" /\ given < ContentLength

ProvableExactly ==
  mode = "send" /\ outcome # "none" => (outcome = "proved" <=> ProvableHeaders)

(* prove takes slices of the decrypted wire at the template's offsets.  A  *)
(* request made through send is long enough for them, unless the caller    *)
(* gave a shorter Content-Length line of his own and the body needed no    *)
(* padding.                                                                *)
OverrunOnlyByOwnLength ==
  mode = "send" /\ outcome = "overrun" => own /\ given = ContentLength

===============================================================================
