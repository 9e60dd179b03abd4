------------------------- MODULE RequestTemplateProofs -------------------------
(* RequestTemplate: the types, where a template's Connection line can be,  *)
(* what the Content-Length lines say, which requests can be proved and how *)
(* long the wire is, for every template, all headers and bodies.           *)
EXTENDS RequestTemplate, TLAPS, WellFoundedInduction

USE LengthAssumption

(* Only encode_request's own Connection line has the template's bytes, and *)
(* nothing follows it.                                                     *)
ConnectionLast ==
  mode = "send" =>
    \A i \in 1 .. Len(lines) :
      lines[i].key = "connection" /\ lines[i].text = "tmpl" =>
        i = Len(lines) /\ pc # "encode"

HasLength == \E i \in 1 .. Len(lines) : lines[i].key = "content-length"
LengthsAre(n) == \A i \in 1 .. Len(lines) : lines[i].key = "content-length" => lines[i].num = n

(* The Content-Length lines while the request is encoded, before it is     *)
(* checked, and when it is sent.                                           *)
Lengths ==
  mode = "send" =>
    /\ pc \in {"encode", "check"} => given = bodyLen
    /\ pc = "encode" => (own <=> HasLength)
    /\ pc # "encode" => HasLength
    /\ pc = "check" /\ ~own => LengthsAre(bodyLen)
    /\ pc = "sent" => (own /\ given = ContentLength) \/ LengthsAre(bodyLen)

IInv == TypeOK /\ ConnectionLast /\ Lengths /\ SendNeverMismatches

-------------------------------------------------------------------------------

LEMMA SectionType ==
  ASSUME NEW k \in Keys, NEW n \in Nat
  PROVE  /\ SectionLine(k, n) \in Line
         /\ SectionLine(k, n).key = k
         /\ SectionLine(k, n).text = "tmpl"
         /\ SectionLine(k, n).num = n
<1>1. SecLen[k] \in Nat
  BY SectionsAssumption
<1>2. QED
  BY <1>1 DEF SectionLine, Line, Texts

LEMMA LengthLineType ==
  ASSUME NEW n \in Nat
  PROVE  /\ ContentLengthLine(n) \in Line
         /\ ContentLengthLine(n).key = "content-length"
         /\ ContentLengthLine(n).num = n
<1>1. "content-length" \in Keys
  BY DEF Keys
<1>2. QED
  BY <1>1, SectionType DEF ContentLengthLine

(* Padding replaces the Content-Length lines and keeps the others.         *)
Replaced == [i \in DOMAIN lines |->
  IF lines[i].key = "content-length" THEN ContentLengthLine(ContentLength) ELSE lines[i]]

LEMMA ReplacedType ==
  ASSUME lines \in Seq(Line)
  PROVE  /\ Replaced \in Seq(Line)
         /\ Len(Replaced) = Len(lines)
         /\ \A i \in 1 .. Len(lines) :
              /\ Replaced[i].key = lines[i].key
              /\ lines[i].key = "content-length" => Replaced[i].num = ContentLength
              /\ lines[i].key # "content-length" => Replaced[i] = lines[i]
<1>1. DOMAIN lines = 1 .. Len(lines) /\ Len(lines) \in Nat
  OBVIOUS
<1>2. \A i \in 1 .. Len(lines) : lines[i] \in Line
  OBVIOUS
<1>3. ContentLengthLine(ContentLength) \in Line
      /\ ContentLengthLine(ContentLength).key = "content-length"
      /\ ContentLengthLine(ContentLength).num = ContentLength
  BY LengthLineType
<1>4. Replaced \in [1 .. Len(lines) -> Line]
  BY <1>1, <1>2, <1>3, Zenon DEF Replaced
<1>5. Replaced \in Seq(Line) /\ Len(Replaced) = Len(lines)
  BY <1>1, <1>4
<1>6. \A i \in 1 .. Len(lines) :
        Replaced[i] = IF lines[i].key = "content-length"
                      THEN ContentLengthLine(ContentLength) ELSE lines[i]
  BY <1>1 DEF Replaced
<1>7. QED
  BY <1>3, <1>5, <1>6

-------------------------------------------------------------------------------

THEOREM InitIInv == Init => IInv
<1> SUFFICES ASSUME Init PROVE IInv
  OBVIOUS
<1>1. TypeOK
  <2>1. CallerHeaders \subseteq Line
    BY CallerAssumption
  <2>2. headers \in Seq(CallerHeaders)
    <3>1. CASE mode = "send"
      <4>1. PICK n \in 0 .. MaxHeaders : headers \in [1 .. n -> CallerHeaders]
        BY <3>1 DEF Init, HeaderLists
      <4>2. QED
        BY <4>1
    <3>2. CASE mode = "execute"
      BY <3>2 DEF Init
    <3>3. QED
      BY <3>1, <3>2 DEF Init
  <2>3. lines \in Seq(Line)
    <3>1. RawRequests \subseteq Seq(Line)
      BY RawAssumption
    <3>2. lines = <<>> \/ lines \in RawRequests
      BY DEF Init
    <3>3. <<>> \in Seq(Line)
      OBVIOUS
    <3>4. QED
      BY <3>1, <3>2, <3>3
  <2>4. encoded \in 0 .. Len(headers)
    <3>1. Len(headers) \in Nat /\ encoded = 0
      BY <2>2 DEF Init
    <3>2. QED
      BY <3>1
  <2>5. bodyLen \in Nat /\ given \in Nat
    BY DEF Init
  <2>6. mode \in {"send", "execute"} /\ pc \in {"encode", "check"} /\ outcome = "none"
    BY DEF Init
  <2>7. own \in BOOLEAN /\ hasConn \in BOOLEAN /\ chat \in BOOLEAN /\ closed \in BOOLEAN
    BY DEF Init
  <2>8. QED
    BY <2>2, <2>3, <2>4, <2>5, <2>6, <2>7 DEF TypeOK
<1>2. ConnectionLast
  BY DEF Init, ConnectionLast
<1>3. Lengths
  BY DEF Init, Lengths, HasLength, LengthsAre
<1>4. SendNeverMismatches
  BY DEF Init, SendNeverMismatches
<1>5. QED
  BY <1>1, <1>2, <1>3, <1>4 DEF IInv

(* One line more, or none.                                                 *)
LEMMA NoneMore ==
  ASSUME NEW s \in Seq(Line) PROVE s \o <<>> = s
  OBVIOUS

LEMMA Appended ==
  ASSUME NEW s \in Seq(Line), NEW t \in Seq(Line)
  PROVE  /\ s \o t \in Seq(Line)
         /\ Len(s \o t) = Len(s) + Len(t)
         /\ \A i \in 1 .. Len(s) : (s \o t)[i] = s[i]
         /\ \A i \in Len(s) + 1 .. Len(s) + Len(t) : (s \o t)[i] = t[i - Len(s)]
  OBVIOUS

LEMMA OneMore ==
  ASSUME NEW s \in Seq(Line), NEW e \in Line
  PROVE  /\ s \o <<e>> \in Seq(Line)
         /\ Len(s \o <<e>>) = Len(s) + 1
         /\ \A i \in 1 .. Len(s) : (s \o <<e>>)[i] = s[i]
         /\ (s \o <<e>>)[Len(s) + 1] = e
<1>1. <<e>> \in Seq(Line) /\ Len(<<e>>) = 1 /\ <<e>>[1] = e
  OBVIOUS
<1>2. Len(s) \in Nat
  OBVIOUS
<1>3. /\ s \o <<e>> \in Seq(Line)
      /\ Len(s \o <<e>>) = Len(s) + Len(<<e>>)
      /\ \A i \in 1 .. Len(s) : (s \o <<e>>)[i] = s[i]
      /\ \A i \in Len(s) + 1 .. Len(s) + Len(<<e>>) : (s \o <<e>>)[i] = <<e>>[i - Len(s)]
  BY <1>1, Appended, Zenon
<1> DEFINE t == <<e>>
           u == s \o t
<1>4. /\ Len(t) = 1 /\ t[1] = e /\ u \in Seq(Line) /\ Len(u) = Len(s) + Len(t)
      /\ \A i \in 1 .. Len(s) : u[i] = s[i]
      /\ \A i \in Len(s) + 1 .. Len(s) + Len(t) : u[i] = t[i - Len(s)]
  BY <1>1, <1>3
<1> HIDE DEF t, u
<1>5. Len(s) + 1 \in Len(s) + 1 .. Len(s) + Len(t) /\ (Len(s) + 1) - Len(s) = 1
  BY <1>2, <1>4
<1>6. u[Len(s) + 1] = t[(Len(s) + 1) - Len(s)]
  BY <1>4, <1>5, Zenon
<1>7. u[Len(s) + 1] = e
  BY <1>4, <1>5, <1>6
<1>8. QED
  BY <1>4, <1>7 DEF t, u

LEMMA StepStart ==
  ASSUME IInv, EncodeStart PROVE IInv'
<1>1. PICK t \in {"tmpl", "wrong", "malformed"}, h \in {"none", "tmpl", "wrong"} :
        lines' = <<[SectionLine("request", 0) EXCEPT !.text = t]>>
                   \o IF h = "none" THEN <<>>
                      ELSE <<[SectionLine("host", 0) EXCEPT !.text = h]>>
  BY DEF EncodeStart
<1> DEFINE a == [SectionLine("request", 0) EXCEPT !.text = t]
           b == [SectionLine("host", 0) EXCEPT !.text = h]
           s == <<a>>
<1>2. "request" \in Keys /\ "host" \in Keys /\ 0 \in Nat
  BY DEF Keys
<1>3. a \in Line /\ a.key = "request"
  BY <1>2, SectionsAssumption DEF SectionLine, Line, Texts
<1>4. h # "none" => b \in Line /\ b.key = "host"
  BY <1>2, SectionsAssumption DEF SectionLine, Line, Texts
<1>5. (h = "none" => lines' = s \o <<>>) /\ (h # "none" => lines' = s \o <<b>>)
  BY <1>1
<1> HIDE DEF a, b
<1>6. s \in Seq(Line) /\ Len(s) = 1 /\ s[1] = a
  BY <1>3
<1> HIDE DEF s
<1>7. lines' \in Seq(Line) /\ \A i \in 1 .. Len(lines') : lines'[i].key \in {"request", "host"}
  <2>1. CASE h = "none"
    <3>1. lines' = s
      BY <1>5, <1>6, <2>1, NoneMore
    <3>2. lines' \in Seq(Line) /\ Len(lines') = 1 /\ lines'[1] = a
      BY <1>6, <3>1
    <3>3. QED
      BY <1>3, <3>2
  <2>2. CASE h # "none"
    <3>1. b \in Line /\ b.key = "host"
      BY <1>4, <2>2
    <3>2. /\ s \o <<b>> \in Seq(Line)
          /\ Len(s \o <<b>>) = Len(s) + 1
          /\ \A i \in 1 .. Len(s) : (s \o <<b>>)[i] = s[i]
          /\ (s \o <<b>>)[Len(s) + 1] = b
      BY <1>6, <3>1, OneMore
    <3>3. lines' = s \o <<b>>
      BY <1>5, <2>2
    <3>4. lines' \in Seq(Line) /\ Len(lines') = 2 /\ lines'[1] = a /\ lines'[2] = b
      BY <1>6, <3>2, <3>3
    <3>5. QED
      BY <1>3, <3>1, <3>4
  <2>3. QED
    BY <2>1, <2>2
<1>8. UNCHANGED <<mode, headers, encoded, own, hasConn, bodyLen, chat, closed, given, pc, outcome>>
  BY DEF EncodeStart, bodyVars
<1>9. lines = <<>> /\ pc = "encode"
  BY DEF EncodeStart
<1>10. TypeOK'
  BY <1>7, <1>8 DEF IInv, TypeOK
<1>11. ConnectionLast'
  BY <1>7 DEF ConnectionLast
<1>12. Lengths'
  <2>1. ~HasLength
    BY <1>9 DEF HasLength
  <2>2. ~HasLength'
    BY <1>7 DEF HasLength
  <2>3. QED
    BY <1>8, <1>9, <2>1, <2>2 DEF IInv, Lengths
<1>13. SendNeverMismatches'
  BY <1>8 DEF IInv, SendNeverMismatches
<1>14. QED
  BY <1>10, <1>11, <1>12, <1>13 DEF IInv

LEMMA StepHeader ==
  ASSUME IInv, EncodeHeader PROVE IInv'
<1> DEFINE h == headers[encoded + 1]
<1>1. h \in CallerHeaders /\ encoded + 1 \in 0 .. Len(headers)
  BY DEF IInv, TypeOK, EncodeHeader
<1>2. h \in Line /\ (h.key = "connection" => h.text # "tmpl")
  BY <1>1, CallerAssumption
<1>3. /\ lines' = IF h.key = "host" THEN lines ELSE Append(lines, h)
      /\ own' = (own \/ h.key = "content-length")
      /\ hasConn' = (hasConn \/ h.key = "connection")
      /\ encoded' = encoded + 1
  BY DEF EncodeHeader
<1>4. UNCHANGED <<mode, headers, bodyLen, chat, closed, given, pc, outcome>> /\ pc = "encode"
  BY DEF EncodeHeader, bodyVars
<1> HIDE DEF h
<1>5. lines \in Seq(Line)
  BY DEF IInv, TypeOK
<1>6. /\ lines' \in Seq(Line)
      /\ \A i \in 1 .. Len(lines') : \/ i \in 1 .. Len(lines) /\ lines'[i] = lines[i]
                                     \/ lines'[i] = h /\ h.key # "host"
      /\ \A i \in 1 .. Len(lines) : i \in 1 .. Len(lines') /\ lines'[i] = lines[i]
      /\ h.key # "host" => \E i \in 1 .. Len(lines') : lines'[i] = h
  BY <1>2, <1>3, <1>5
<1>7. TypeOK'
  BY <1>1, <1>3, <1>4, <1>6 DEF IInv, TypeOK
<1>8. ConnectionLast'
  BY <1>2, <1>4, <1>6 DEF IInv, ConnectionLast
<1>9. Lengths'
  <2>1. HasLength' <=> (HasLength \/ h.key = "content-length")
    BY <1>6 DEF HasLength
  <2>2. QED
    BY <1>3, <1>4, <2>1 DEF IInv, Lengths
<1>10. SendNeverMismatches'
  BY <1>4 DEF IInv, SendNeverMismatches
<1>11. QED
  BY <1>7, <1>8, <1>9, <1>10 DEF IInv

LEMMA StepEnd ==
  ASSUME IInv, EncodeEnd PROVE IInv'
<1> DEFINE c == ContentLengthLine(bodyLen)
           k == SectionLine("connection", 0)
           mid == lines \o (IF own THEN <<>> ELSE <<c>>)
<1>1. c \in Line /\ c.key = "content-length" /\ c.num = bodyLen
  BY LengthLineType DEF IInv, TypeOK
<1>2. k \in Line /\ k.key = "connection"
  BY SectionType DEF Keys
<1>3. lines' = mid \o (IF hasConn THEN <<>> ELSE <<k>>)
  BY DEF EncodeEnd
<1>4. /\ UNCHANGED <<mode, headers, encoded, own, hasConn, bodyLen, chat, closed, given, outcome>>
      /\ pc = "encode" /\ pc' = "check"
  BY DEF EncodeEnd, bodyVars
<1>5. lines \in Seq(Line) /\ Len(lines) \in Nat
  BY DEF IInv, TypeOK
<1>6. (own => mid = lines \o <<>>) /\ (~own => mid = lines \o <<c>>)
  OBVIOUS
<1>7. (hasConn => lines' = mid \o <<>>) /\ (~hasConn => lines' = mid \o <<k>>)
  BY <1>3
<1> HIDE DEF c, k, mid
<1>8. /\ mid \in Seq(Line) /\ Len(mid) \in Nat /\ Len(lines) <= Len(mid)
      /\ \A i \in 1 .. Len(lines) : mid[i] = lines[i]
      /\ \A i \in 1 .. Len(mid) : i \in 1 .. Len(lines) \/ (mid[i] = c /\ ~own)
      /\ ~own => Len(mid) \in 1 .. Len(mid) /\ mid[Len(mid)] = c
  <2>1. CASE own
    <3>1. mid = lines
      BY <1>5, <1>6, <2>1, NoneMore
    <3>2. QED
      BY <1>5, <2>1, <3>1
  <2>2. CASE ~own
    <3>1. mid = lines \o <<c>>
      BY <1>6, <2>2
    <3>2. /\ mid \in Seq(Line)
          /\ Len(mid) = Len(lines) + 1
          /\ \A i \in 1 .. Len(lines) : mid[i] = lines[i]
          /\ mid[Len(lines) + 1] = c
      BY <1>1, <1>5, <3>1, OneMore
    <3>3. QED
      BY <1>5, <2>2, <3>2
  <2>3. QED
    BY <2>1, <2>2
<1>9. /\ lines' \in Seq(Line) /\ Len(lines') \in Nat /\ Len(mid) <= Len(lines')
      /\ \A i \in 1 .. Len(mid) : lines'[i] = mid[i]
      /\ \A i \in 1 .. Len(lines') : i \in 1 .. Len(mid) \/ (lines'[i] = k /\ i = Len(lines'))
  <2>1. CASE hasConn
    <3>1. lines' = mid
      BY <1>7, <1>8, <2>1, NoneMore
    <3>2. QED
      BY <1>8, <3>1
  <2>2. CASE ~hasConn
    <3>1. lines' = mid \o <<k>>
      BY <1>7, <2>2
    <3>2. /\ lines' \in Seq(Line)
          /\ Len(lines') = Len(mid) + 1
          /\ \A i \in 1 .. Len(mid) : lines'[i] = mid[i]
          /\ lines'[Len(mid) + 1] = k
      BY <1>2, <1>8, <3>1, OneMore
    <3>3. QED
      BY <1>8, <3>2
  <2>3. QED
    BY <2>1, <2>2
<1>10. \A i \in 1 .. Len(lines) : i \in 1 .. Len(lines') /\ lines'[i] = lines[i]
  BY <1>5, <1>8, <1>9
<1>11. \A i \in 1 .. Len(lines') :
        \/ i \in 1 .. Len(lines) /\ lines'[i] = lines[i]
        \/ lines'[i] = c /\ ~own
        \/ lines'[i] = k /\ i = Len(lines')
  BY <1>8, <1>9, <1>10
<1>12. TypeOK'
  BY <1>4, <1>9 DEF IInv, TypeOK
<1>13. ConnectionLast'
  <2>1. mode = "send" => \A i \in 1 .. Len(lines) : ~(lines[i].key = "connection" /\ lines[i].text = "tmpl")
    BY <1>4 DEF IInv, ConnectionLast
  <2>2. QED
    BY <1>1, <1>4, <1>11, <2>1 DEF ConnectionLast
<1>14. Lengths'
  <2>1. own /\ mode = "send" => HasLength
    BY <1>4 DEF IInv, Lengths
  <2>2. HasLength => HasLength'
    BY <1>10 DEF HasLength
  <2>3. ~own => HasLength'
    <3>1. ~own => Len(mid) \in 1 .. Len(lines') /\ lines'[Len(mid)] = c
      BY <1>8, <1>9
    <3>2. QED
      BY <1>1, <3>1 DEF HasLength
  <2>4. mode = "send" /\ ~own => LengthsAre(bodyLen)'
    <3>1. mode = "send" /\ ~own => ~HasLength
      BY <1>4 DEF IInv, Lengths
    <3>2. mode = "send" /\ ~own =>
            \A i \in 1 .. Len(lines') : lines'[i].key = "content-length" => lines'[i].num = bodyLen
      BY <1>1, <1>2, <1>11, <3>1 DEF HasLength
    <3>3. QED
      BY <1>4, <3>2 DEF LengthsAre
  <2>5. QED
    BY <1>4, <2>1, <2>2, <2>3, <2>4 DEF IInv, Lengths, TypeOK
<1>15. SendNeverMismatches'
  BY <1>4 DEF IInv, SendNeverMismatches
<1>16. QED
  BY <1>12, <1>13, <1>14, <1>15 DEF IInv

-------------------------------------------------------------------------------
(* check_and_pad and prove                                                 *)

LEMMA StepRefuse ==
  ASSUME IInv, Refuse PROVE IInv'
<1>1. /\ UNCHANGED <<mode, headers, encoded, lines, own, hasConn, bodyLen, chat, closed, given, outcome>>
      /\ pc = "check" /\ pc' = "refused"
  BY DEF Refuse, bodyVars
<1>2. TypeOK'
  BY <1>1 DEF IInv, TypeOK
<1>3. ConnectionLast'
  BY <1>1 DEF IInv, ConnectionLast
<1>4. Lengths'
  <2>1. HasLength' <=> HasLength
    BY <1>1 DEF HasLength
  <2>2. QED
    BY <1>1, <2>1 DEF IInv, Lengths
<1>5. SendNeverMismatches'
  BY <1>1 DEF IInv, SendNeverMismatches
<1>6. QED
  BY <1>2, <1>3, <1>4, <1>5 DEF IInv

LEMMA StepAsIs ==
  ASSUME IInv, AcceptAsIs PROVE IInv'
<1>1. /\ UNCHANGED <<mode, headers, encoded, lines, own, hasConn, bodyLen, chat, closed, given, outcome>>
      /\ pc = "check" /\ pc' = "sent" /\ bodyLen = ContentLength
  BY DEF AcceptAsIs, bodyVars
<1>2. TypeOK'
  BY <1>1 DEF IInv, TypeOK
<1>3. ConnectionLast'
  BY <1>1 DEF IInv, ConnectionLast
<1>4. Lengths'
  <2>1. HasLength' <=> HasLength
    BY <1>1 DEF HasLength
  <2>2. LengthsAre(bodyLen)' <=> LengthsAre(bodyLen)
    BY <1>1 DEF LengthsAre
  <2>3. mode = "send" => given = ContentLength
    BY <1>1 DEF IInv, Lengths
  <2>4. QED
    BY <1>1, <2>1, <2>2, <2>3 DEF IInv, Lengths, TypeOK
<1>5. SendNeverMismatches'
  BY <1>1 DEF IInv, SendNeverMismatches
<1>6. QED
  BY <1>2, <1>3, <1>4, <1>5 DEF IInv

LEMMA StepPadded ==
  ASSUME IInv, AcceptPadded PROVE IInv'
<1>1. /\ UNCHANGED <<mode, headers, encoded, own, hasConn, chat, closed, given, outcome>>
      /\ pc = "check" /\ pc' = "sent" /\ bodyLen' = ContentLength /\ lines' = Replaced
  BY DEF AcceptPadded, Replaced
<1>2. lines \in Seq(Line)
  BY DEF IInv, TypeOK
<1>3. /\ lines' \in Seq(Line)
      /\ Len(lines') = Len(lines)
      /\ \A i \in 1 .. Len(lines) :
           /\ lines'[i].key = lines[i].key
           /\ lines[i].key = "content-length" => lines'[i].num = ContentLength
           /\ lines[i].key # "content-length" => lines'[i] = lines[i]
  BY <1>1, <1>2, ReplacedType
<1>4. TypeOK'
  BY <1>1, <1>3 DEF IInv, TypeOK
<1>5. ConnectionLast'
  BY <1>1, <1>3 DEF IInv, ConnectionLast
<1>6. Lengths'
  <2>1. HasLength => HasLength'
    BY <1>3 DEF HasLength
  <2>2. LengthsAre(bodyLen)'
    BY <1>1, <1>3 DEF LengthsAre
  <2>3. QED
    BY <1>1, <2>1, <2>2 DEF IInv, Lengths
<1>7. SendNeverMismatches'
  BY <1>1 DEF IInv, SendNeverMismatches
<1>8. QED
  BY <1>4, <1>5, <1>6, <1>7 DEF IInv

(* A wire that satisfies the circuit has the template's Connection line in *)
(* the sixth place, and that line is the last.                             *)
LEMMA StepProve ==
  ASSUME IInv, Prove PROVE IInv'
<1>1. UNCHANGED <<mode, headers, encoded, lines, own, hasConn, bodyLen, chat, closed, given, pc>>
  BY DEF Prove, bodyVars
<1>2. outcome' \in {"overrun", "unsatisfied", "mismatch", "proved"}
      /\ (outcome' = "mismatch" => Satisfied /\ ~RegionIsBody)
  BY DEF Prove
<1>3. TypeOK'
  BY <1>1, <1>2 DEF IInv, TypeOK
<1>4. ConnectionLast'
  BY <1>1 DEF IInv, ConnectionLast
<1>5. Lengths'
  <2>1. HasLength' <=> HasLength
    BY <1>1 DEF HasLength
  <2>2. LengthsAre(bodyLen)' <=> LengthsAre(bodyLen)
    BY <1>1 DEF LengthsAre
  <2>3. QED
    BY <1>1, <2>1, <2>2 DEF IInv, Lengths
<1>6. SendNeverMismatches'
  <2> SUFFICES ASSUME mode = "send", Satisfied PROVE RegionIsBody
    BY <1>1, <1>2 DEF SendNeverMismatches
  <2>1. Len(lines) \in Nat /\ 6 \in 1 .. Len(lines) /\ lines[6] = Section(6)
    BY DEF Satisfied, IInv, TypeOK
  <2>2. SectionKeys[6] = "connection"
    BY DEF SectionKeys
  <2>3. lines[6] = SectionLine("connection", 0)
    BY <2>1, <2>2 DEF Section
  <2>4. lines[6].key = "connection" /\ lines[6].text = "tmpl"
    BY <2>3, SectionType DEF Keys
  <2>5. QED
    BY <2>1, <2>4 DEF IInv, ConnectionLast, RegionIsBody
<1>7. QED
  BY <1>3, <1>4, <1>5, <1>6 DEF IInv

LEMMA StepStutter ==
  ASSUME IInv, UNCHANGED vars PROVE IInv'
<1>1. UNCHANGED <<mode, headers, encoded, lines, own, hasConn, bodyLen, chat, closed, given, pc, outcome>>
  BY DEF vars
<1>2. QED
  BY <1>1 DEF IInv, TypeOK, ConnectionLast, Lengths, HasLength, LengthsAre, SendNeverMismatches

THEOREM NextIInv == IInv /\ [Next]_vars => IInv'
<1> SUFFICES ASSUME IInv, [Next]_vars PROVE IInv'
  OBVIOUS
<1>1. CASE EncodeStart
  BY <1>1, StepStart
<1>2. CASE EncodeHeader
  BY <1>2, StepHeader
<1>3. CASE EncodeEnd
  BY <1>3, StepEnd
<1>4. CASE Refuse
  BY <1>4, StepRefuse
<1>5. CASE AcceptAsIs
  BY <1>5, StepAsIs
<1>6. CASE AcceptPadded
  BY <1>6, StepPadded
<1>7. CASE Prove
  BY <1>7, StepProve
<1>8. CASE UNCHANGED vars
  BY <1>8, StepStutter
<1>9. QED
  BY <1>1, <1>2, <1>3, <1>4, <1>5, <1>6, <1>7, <1>8 DEF Next

THEOREM Invariance == Spec => []IInv
<1>1. QED
  BY InitIInv, NextIInv, PTL DEF Spec

-------------------------------------------------------------------------------

(* Every variable keeps its type, and a request that check_and_pad lets    *)
(* out has a body of the circuit's length.                                 *)
THEOREM TypeCorrect == Spec => []TypeOK
<1>1. IInv => TypeOK
  BY DEF IInv
<1>2. QED
  BY <1>1, Invariance, PTL

(* Whatever headers and body a caller gives to send, prove's assert        *)
(* (prove.rs:164) does not fail for want of the body at its place.         *)
THEOREM NeverMismatches == Spec => []SendNeverMismatches
<1>1. IInv => SendNeverMismatches
  BY DEF IInv
<1>2. QED
  BY <1>1, Invariance, PTL

(* Whatever headers and body a caller gives to send, the request on the    *)
(* wire says the length of its body, unless the caller's own               *)
(* Content-Length went out unchecked with a body that needed no padding.   *)
THEOREM Honest == Spec => []HonestLength
<1>1. IInv => HonestLength
  <2> SUFFICES ASSUME IInv, mode = "send", pc = "sent", ~(own /\ given = ContentLength)
               PROVE  /\ \E i \in DOMAIN lines : lines[i].key = "content-length"
                      /\ \A i \in DOMAIN lines :
                           lines[i].key = "content-length" => lines[i].num = bodyLen
    BY DEF HonestLength
  <2>1. HasLength /\ LengthsAre(bodyLen)
    BY DEF IInv, Lengths
  <2>2. DOMAIN lines = 1 .. Len(lines)
    BY DEF IInv, TypeOK
  <2>3. QED
    BY <2>1, <2>2 DEF HasLength, LengthsAre
<1>2. QED
  BY <1>1, Invariance, PTL

-------------------------------------------------------------------------------
(* Which requests can be proved: where each line of the wire comes from.   *)

(* What has become of a line of encode_request's: rebuild_request replaces *)
(* a Content-Length, if the body is padded.                                *)
Written(h) ==
  IF pc = "sent" /\ given < ContentLength /\ h.key = "content-length"
  THEN ContentLengthLine(ContentLength) ELSE h

(* from gives the headers written out, in order.                           *)
Enumerates(from) ==
  /\ from \in Seq(Nat)
  /\ \A i \in 1 .. Len(from) : from[i] \in Kept(encoded)
  /\ \A i, j \in 1 .. Len(from) : i < j => from[i] < from[j]
  /\ \A k \in Kept(encoded) : \E i \in 1 .. Len(from) : from[i] = k

(* The first n lines are encode_request's own: right, or not taken for it. *)
Starts(n) ==
  /\ n \in {1, 2} /\ n <= Len(lines)
  /\ lines[1] = [SectionLine("request", 0) EXCEPT !.text = lines[1].text]
  /\ lines[1].text # "same"
  /\ n = 2 => /\ lines[2] = [SectionLine("host", 0) EXCEPT !.text = lines[2].text]
             /\ lines[2].text # "same"

(* Behind them come the headers, a Content-Length of encode_request's, and *)
(* its Connection.                                                         *)
Ends(m) ==
  /\ pc = "encode" => Len(lines) = m
  /\ pc # "encode" =>
       /\ Len(lines) = m + (IF own THEN 0 ELSE 1) + (IF hasConn THEN 0 ELSE 1)
       /\ encoded = Len(headers)
       /\ ~own => lines[m + 1] = Written(ContentLengthLine(given))
       /\ ~hasConn => lines[Len(lines)] = SectionLine("connection", 0)

Origin(n, from) ==
  /\ Starts(n) /\ Enumerates(from) /\ Ends(n + Len(from))
  /\ \A i \in 1 .. Len(from) : lines[n + i] = Written(headers[from[i]])
  /\ pc = "sent" => n = 2 /\ lines[1].text = "tmpl" /\ lines[2].text = "tmpl"

Flags ==
  /\ own <=> \E k \in Kept(encoded) : headers[k].key = "content-length"
  /\ hasConn <=> \E k \in Kept(encoded) : headers[k].key = "connection"

Origins ==
  mode = "send" =>
    /\ Flags
    /\ lines = <<>> => encoded = 0 /\ pc = "encode"
    /\ lines # <<>> => \E n \in {1, 2}, from \in Seq(Nat) : Origin(n, from)
    /\ pc = "sent" => given <= ContentLength

PInv == IInv /\ Origins /\ ProvableExactly

LEMMA KeptNext ==
  ASSUME NEW n \in Nat
  PROVE  Kept(n + 1) = IF headers[n + 1].key = "host" THEN Kept(n) ELSE Kept(n) \cup {n + 1}
<1>1. \A i : i \in 1 .. n + 1 <=> i \in 1 .. n \/ i = n + 1
  OBVIOUS
<1>2. QED
  BY <1>1 DEF Kept

LEMMA OriginsInit == Init => Origins
<1> SUFFICES ASSUME Init, mode = "send" PROVE Origins
  BY DEF Origins
<1>1. lines = <<>> /\ encoded = 0 /\ pc = "encode" /\ own = FALSE /\ hasConn = FALSE
  BY DEF Init
<1>2. Kept(encoded) = {}
  BY <1>1 DEF Kept
<1>3. QED
  BY <1>1, <1>2 DEF Origins, Flags

LEMMA OriginsStart ==
  ASSUME PInv, EncodeStart PROVE Origins'
<1> SUFFICES ASSUME mode' = "send" PROVE Origins'
  BY DEF Origins
<1>1. PICK t \in {"tmpl", "wrong", "malformed"}, h \in {"none", "tmpl", "wrong"} :
        lines' = <<[SectionLine("request", 0) EXCEPT !.text = t]>>
                   \o IF h = "none" THEN <<>>
                      ELSE <<[SectionLine("host", 0) EXCEPT !.text = h]>>
  BY DEF EncodeStart
<1>2. UNCHANGED <<mode, headers, encoded, own, hasConn, given, pc>> /\ lines = <<>> /\ pc = "encode"
  BY DEF EncodeStart, bodyVars
<1>3. encoded = 0 /\ Flags
  BY <1>2 DEF PInv, Origins
<1> DEFINE n == IF h = "none" THEN 1 ELSE 2
<1>4. lines' \in Seq(Line)
  BY StepStart DEF PInv, IInv, TypeOK
<1>5. /\ Len(lines') = n
      /\ lines'[1] = [SectionLine("request", 0) EXCEPT !.text = t]
      /\ n = 2 => lines'[2] = [SectionLine("host", 0) EXCEPT !.text = h]
  <2>1. CASE h = "none"
    BY <1>1, <2>1
  <2>2. CASE h # "none"
    BY <1>1, <2>2
  <2>3. QED
    BY <2>1, <2>2
<1>6. Starts(n)'
  BY <1>5 DEF Starts, SectionLine
<1>7. Kept(encoded') = {} /\ Kept(encoded)' = {}
  BY <1>2, <1>3 DEF Kept
<1>8. Enumerates(<<>>)'
  BY <1>2, <1>7 DEF Enumerates
<1>9. Ends(n + Len(<<>>))'
  BY <1>2, <1>5 DEF Ends
<1>10. Origin(n, <<>>)'
  BY <1>2, <1>6, <1>8, <1>9 DEF Origin
<1>11. Flags'
  BY <1>2, <1>3, <1>7 DEF Flags, Kept
<1>12. <<>> \in Seq(Nat) /\ n \in {1, 2}
  OBVIOUS
<1>13. lines' # <<>>
  BY <1>5
<1> HIDE DEF n
<1>14. QED
  BY <1>2, <1>10, <1>11, <1>12, <1>13 DEF Origins

LEMMA OriginsHeader ==
  ASSUME PInv, EncodeHeader PROVE Origins'
<1> SUFFICES ASSUME mode' = "send" PROVE Origins'
  BY DEF Origins
<1> PICK e : e = encoded + 1
  OBVIOUS
<1> PICK h : h = headers[encoded + 1]
  OBVIOUS
<1>1. /\ lines' = IF h.key = "host" THEN lines ELSE Append(lines, h)
      /\ own' = (own \/ h.key = "content-length")
      /\ hasConn' = (hasConn \/ h.key = "connection")
      /\ encoded' = e /\ encoded < Len(headers)
      /\ UNCHANGED <<mode, headers, given, pc>> /\ pc = "encode" /\ lines # <<>>
  BY DEF EncodeHeader, bodyVars
<1>2. lines \in Seq(Line) /\ encoded \in Nat /\ h \in Line /\ own \in BOOLEAN /\ hasConn \in BOOLEAN
  <2>1. h \in CallerHeaders
    BY <1>1 DEF PInv, IInv, TypeOK
  <2>2. QED
    BY <2>1, CallerAssumption DEF PInv, IInv, TypeOK
<1>3. PICK n \in {1, 2}, from \in Seq(Nat) : Origin(n, from)
  BY <1>1 DEF PInv, Origins
<1>4. Kept(encoded)' = IF h.key = "host" THEN Kept(encoded) ELSE Kept(encoded) \cup {e}
  <2>1. Kept(encoded)' = Kept(e)
    BY <1>1 DEF Kept
  <2>2. QED
    BY <1>2, <2>1, KeptNext
<1>5. \A k \in Kept(encoded) : k \in Nat /\ k < e
  BY <1>2 DEF Kept
<1>6. Flags'
  BY <1>1, <1>2, <1>4 DEF PInv, Origins, Flags
<1>7. \E m \in {1, 2}, to \in Seq(Nat) : Origin(m, to)'
  <2>1. CASE h.key = "host"
    <3>1. lines' = lines /\ Kept(encoded)' = Kept(encoded)
      BY <1>1, <1>4, <2>1
    <3>2. Starts(n)' /\ Enumerates(from)'
      BY <1>3, <3>1 DEF Origin, Starts, Enumerates
    <3>3. Ends(n + Len(from))'
      BY <1>1, <1>3, <3>1 DEF Origin, Ends
    <3>4. \A i \in 1 .. Len(from) : lines'[n + i] = Written(headers[from[i]])'
      BY <1>1, <1>3, <3>1 DEF Origin, Written
    <3>5. Origin(n, from)'
      BY <1>1, <3>2, <3>3, <3>4 DEF Origin
    <3>6. QED
      BY <3>5
  <2>2. CASE h.key # "host"
    <3> PICK to : to = Append(from, e)
      OBVIOUS
    <3>1. lines' = Append(lines, h) /\ Kept(encoded)' = Kept(encoded) \cup {e}
      BY <1>1, <1>4, <2>2
    <3>2. /\ to \in Seq(Nat) /\ Len(to) = Len(from) + 1 /\ to[Len(to)] = e
          /\ \A i \in 1 .. Len(from) : to[i] = from[i]
      BY <1>2
    <3>3. Enumerates(from) /\ Starts(n) /\ Len(lines) = n + Len(from)
          /\ \A i \in 1 .. Len(from) : lines[n + i] = headers[from[i]]
      BY <1>1, <1>3 DEF Origin, Ends, Written
    <3>4. /\ Len(lines') = Len(lines) + 1 /\ lines'[Len(lines) + 1] = h
          /\ \A i \in 1 .. Len(lines) : lines'[i] = lines[i]
      BY <1>2, <3>1
    <3>5. Len(from) \in Nat
      OBVIOUS
    <3>6. Enumerates(to)'
      <4>1. \A i \in 1 .. Len(to) : to[i] \in Kept(encoded)'
        BY <3>1, <3>2, <3>3, <3>5 DEF Enumerates
      <4>2. \A i, j \in 1 .. Len(to) : i < j => to[i] < to[j]
        <5> SUFFICES ASSUME NEW i \in 1 .. Len(to), NEW j \in 1 .. Len(to), i < j
                     PROVE  to[i] < to[j]
          OBVIOUS
        <5>1. i \in 1 .. Len(from) /\ to[i] = from[i] /\ from[i] \in Kept(encoded)
          BY <3>2, <3>3, <3>5 DEF Enumerates
        <5>2. CASE j \in 1 .. Len(from)
          BY <3>2, <3>3, <5>1, <5>2 DEF Enumerates
        <5>3. CASE j = Len(to)
          BY <1>5, <3>2, <5>1, <5>3
        <5>4. j \in 1 .. Len(from) \/ j = Len(to)
          BY <3>2, <3>5
        <5>5. QED
          BY <5>2, <5>3, <5>4
      <4>3. \A k \in Kept(encoded)' : \E i \in 1 .. Len(to) : to[i] = k
        <5> SUFFICES ASSUME NEW k \in Kept(encoded)'
                     PROVE  \E i \in 1 .. Len(to) : to[i] = k
          OBVIOUS
        <5>1. CASE k = e
          <6>1. Len(to) \in 1 .. Len(to) /\ to[Len(to)] = k
            BY <3>2, <3>5, <5>1
          <6>2. QED
            BY <6>1
        <5>2. CASE k \in Kept(encoded)
          <6>1. PICK i \in 1 .. Len(from) : from[i] = k
            BY <3>3, <5>2 DEF Enumerates
          <6>2. i \in 1 .. Len(to) /\ to[i] = k
            BY <3>2, <3>5, <6>1
          <6>3. QED
            BY <6>2
        <5>3. QED
          BY <3>1, <5>1, <5>2
      <4>4. QED
        BY <3>2, <4>1, <4>2, <4>3 DEF Enumerates
    <3>7. Starts(n)'
      <4>1. Len(lines) \in Nat
        BY <1>2
      <4>2. 1 \in 1 .. Len(lines) /\ (n = 2 => 2 \in 1 .. Len(lines))
        BY <3>3, <4>1 DEF Starts
      <4>3. lines'[1] = lines[1] /\ (n = 2 => lines'[2] = lines[2])
        BY <3>4, <4>2
      <4>4. n <= Len(lines')
        BY <3>3, <3>4, <4>1 DEF Starts
      <4>5. QED
        BY <3>3, <4>3, <4>4 DEF Starts
    <3>8. Ends(n + Len(to))'
      BY <1>1, <3>2, <3>3, <3>4, <3>5 DEF Ends
    <3>9. \A i \in 1 .. Len(to) : lines'[n + i] = headers[to[i]]
      <4> SUFFICES ASSUME NEW i \in 1 .. Len(to) PROVE lines'[n + i] = headers[to[i]]
        OBVIOUS
      <4>1. CASE i \in 1 .. Len(from)
        <5>1. n + i \in 1 .. Len(lines)
          BY <3>3, <3>5, <4>1 DEF Starts
        <5>2. QED
          BY <3>2, <3>3, <3>4, <4>1, <5>1
      <4>2. CASE i = Len(from) + 1
        BY <3>2, <3>3, <3>4, <3>5, <4>2
      <4>3. QED
        BY <3>2, <3>5, <4>1, <4>2
    <3>10. Origin(n, to)'
      BY <1>1, <3>6, <3>7, <3>8, <3>9 DEF Origin, Written
    <3>11. QED
      BY <3>2, <3>10
  <2>3. QED
    BY <2>1, <2>2
<1>8. lines' # <<>>
  BY <1>1, <1>2
<1>9. QED
  BY <1>1, <1>6, <1>7, <1>8 DEF Origins

LEMMA OriginsEnd ==
  ASSUME PInv, EncodeEnd PROVE Origins'
<1> SUFFICES ASSUME mode' = "send" PROVE Origins'
  BY DEF Origins
<1> PICK c : c = ContentLengthLine(bodyLen)
  OBVIOUS
<1> PICK k : k = SectionLine("connection", 0)
  OBVIOUS
<1>1. /\ lines' = (lines \o (IF own THEN <<>> ELSE <<c>>)) \o (IF hasConn THEN <<>> ELSE <<k>>)
      /\ UNCHANGED <<mode, headers, encoded, own, hasConn, bodyLen, given>>
      /\ pc = "encode" /\ pc' = "check" /\ lines # <<>> /\ encoded = Len(headers)
  BY DEF EncodeEnd, bodyVars
<1>2. lines \in Seq(Line) /\ Len(lines) \in Nat /\ c \in Line /\ k \in Line
      /\ own \in BOOLEAN /\ hasConn \in BOOLEAN
  BY LengthLineType, SectionType DEF PInv, IInv, TypeOK, Keys
<1>3. PICK n \in {1, 2}, from \in Seq(Nat) : Origin(n, from)
  BY <1>1 DEF PInv, Origins
<1> PICK mid : mid = lines \o (IF own THEN <<>> ELSE <<c>>)
  OBVIOUS
<1>4. /\ mid \in Seq(Line) /\ Len(mid) = Len(lines) + (IF own THEN 0 ELSE 1)
      /\ \A i \in 1 .. Len(lines) : mid[i] = lines[i]
      /\ ~own => mid[Len(lines) + 1] = c
  <2>1. CASE own
    <3>1. mid = lines
      BY <1>2, <2>1, NoneMore
    <3>2. QED
      BY <1>2, <2>1, <3>1
  <2>2. CASE ~own
    <3>1. mid = lines \o <<c>>
      BY <2>2
    <3>2. QED
      BY <1>2, <2>2, <3>1, OneMore
  <2>3. QED
    BY <2>1, <2>2
<1>5. /\ lines' \in Seq(Line) /\ Len(lines') = Len(mid) + (IF hasConn THEN 0 ELSE 1)
      /\ \A i \in 1 .. Len(mid) : lines'[i] = mid[i]
      /\ ~hasConn => lines'[Len(mid) + 1] = k
  <2>1. CASE hasConn
    <3>1. lines' = mid
      BY <1>1, <1>4, <2>1, NoneMore
    <3>2. QED
      BY <1>4, <2>1, <3>1
  <2>2. CASE ~hasConn
    <3>1. lines' = mid \o <<k>>
      BY <1>1, <2>2
    <3>2. QED
      BY <1>2, <1>4, <2>2, <3>1, OneMore
  <2>3. QED
    BY <2>1, <2>2
<1>6. \A i \in 1 .. Len(lines) : lines'[i] = lines[i]
  <2>1. \A i \in 1 .. Len(lines) : i \in 1 .. Len(mid)
    BY <1>2, <1>4
  <2>2. QED
    BY <1>4, <1>5, <2>1
<1>7. Starts(n) /\ Len(lines) = n + Len(from) /\ Enumerates(from)
      /\ \A i \in 1 .. Len(from) : lines[n + i] = headers[from[i]]
  BY <1>1, <1>3 DEF Origin, Ends, Written
<1>8. Starts(n)'
  <2>1. 1 \in 1 .. Len(lines) /\ (n = 2 => 2 \in 1 .. Len(lines))
    BY <1>2, <1>7 DEF Starts
  <2>2. lines'[1] = lines[1] /\ (n = 2 => lines'[2] = lines[2])
    BY <1>6, <2>1
  <2>3. n <= Len(lines')
    BY <1>2, <1>4, <1>5, <1>7 DEF Starts
  <2>4. QED
    BY <1>7, <2>2, <2>3 DEF Starts
<1>9. Enumerates(from)'
  BY <1>1, <1>7 DEF Enumerates, Kept
<1>10. Ends(n + Len(from))'
  <2>1. Len(lines') = (n + Len(from)) + (IF own THEN 0 ELSE 1) + (IF hasConn THEN 0 ELSE 1)
    BY <1>2, <1>4, <1>5, <1>7
  <2>2. ~own => lines'[(n + Len(from)) + 1] = c
    BY <1>2, <1>4, <1>5, <1>7
  <2>3. ~hasConn => lines'[Len(lines')] = k
    BY <1>2, <1>4, <1>5
  <2>4. c = ContentLengthLine(given)
    BY <1>1 DEF PInv, IInv, Lengths
  <2>5. QED
    BY <1>1, <2>1, <2>2, <2>3, <2>4 DEF Ends, Written
<1>11. \A i \in 1 .. Len(from) : lines'[n + i] = Written(headers[from[i]])'
  <2>1. \A i \in 1 .. Len(from) : n + i \in 1 .. Len(lines)
    BY <1>2, <1>7
  <2>2. QED
    BY <1>1, <1>6, <1>7, <2>1 DEF Written
<1>12. Origin(n, from)'
  BY <1>1, <1>8, <1>9, <1>10, <1>11 DEF Origin
<1>13. Flags'
  BY <1>1 DEF PInv, Origins, Flags, Kept
<1>14. lines' # <<>>
  <2>1. Len(lines') >= 1
    BY <1>2, <1>4, <1>5, <1>7 DEF Starts
  <2>2. QED
    BY <2>1
<1>15. QED
  BY <1>1, <1>12, <1>13, <1>14 DEF Origins

(* A request that validation takes begins with the template's first two    *)
(* lines: no other line can be its request line or its Host.               *)
LEMMA StartsRight ==
  ASSUME PInv, mode = "send", pc = "check", HeadersValid,
         NEW n \in {1, 2}, NEW from \in Seq(Nat), Origin(n, from)
  PROVE  n = 2 /\ lines[1].text = "tmpl" /\ lines[2].text = "tmpl"
<1>1. lines \in Seq(Line) /\ Len(lines) \in Nat /\ DOMAIN lines = 1 .. Len(lines)
      /\ own \in BOOLEAN /\ hasConn \in BOOLEAN /\ Len(from) \in Nat
  BY DEF PInv, IInv, TypeOK
<1>2. \A i \in 1 .. Len(from) :
        lines[n + i].key # "request" /\ lines[n + i].key # "host"
  <2> SUFFICES ASSUME NEW i \in 1 .. Len(from)
               PROVE  lines[n + i].key # "request" /\ lines[n + i].key # "host"
    OBVIOUS
  <2>1. lines[n + i] = headers[from[i]] /\ from[i] \in Kept(encoded)
    BY DEF Origin, Enumerates, Written
  <2>2. headers[from[i]].key # "host" /\ headers[from[i]] \in CallerHeaders
    BY <2>1 DEF Kept, PInv, IInv, TypeOK
  <2>3. QED
    BY <2>1, <2>2, CallerAssumption
<1>3. Starts(n) /\ Ends(n + Len(from))
  BY DEF Origin
<1>4. /\ Len(lines) = n + Len(from) + (IF own THEN 0 ELSE 1) + (IF hasConn THEN 0 ELSE 1)
      /\ ~own => lines[n + Len(from) + 1].key = "content-length"
      /\ ~hasConn => lines[Len(lines)].key = "connection"
  <2>1. given \in Nat
    BY DEF PInv, IInv, TypeOK
  <2>2. ContentLengthLine(given).key = "content-length" /\ SectionLine("connection", 0).key = "connection"
    BY <2>1, LengthLineType, SectionType DEF Keys
  <2>3. QED
    BY <1>3, <2>2 DEF Ends, Written
<1>5. lines[1].key = "request" /\ (n = 2 => lines[2].key = "host")
  BY <1>3 DEF Starts, SectionLine
<1>6. \A i \in 1 .. Len(lines) :
        /\ lines[i].key = "request" => i = 1
        /\ lines[i].key = "host" => i = 2 /\ n = 2
  <2> SUFFICES ASSUME NEW i \in 1 .. Len(lines), i # 1, ~(i = 2 /\ n = 2)
               PROVE  lines[i].key # "request" /\ lines[i].key # "host"
    BY <1>5
  <2>1. CASE i - n \in 1 .. Len(from)
    <3>1. n + (i - n) = i
      OBVIOUS
    <3>2. QED
      BY <1>2, <2>1, <3>1
  <2>2. CASE i - n \notin 1 .. Len(from)
    <3>1. (~own /\ i = n + Len(from) + 1) \/ (~hasConn /\ i = Len(lines))
      BY <1>1, <1>4, <2>2
    <3>2. QED
      BY <1>4, <3>1
  <2>3. QED
    BY <2>1, <2>2
<1>7. \E i \in 1 .. Len(lines) : lines[i].key = "request" /\ lines[i].text \in {"tmpl", "same"}
  BY <1>1 DEF HeadersValid, Checked, LastIs
<1>8. \E i \in 1 .. Len(lines) : lines[i].key = "host" /\ lines[i].text \in {"tmpl", "same"}
  BY <1>1 DEF HeadersValid, Checked, LastIs
<1>9. QED
  BY <1>3, <1>6, <1>7, <1>8 DEF Starts

LEMMA OriginsRefuse ==
  ASSUME PInv, Refuse PROVE Origins'
<1>1. /\ UNCHANGED <<mode, headers, encoded, lines, own, hasConn, given>>
      /\ pc = "check" /\ pc' = "refused"
  BY DEF Refuse, bodyVars
<1>2. ASSUME NEW n \in {1, 2}, NEW from \in Seq(Nat), Origin(n, from)
      PROVE  Origin(n, from)'
  BY <1>1, <1>2 DEF Origin, Starts, Enumerates, Kept, Ends, Written
<1>3. Flags' <=> Flags
  BY <1>1 DEF Flags, Kept
<1>4. QED
  BY <1>1, <1>2, <1>3 DEF PInv, Origins

LEMMA OriginsAsIs ==
  ASSUME PInv, AcceptAsIs PROVE Origins'
<1> SUFFICES ASSUME mode' = "send" PROVE Origins'
  BY DEF Origins
<1>1. /\ UNCHANGED <<mode, headers, encoded, lines, own, hasConn, given>>
      /\ pc = "check" /\ pc' = "sent" /\ HeadersValid /\ bodyLen = ContentLength
  BY DEF AcceptAsIs, bodyVars
<1>2. given = ContentLength
  BY <1>1 DEF PInv, IInv, Lengths
<1>3. PICK n \in {1, 2}, from \in Seq(Nat) : Origin(n, from)
  BY <1>1 DEF PInv, Origins
<1>4. n = 2 /\ lines[1].text = "tmpl" /\ lines[2].text = "tmpl"
  BY <1>1, <1>3, StartsRight
<1>5. ~(given < ContentLength)
  BY <1>2
<1>6. Origin(n, from)'
  BY <1>1, <1>3, <1>4, <1>5 DEF Origin, Starts, Enumerates, Kept, Ends, Written
<1>7. Flags'
  BY <1>1 DEF PInv, Origins, Flags, Kept
<1>8. QED
  BY <1>1, <1>2, <1>6, <1>7 DEF PInv, Origins

LEMMA OriginsPadded ==
  ASSUME PInv, AcceptPadded PROVE Origins'
<1> SUFFICES ASSUME mode' = "send" PROVE Origins'
  BY DEF Origins
<1>1. /\ UNCHANGED <<mode, headers, encoded, own, hasConn, given>>
      /\ pc = "check" /\ pc' = "sent" /\ HeadersValid /\ bodyLen < ContentLength
      /\ lines' = Replaced
  BY DEF AcceptPadded, bodyVars, Replaced
<1>2. given < ContentLength /\ given \in Nat
  BY <1>1 DEF PInv, IInv, TypeOK, Lengths
<1>3. lines \in Seq(Line) /\ Len(lines) \in Nat /\ DOMAIN lines = 1 .. Len(lines)
      /\ own \in BOOLEAN /\ hasConn \in BOOLEAN
  BY DEF PInv, IInv, TypeOK
<1>4. PICK n \in {1, 2}, from \in Seq(Nat) : Origin(n, from)
  BY <1>1 DEF PInv, Origins
<1>5. n = 2 /\ lines[1].text = "tmpl" /\ lines[2].text = "tmpl"
  BY <1>1, <1>4, StartsRight
<1>6. /\ Len(lines') = Len(lines)
      /\ \A i \in 1 .. Len(lines) : lines'[i] =
            IF lines[i].key = "content-length" THEN ContentLengthLine(ContentLength) ELSE lines[i]
  <2>1. Len(lines') = Len(lines)
    BY <1>1, <1>3, ReplacedType
  <2>2. QED
    BY <1>1, <1>3, <2>1 DEF Replaced
<1>7. Starts(n) /\ Enumerates(from) /\ Ends(n + Len(from)) /\ Len(from) \in Nat
      /\ \A i \in 1 .. Len(from) : lines[n + i] = headers[from[i]]
  BY <1>1, <1>4 DEF Origin, Written
<1>8. Len(lines) = n + Len(from) + (IF own THEN 0 ELSE 1) + (IF hasConn THEN 0 ELSE 1)
  BY <1>1, <1>7 DEF Ends
<1>9. lines[1].key = "request" /\ lines[2].key = "host"
  BY <1>5, <1>7 DEF Starts, SectionLine
<1>10. lines'[1] = lines[1] /\ lines'[2] = lines[2]
  <2>1. 1 \in 1 .. Len(lines) /\ 2 \in 1 .. Len(lines)
    BY <1>3, <1>5, <1>7 DEF Starts
  <2>2. QED
    BY <1>6, <1>9, <2>1
<1>11. Starts(n)'
  BY <1>6, <1>7, <1>10 DEF Starts
<1>12. Enumerates(from)'
  BY <1>1, <1>7 DEF Enumerates, Kept
<1>13. \A h : Written(h)' =
         IF h.key = "content-length" THEN ContentLengthLine(ContentLength) ELSE h
  BY <1>1, <1>2 DEF Written
<1>14. Ends(n + Len(from))'
  <2>1. ~own => lines'[n + Len(from) + 1] = Written(ContentLengthLine(given))'
    <3>1. ~own => lines[n + Len(from) + 1] = ContentLengthLine(given)
      BY <1>1, <1>7 DEF Ends, Written
    <3>2. ContentLengthLine(given).key = "content-length"
      BY <1>2, LengthLineType
    <3>3. ~own => n + Len(from) + 1 \in 1 .. Len(lines)
      BY <1>3, <1>7, <1>8
    <3>4. ContentLengthLine(given)' = ContentLengthLine(given)
      BY <1>1
    <3>5. QED
      BY <1>6, <1>13, <3>1, <3>2, <3>3, <3>4
  <2>2. ~hasConn => lines'[Len(lines')] = SectionLine("connection", 0)
    <3>1. ~hasConn => lines[Len(lines)] = SectionLine("connection", 0)
      BY <1>1, <1>7 DEF Ends
    <3>2. SectionLine("connection", 0).key = "connection"
      BY SectionType DEF Keys
    <3>3. Len(lines) \in 1 .. Len(lines)
      BY <1>3, <1>7 DEF Starts
    <3>4. QED
      BY <1>6, <3>1, <3>2, <3>3
  <2>3. encoded = Len(headers)
    BY <1>1, <1>7 DEF Ends
  <2>4. QED
    BY <1>1, <1>6, <1>8, <2>1, <2>2, <2>3 DEF Ends
<1>15. \A i \in 1 .. Len(from) : lines'[n + i] = Written(headers[from[i]])'
  <2> SUFFICES ASSUME NEW i \in 1 .. Len(from)
               PROVE  lines'[n + i] = Written(headers[from[i]])'
    OBVIOUS
  <2>1. n + i \in 1 .. Len(lines)
    BY <1>3, <1>7, <1>8
  <2>2. lines[n + i] = headers[from[i]] /\ headers'[from[i]] = headers[from[i]]
    BY <1>1, <1>7
  <2>3. QED
    BY <1>6, <1>13, <2>1, <2>2
<1>16. Origin(n, from)'
  BY <1>5, <1>10, <1>11, <1>12, <1>14, <1>15 DEF Origin
<1>17. Flags'
  BY <1>1 DEF PInv, Origins, Flags, Kept
<1>18. lines' # <<>> /\ given <= ContentLength
  <2>1. Len(lines') # 0
    BY <1>3, <1>6, <1>7 DEF Starts
  <2>2. QED
    BY <1>2, <2>1
<1>19. QED
  BY <1>1, <1>16, <1>17, <1>18 DEF Origins

(* Two or three headers, if these are all that is written out.             *)
LEMMA EnumerateTwo ==
  ASSUME NEW from \in Seq(Nat), Enumerates(from),
         NEW a, NEW t, Kept(encoded) = {a, t}, a < t
  PROVE  Len(from) = 2 /\ from[1] = a /\ from[2] = t
<1> PICK n : n = Len(from)
  OBVIOUS
<1>1. n \in Nat
  OBVIOUS
<1>2. PICK i, j \in 1 .. n : from[i] = a /\ from[j] = t
  BY DEF Enumerates
<1>3. \A x \in 1 .. n : from[x] \in {a, t}
  BY DEF Enumerates
<1>4. a \in Nat /\ t \in Nat
  <2>1. Kept(encoded) \subseteq Nat
    BY DEF Kept
  <2>2. QED
    BY <2>1
<1>5. \A x, y \in 1 .. n : x < y => from[x] < from[y]
  BY DEF Enumerates
<1>6. i < j
  BY <1>1, <1>2, <1>4, <1>5
<1>7. ~(n >= 3)
  <2> SUFFICES ASSUME n >= 3 PROVE FALSE
    OBVIOUS
  <2>1. 1 \in 1 .. n /\ 2 \in 1 .. n /\ 3 \in 1 .. n
    BY <1>1
  <2>2. from[1] < from[2] /\ from[2] < from[3]
    BY <1>5, <2>1
  <2>3. from[1] \in {a, t} /\ from[2] \in {a, t} /\ from[3] \in {a, t}
    BY <1>3, <2>1
  <2>4. QED
    BY <1>4, <2>2, <2>3
<1>8. i = 1 /\ j = 2 /\ n = 2
  BY <1>1, <1>2, <1>6, <1>7
<1>9. QED
  BY <1>2, <1>8

LEMMA EnumerateThree ==
  ASSUME NEW from \in Seq(Nat), Enumerates(from),
         NEW a \in Nat, NEW t \in Nat, NEW l \in Nat,
         Kept(encoded) = {a, t, l}, a < t, t < l
  PROVE  Len(from) = 3 /\ from[1] = a /\ from[2] = t /\ from[3] = l
<1> PICK n \in Nat : n = Len(from)
  OBVIOUS
<1>1. PICK i, j, k \in 1 .. n : from[i] = a /\ from[j] = t /\ from[k] = l
  BY DEF Enumerates
<1>2. \A x \in 1 .. n : from[x] \in {a, t, l}
  BY DEF Enumerates
<1>3. \A x, y \in 1 .. n : x < y => from[x] < from[y]
  BY DEF Enumerates
<1>4. i < j /\ j < k
  <2>1. ~(j < i) /\ ~(k < j)
    BY <1>1, <1>3
  <2>2. i # j /\ j # k
    BY <1>1
  <2>3. QED
    BY <2>1, <2>2
<1>5. ~(n >= 4)
  <2> SUFFICES ASSUME n >= 4 PROVE FALSE
    OBVIOUS
  <2>1. 1 \in 1 .. n /\ 2 \in 1 .. n /\ 3 \in 1 .. n /\ 4 \in 1 .. n
    OBVIOUS
  <2>2. PICK p, q, r, s : p = from[1] /\ q = from[2] /\ r = from[3] /\ s = from[4]
    OBVIOUS
  <2>3. p \in {a, t, l} /\ q \in {a, t, l} /\ r \in {a, t, l} /\ s \in {a, t, l}
    BY <1>2, <2>1, <2>2
  <2>4. p < q /\ q < r /\ r < s
    <3>1. from[1] < from[2] /\ from[2] < from[3] /\ from[3] < from[4]
      BY <1>3, <2>1
    <3>2. QED
      BY <2>2, <3>1
  <2>5. p \in Nat /\ q \in Nat /\ r \in Nat /\ s \in Nat
    BY <2>3
  <2>6. q # a
    BY <2>3, <2>4, <2>5
  <2>7. r = l
    BY <2>3, <2>4, <2>5, <2>6
  <2>8. QED
    BY <2>3, <2>4, <2>5, <2>7
<1>6. i = 1 /\ j = 2 /\ k = 3 /\ n = 3
  BY <1>4, <1>5
<1>7. QED
  BY <1>1, <1>6

LEMMA Sections ==
  /\ Section(1) = SectionLine("request", 0) /\ Section(2) = SectionLine("host", 0)
  /\ Section(3) = SectionLine("authorization", 0) /\ Section(4) = SectionLine("content-type", 0)
  /\ Section(5) = ContentLengthLine(ContentLength) /\ Section(6) = SectionLine("connection", 0)
BY DEF Section, SectionKeys, ContentLengthLine

LEMMA SectionFacts ==
  /\ \A i \in 1 .. 6 : Section(i) \in Line /\ Section(i).text = "tmpl"
  /\ Section(3).key = "authorization" /\ Section(4).key = "content-type"
  /\ Section(5).key = "content-length" /\ Section(6).key = "connection"
<1>1. \A k \in Keys, n \in Nat :
        /\ SectionLine(k, n) \in Line /\ SectionLine(k, n).key = k
        /\ SectionLine(k, n).text = "tmpl"
  BY SectionType
<1>2. {"request", "host", "authorization", "content-type", "content-length", "connection"}
        \subseteq Keys
  BY DEF Keys
<1>3. \A i : i \in 1 .. 6 <=> i \in {1, 2, 3, 4, 5, 6}
  OBVIOUS
<1>4. QED
  BY <1>1, <1>2, <1>3, Sections DEF ContentLengthLine

LEMMA LineLengths ==
  ASSUME NEW s \in Seq(Line) PROVE \A i \in 1 .. Len(s) : s[i].len \in Nat
<1>1. \A i \in 1 .. Len(s) : s[i] \in Line
  OBVIOUS
<1>2. QED
  BY <1>1 DEF Line

(* The sums SumLen is made of.                                             *)
Sums(f, s, n) ==
  /\ f \in [0 .. n -> Nat]
  /\ f[0] = 0
  /\ \A i \in 1 .. n : f[i] = f[i-1] + s[i].len

LEMMA LeastNatural ==
  ASSUME NEW T, T \subseteq Nat, T # {}
  PROVE  \E m \in T : \A k \in T : m <= k
<1> DEFINE R == OpToRel(<, Nat)
<1>1. IsWellFoundedOn(R, Nat)
  BY NatLessThanWellFounded
<1>2. \A i, j \in Nat : i < j => <<i, j>> \in R
  BY DEF OpToRel
<1> HIDE DEF R
<1>3. PICK m \in T : \A k \in T : ~(<<k, m>> \in R)
  BY <1>1, WFMin, Zenon
<1>4. \A k \in T : ~(k < m)
  BY <1>2, <1>3, Zenon
<1>5. \A k \in T : m <= k
  BY <1>4
<1> QED
  BY <1>5

LEMMA SumsLonger ==
  ASSUME NEW s \in Seq(Line), NEW n \in Nat, n < Len(s), NEW f, Sums(f, s, n)
  PROVE  \E g : Sums(g, s, n + 1)
<1>1. n + 1 \in 1 .. Len(s) /\ s[n + 1].len \in Nat
  <2>1. n + 1 \in 1 .. Len(s)
    OBVIOUS
  <2>2. QED
    BY <2>1, LineLengths
<1> PICK len \in Nat : len = s[n + 1].len
  BY <1>1
<1> PICK m \in Nat : m = n + 1
  OBVIOUS
<1>2. f[n] \in Nat
  BY DEF Sums
<1> DEFINE g == [i \in 0 .. m |-> IF i = m THEN f[n] + len ELSE f[i]]
<1>3. \A i \in 0 .. m : g[i] = IF i = m THEN f[n] + len ELSE f[i]
  OBVIOUS
<1>4. \A i \in 0 .. m : i # m => i \in 0 .. n /\ f[i] \in Nat
  BY DEF Sums
<1>5. g \in [0 .. m -> Nat]
  BY <1>2, <1>4
<1> HIDE DEF g
<1>6. g[0] = 0
  BY <1>3 DEF Sums
<1>7. ASSUME NEW i \in 1 .. m PROVE g[i] = g[i-1] + s[i].len
  <2>1. i \in 0 .. m /\ i - 1 \in 0 .. m /\ i - 1 # m
    OBVIOUS
  <2>2. g[i-1] = f[i-1]
    BY <1>3, <2>1
  <2>3. CASE i = m
    <3>1. i - 1 = n
      BY <2>3
    <3>2. QED
      BY <1>3, <2>1, <2>2, <2>3, <3>1
  <2>4. CASE i # m
    <3>1. i \in 1 .. n
      BY <2>4
    <3>2. g[i] = f[i] /\ f[i] = f[i-1] + s[i].len
      BY <1>3, <2>1, <2>4, <3>1 DEF Sums
    <3>3. QED
      BY <2>2, <3>2
  <2>5. QED
    BY <2>3, <2>4
<1>8. Sums(g, s, m)
  BY <1>5, <1>6, <1>7 DEF Sums
<1>9. QED
  BY <1>8

LEMMA SumsExist ==
  ASSUME NEW s \in Seq(Line), NEW n \in 0 .. Len(s) PROVE \E f : Sums(f, s, n)
<1> SUFFICES ASSUME ~\E f : Sums(f, s, n) PROVE FALSE
  OBVIOUS
<1> DEFINE T == {i \in 0 .. Len(s) : ~\E f : Sums(f, s, i)}
<1>1. T \subseteq Nat /\ T # {}
  OBVIOUS
<1>2. PICK m \in T : \A k \in T : m <= k
  <2> HIDE DEF T
  <2>1. QED
    BY <1>1, LeastNatural
<1>3. m \in 0 .. Len(s) /\ ~\E f : Sums(f, s, m)
  OBVIOUS
<1>4. m # 0
  <2> DEFINE z == [i \in 0 .. 0 |-> 0]
  <2>1. z \in [0 .. 0 -> Nat] /\ z[0] = 0
    OBVIOUS
  <2> HIDE DEF z
  <2>2. Sums(z, s, 0)
    BY <2>1 DEF Sums
  <2>3. QED
    BY <1>3, <2>2
<1>5. m - 1 \in 0 .. Len(s) /\ m - 1 < m /\ m - 1 < Len(s) /\ m - 1 \in Nat /\ (m - 1) + 1 = m
  BY <1>3, <1>4
<1>6. m - 1 \notin T
  <2> HIDE DEF T
  <2>1. QED
    BY <1>1, <1>2, <1>5
<1>7. PICK f : Sums(f, s, m - 1)
  BY <1>5, <1>6
<1>8. \E g : Sums(g, s, (m - 1) + 1)
  BY <1>5, <1>7, SumsLonger
<1>9. QED
  BY <1>3, <1>5, <1>8

(* SumLen is the last of the sums.                                         *)
LEMMA SumLenIs ==
  ASSUME NEW s \in Seq(Line)
  PROVE  \E f : Sums(f, s, Len(s)) /\ SumLen(s) = f[Len(s)]
<1> DEFINE IsSum(f) == f = [i \in 0 .. Len(s) |-> IF i = 0 THEN 0 ELSE f[i-1] + s[i].len]
           sum == CHOOSE f : IsSum(f)
<1>1. Len(s) \in 0 .. Len(s) /\ Len(s) \in Nat
  OBVIOUS
<1>2. PICK f : Sums(f, s, Len(s))
  BY <1>1, SumsExist
<1>3. \A i \in 0 .. Len(s) : f[i] = IF i = 0 THEN 0 ELSE f[i-1] + s[i].len
  <2>1. \A i \in 0 .. Len(s) : i # 0 => i \in 1 .. Len(s)
    BY <1>1
  <2>2. QED
    BY <1>2, <2>1 DEF Sums
<1>4. IsSum(f)
  <2>1. f = [i \in 0 .. Len(s) |-> f[i]]
    BY <1>2 DEF Sums
  <2>2. QED
    BY <1>3, <2>1
<1>5. IsSum(sum)
  BY <1>4
<1>6. SumLen(s) = sum[Len(s)]
  BY DEF SumLen, sum
<1> HIDE DEF sum
<1>7. /\ DOMAIN sum = 0 .. Len(s) /\ sum[0] = 0
      /\ \A i \in 1 .. Len(s) : sum[i] = sum[i-1] + s[i].len
  <2>1. \A i \in 1 .. Len(s) : i \in 0 .. Len(s) /\ i # 0
    BY <1>1
  <2>2. 0 \in 0 .. Len(s)
    BY <1>1
  <2>3. QED
    BY <1>5, <2>1, <2>2
<1>8. \A i \in 0 .. Len(s) : sum[i] \in Nat
  <2> SUFFICES ASSUME NEW i \in 0 .. Len(s), sum[i] \notin Nat PROVE FALSE
    OBVIOUS
  <2> DEFINE T == {j \in 0 .. Len(s) : sum[j] \notin Nat}
  <2>1. T \subseteq Nat /\ T # {}
    OBVIOUS
  <2>2. PICK m \in T : \A k \in T : m <= k
    <3> HIDE DEF T
    <3>1. QED
      BY <2>1, LeastNatural
  <2>3. m \in 1 .. Len(s) /\ sum[m] \notin Nat /\ m - 1 \in 0 .. Len(s) /\ m - 1 < m
    BY <1>7
  <2>4. m - 1 \notin T
    <3> HIDE DEF T
    <3>1. QED
      BY <2>1, <2>2, <2>3
  <2>5. sum[m - 1] \in Nat
    BY <2>3, <2>4
  <2>6. s[m].len \in Nat
    BY <2>3, LineLengths
  <2>7. QED
    BY <1>7, <2>3, <2>5, <2>6
<1>9. sum \in [0 .. Len(s) -> Nat]
  <2>1. sum = [i \in 0 .. Len(s) |-> sum[i]]
    BY <1>5
  <2>2. QED
    BY <1>8, <2>1
<1>10. Sums(sum, s, Len(s))
  BY <1>7, <1>9 DEF Sums
<1>11. QED
  BY <1>6, <1>10

(* The six lines of the template and no other, which is what a proof needs *)
(* in the end, come from exactly these headers.                            *)
IsTemplate == Len(lines) = 6 /\ \A i \in 1 .. 6 : lines[i] = Section(i)

LEMMA TemplateLong ==
  ASSUME TypeOK, pc = "sent", IsTemplate
  PROVE  ~(WireLen < BodyStart + ContentLength)
<1> PICK s : s = [i \in 1 .. 6 |-> Section(i)]
  OBVIOUS
<1>1. s \in Seq(Line) /\ Len(s) = 6
  BY SectionFacts
<1>2. lines = s
  BY <1>1 DEF IsTemplate, TypeOK
<1>3. SumLen(s) \in Nat
  <2>1. PICK f : Sums(f, s, Len(s)) /\ SumLen(s) = f[Len(s)]
    BY <1>1, SumLenIs
  <2>2. Len(s) \in 0 .. Len(s) /\ f \in [0 .. Len(s) -> Nat]
    BY <1>1, <2>1 DEF Sums
  <2>3. QED
    BY <2>1, <2>2
<1>4. SumLen(lines) = SumLen(s)
  BY <1>2
<1>5. bodyLen = ContentLength
  BY DEF TypeOK
<1>6. WireLen = SumLen(s) + 2 + ContentLength /\ BodyStart = SumLen(s) + 2
  BY <1>4, <1>5 DEF WireLen, BodyStart
<1> PICK n \in Nat : n = SumLen(s)
  BY <1>3
<1>7. QED
  BY <1>6

LEMMA TemplateIfProvable ==
  ASSUME PInv, mode = "send", pc = "sent", ProvableHeaders PROVE IsTemplate
<1>1. PICK n \in {1, 2}, from \in Seq(Nat) : lines # <<>> /\ Origin(n, from)
  BY DEF PInv, Origins
<1>2. /\ n = 2 /\ lines[1].text = "tmpl" /\ lines[2].text = "tmpl" /\ Starts(n)
      /\ Enumerates(from) /\ Ends(n + Len(from)) /\ encoded = Len(headers) /\ Flags
      /\ \A i \in 1 .. Len(from) : lines[n + i] = Written(headers[from[i]])
  BY <1>1 DEF Origin, Ends, PInv, Origins
<1>3. lines[1] = Section(1) /\ lines[2] = Section(2)
  BY <1>2, Sections DEF Starts, SectionLine
<1>4. \A h : h.key # "content-length" => Written(h) = h
  BY DEF Written
<1>5. PICK a \in Kept(encoded), t \in Kept(encoded) :
        /\ a < t /\ headers[a] = Section(3) /\ headers[t] = Section(4)
        /\ \/ Kept(encoded) = {a, t}
           \/ \E l \in Kept(encoded) :
                /\ Kept(encoded) = {a, t, l} /\ t < l
                /\ headers[l].key = "content-length" /\ given < ContentLength
  BY <1>2 DEF ProvableHeaders
<1>6. given <= ContentLength /\ given \in Nat
  BY DEF PInv, IInv, TypeOK, Origins
<1>7. Written(Section(3)) = Section(3) /\ Written(Section(4)) = Section(4)
  BY <1>4, SectionFacts
<1>8. CASE Kept(encoded) = {a, t}
  <2>1. Len(from) = 2 /\ from[1] = a /\ from[2] = t
    BY <1>2, <1>5, <1>8, EnumerateTwo
  <2>2. own = FALSE /\ hasConn = FALSE
    BY <1>2, <1>5, <1>8, SectionFacts DEF Flags, PInv, IInv, TypeOK
  <2>3. lines[3] = Section(3) /\ lines[4] = Section(4)
    BY <1>2, <1>5, <1>7, <2>1
  <2>4. Len(lines) = 6 /\ lines[5] = Written(ContentLengthLine(given)) /\ lines[6] = Section(6)
    <3>1. Ends(4)
      BY <1>2, <2>1
    <3>2. /\ Len(lines) = 4 + 1 + 1 /\ lines[4 + 1] = Written(ContentLengthLine(given))
          /\ lines[Len(lines)] = Section(6)
      BY <2>2, <3>1, Sections DEF Ends
    <3>3. QED
      BY <3>2
  <2>5. Written(ContentLengthLine(given)) = Section(5)
    <3>1. ContentLengthLine(given).key = "content-length"
      BY <1>6, LengthLineType
    <3>2. QED
      BY <1>6, <3>1, Sections DEF Written
  <2>6. QED
    BY <1>3, <2>3, <2>4, <2>5 DEF IsTemplate
<1>9. ASSUME NEW l \in Kept(encoded),
             Kept(encoded) = {a, t, l}, t < l,
             headers[l].key = "content-length", given < ContentLength
      PROVE  IsTemplate
  <2>1. Len(from) = 3 /\ from[1] = a /\ from[2] = t /\ from[3] = l
    <3>1. a \in Nat /\ t \in Nat /\ l \in Nat
      BY <1>5, <1>9 DEF Kept
    <3>2. QED
      BY <1>2, <1>5, <1>9, <3>1, EnumerateThree
  <2>2. own = TRUE /\ hasConn = FALSE
    BY <1>2, <1>5, <1>9, SectionFacts DEF Flags, PInv, IInv, TypeOK
  <2>3. lines[3] = Section(3) /\ lines[4] = Section(4) /\ lines[5] = Written(headers[l])
    BY <1>2, <1>5, <1>7, <2>1
  <2>4. Written(headers[l]) = Section(5)
    BY <1>9, Sections DEF Written
  <2>5. Len(lines) = 6 /\ lines[6] = Section(6)
    <3>1. Ends(5)
      BY <1>2, <2>1
    <3>2. Len(lines) = 5 + 0 + 1 /\ lines[Len(lines)] = Section(6)
      BY <2>2, <3>1, Sections DEF Ends
    <3>3. QED
      BY <3>2
  <2>6. QED
    BY <1>3, <2>3, <2>4, <2>5 DEF IsTemplate
<1>10. QED
  BY <1>5, <1>8, <1>9

LEMMA ProvableIfTemplate ==
  ASSUME PInv, mode = "send", pc = "sent", IsTemplate PROVE ProvableHeaders
<1>1. PICK n \in {1, 2}, from \in Seq(Nat) : lines # <<>> /\ Origin(n, from)
  BY DEF PInv, Origins
<1>2. /\ n = 2 /\ Len(from) \in Nat
      /\ Enumerates(from) /\ Ends(2 + Len(from)) /\ encoded = Len(headers) /\ Flags
      /\ \A i \in 1 .. Len(from) : lines[2 + i] = Written(headers[from[i]])
  BY <1>1 DEF Origin, Ends, PInv, Origins
<1>3. Len(lines) = 2 + Len(from) + (IF own THEN 0 ELSE 1) + (IF hasConn THEN 0 ELSE 1)
      /\ Len(lines) = 6 /\ own \in BOOLEAN /\ hasConn \in BOOLEAN
  BY <1>2 DEF Ends, IsTemplate, PInv, IInv, TypeOK
<1>4. \A i \in 1 .. Len(from) :
        /\ from[i] \in Kept(encoded) /\ headers[from[i]] \in CallerHeaders
        /\ 2 + i \in 1 .. 6 /\ Written(headers[from[i]]) = Section(2 + i)
  <2> SUFFICES ASSUME NEW i \in 1 .. Len(from)
               PROVE  /\ from[i] \in Kept(encoded) /\ headers[from[i]] \in CallerHeaders
                      /\ 2 + i \in 1 .. 6 /\ Written(headers[from[i]]) = Section(2 + i)
    OBVIOUS
  <2>1. from[i] \in Kept(encoded)
    BY <1>2 DEF Enumerates
  <2>2. headers[from[i]] \in CallerHeaders
    BY <2>1 DEF Kept, PInv, IInv, TypeOK
  <2>3. 2 + i \in 1 .. 6
    <3> PICK m \in Nat : m = Len(from)
      BY <1>2
    <3>1. i \in 1 .. m /\ 6 = 2 + m + (IF own THEN 0 ELSE 1) + (IF hasConn THEN 0 ELSE 1)
      BY <1>3
    <3>2. m <= 4
      BY <3>1
    <3>3. QED
      BY <3>1, <3>2
  <2>4. QED
    BY <1>2, <2>1, <2>2, <2>3 DEF IsTemplate
<1>5. ~hasConn
  <2> SUFFICES ASSUME hasConn PROVE FALSE
    OBVIOUS
  <2>1. PICK k \in Kept(encoded) : headers[k].key = "connection"
    BY <1>2 DEF Flags
  <2>2. PICK i \in 1 .. Len(from) : from[i] = k
    BY <1>2 DEF Enumerates
  <2>3. headers[k] = Section(2 + i) /\ headers[k] \in CallerHeaders /\ 2 + i \in 1 .. 6
    BY <1>4, <2>1, <2>2 DEF Written
  <2>4. headers[k].text = "tmpl"
    BY <2>3, SectionFacts
  <2>5. QED
    BY <2>1, <2>3, <2>4, CallerAssumption
<1>6. Len(from) = IF own THEN 3 ELSE 2
  <2> PICK m \in Nat : m = Len(from)
    BY <1>2
  <2>1. 6 = 2 + m + (IF own THEN 0 ELSE 1) + 1
    BY <1>3, <1>5
  <2>2. QED
    BY <2>1
<1>7. Section(3).key # "content-length" /\ Section(4).key # "content-length"
  BY SectionFacts
<1>8. 1 \in 1 .. Len(from) /\ 2 \in 1 .. Len(from)
  BY <1>6
<1>9. headers[from[1]] = Section(3) /\ headers[from[2]] = Section(4)
  <2>1. Written(headers[from[1]]) = Section(3) /\ Written(headers[from[2]]) = Section(4)
    BY <1>4, <1>8
  <2>2. ContentLengthLine(ContentLength).key = "content-length"
    BY LengthLineType
  <2>3. QED
    BY <1>7, <2>1, <2>2 DEF Written
<1>10. from[1] \in Kept(encoded) /\ from[2] \in Kept(encoded) /\ from[1] < from[2]
  BY <1>2, <1>8 DEF Enumerates
<1>11. CASE ~own
  <2>1. \A i \in 1 .. Len(from) : i = 1 \/ i = 2
    BY <1>6, <1>11
  <2>2. Kept(encoded) = {from[1], from[2]}
    <3>1. \A k \in Kept(encoded) : k = from[1] \/ k = from[2]
      BY <1>2, <2>1 DEF Enumerates
    <3>2. QED
      BY <1>10, <3>1
  <2>3. QED
    BY <1>2, <1>9, <1>10, <2>2 DEF ProvableHeaders
<1>12. CASE own
  <2>1. 3 \in 1 .. Len(from) /\ \A i \in 1 .. Len(from) : i = 1 \/ i = 2 \/ i = 3
    BY <1>6, <1>12
  <2>2. from[3] \in Kept(encoded) /\ from[2] < from[3]
    BY <1>2, <1>8, <2>1 DEF Enumerates
  <2>3. Kept(encoded) = {from[1], from[2], from[3]}
    <3>1. \A k \in Kept(encoded) : \E i \in 1 .. Len(from) : from[i] = k
      BY <1>2 DEF Enumerates
    <3>2. \A k \in Kept(encoded) : k = from[1] \/ k = from[2] \/ k = from[3]
      BY <2>1, <3>1
    <3>3. QED
      BY <1>10, <2>2, <3>2
  <2>4. Written(headers[from[3]]) = Section(5) /\ headers[from[3]] \in CallerHeaders
    BY <1>4, <2>1
  <2>5. Section(5).key = "content-length" /\ Section(5).text = "tmpl"
    BY SectionFacts
  <2>6. headers[from[3]] # Section(5)
    BY <2>4, <2>5, CallerAssumption
  <2>7. headers[from[3]].key = "content-length" /\ given < ContentLength
    BY <2>4, <2>6 DEF Written
  <2>8. QED
    BY <1>2, <1>9, <1>10, <2>2, <2>3, <2>7 DEF ProvableHeaders
<1>13. QED
  BY <1>3, <1>11, <1>12

LEMMA PInvNext == PInv /\ [Next]_vars => PInv'
<1> SUFFICES ASSUME PInv, [Next]_vars PROVE PInv'
  OBVIOUS
<1>1. IInv'
  BY NextIInv DEF PInv
<1>2. ASSUME UNCHANGED <<mode, headers, given, outcome>> PROVE ProvableExactly'
  <2>1. ProvableHeaders' <=> ProvableHeaders
    BY <1>2 DEF ProvableHeaders, Kept
  <2>2. QED
    BY <1>2, <2>1 DEF PInv, ProvableExactly
<1>3. ASSUME UNCHANGED <<mode, headers, encoded, lines, own, hasConn, given, pc>> PROVE Origins'
  <2>1. ASSUME NEW n \in {1, 2}, NEW from \in Seq(Nat), Origin(n, from)
        PROVE  Origin(n, from)'
    BY <1>3, <2>1 DEF Origin, Starts, Enumerates, Kept, Ends, Written
  <2>2. Flags' <=> Flags
    BY <1>3 DEF Flags, Kept
  <2>3. QED
    BY <1>3, <2>1, <2>2 DEF PInv, Origins
<1>4. CASE EncodeStart
  BY <1>1, <1>2, <1>4, OriginsStart DEF PInv, EncodeStart, bodyVars
<1>5. CASE EncodeHeader
  BY <1>1, <1>2, <1>5, OriginsHeader DEF PInv, EncodeHeader, bodyVars
<1>6. CASE EncodeEnd
  BY <1>1, <1>2, <1>6, OriginsEnd DEF PInv, EncodeEnd, bodyVars
<1>7. CASE Refuse
  BY <1>1, <1>2, <1>7, OriginsRefuse DEF PInv, Refuse, bodyVars
<1>8. CASE AcceptAsIs
  BY <1>1, <1>2, <1>8, OriginsAsIs DEF PInv, AcceptAsIs, bodyVars
<1>9. CASE AcceptPadded
  BY <1>1, <1>2, <1>9, OriginsPadded DEF PInv, AcceptPadded, bodyVars
<1>10. CASE Prove
  <2>1. UNCHANGED <<mode, headers, encoded, lines, own, hasConn, given, pc>> /\ pc = "sent"
    BY <1>10 DEF Prove, bodyVars
  <2>2. outcome' = "proved" <=>
          ~(WireLen < BodyStart + ContentLength) /\ Satisfied /\ RegionIsBody
    BY <1>10 DEF Prove
  <2>3. Satisfied /\ RegionIsBody <=> IsTemplate
    BY DEF Satisfied, RegionIsBody, IsTemplate
  <2>4. IsTemplate => ~(WireLen < BodyStart + ContentLength)
    BY <2>1, TemplateLong DEF PInv, IInv
  <2>5. mode = "send" => (IsTemplate <=> ProvableHeaders)
    BY <2>1, TemplateIfProvable, ProvableIfTemplate
  <2>6. ProvableHeaders' <=> ProvableHeaders
    BY <2>1 DEF ProvableHeaders, Kept
  <2>7. ProvableExactly'
    BY <2>1, <2>2, <2>3, <2>4, <2>5, <2>6 DEF ProvableExactly
  <2>8. QED
    BY <1>1, <1>3, <2>1, <2>7 DEF PInv
<1>11. CASE UNCHANGED vars
  BY <1>1, <1>2, <1>3, <1>11 DEF PInv, vars, bodyVars
<1>12. QED
  BY <1>4, <1>5, <1>6, <1>7, <1>8, <1>9, <1>10, <1>11 DEF Next

(* Whatever headers and body a caller gives to send, an accepted request   *)
(* is proved if and only if the caller gave the Authorization and then the *)
(* Content-Type of the template, and at most a Content-Length behind them  *)
(* with a body that was padded (wire.rs:97-180 accepts far more).          *)
THEOREM Provable == Spec => []ProvableExactly
<1>1. Init => PInv
  <2>1. Init => ProvableExactly
    BY DEF Init, ProvableExactly
  <2>2. QED
    BY <2>1, InitIInv, OriginsInit DEF PInv
<1>2. PInv => ProvableExactly
  BY DEF PInv
<1>3. QED
  BY <1>1, <1>2, PInvNext, PTL DEF Spec

-------------------------------------------------------------------------------
(* How long the request on the wire is.                                    *)

(* Six lines at different places p of the wire, each at least as long as   *)
(* w says, make the wire as long as all six together.                      *)
Total(v) == v[1] + v[2] + v[3] + v[4] + v[5] + v[6]
Before(p, w, j) == [t \in 1 .. 6 |-> IF p[t] <= j THEN w[t] ELSE 0]

LEMMA TotalNat ==
  ASSUME NEW v \in [1 .. 6 -> Nat] PROVE Total(v) \in Nat
<1>1. /\ v[1] \in Nat /\ v[2] \in Nat /\ v[3] \in Nat
      /\ v[4] \in Nat /\ v[5] \in Nat /\ v[6] \in Nat
  OBVIOUS
<1>2. QED
  BY <1>1 DEF Total

LEMMA OneGrows ==
  ASSUME NEW a \in [1 .. 6 -> Nat], NEW b \in [1 .. 6 -> Nat], NEW len \in Nat, NEW hit \in 0 .. 6,
         \A t \in 1 .. 6 : hit # t => b[t] = a[t],
         \A t \in 1 .. 6 : hit = t => b[t] <= a[t] + len
  PROVE  Total(b) <= Total(a) + len
<1>1. \A t \in {1, 2, 3, 4, 5, 6} : t \in 1 .. 6
  OBVIOUS
<1>2. /\ a[1] \in Nat /\ a[2] \in Nat /\ a[3] \in Nat /\ a[4] \in Nat /\ a[5] \in Nat /\ a[6] \in Nat
      /\ b[1] \in Nat /\ b[2] \in Nat /\ b[3] \in Nat /\ b[4] \in Nat /\ b[5] \in Nat /\ b[6] \in Nat
  OBVIOUS
<1>3. /\ (hit # 1 => b[1] = a[1]) /\ (hit # 2 => b[2] = a[2]) /\ (hit # 3 => b[3] = a[3])
      /\ (hit # 4 => b[4] = a[4]) /\ (hit # 5 => b[5] = a[5]) /\ (hit # 6 => b[6] = a[6])
      /\ (hit = 1 => b[1] <= a[1] + len) /\ (hit = 2 => b[2] <= a[2] + len)
      /\ (hit = 3 => b[3] <= a[3] + len) /\ (hit = 4 => b[4] <= a[4] + len)
      /\ (hit = 5 => b[5] <= a[5] + len) /\ (hit = 6 => b[6] <= a[6] + len)
  BY <1>1, Zenon
<1>4. CASE hit \in {1, 2, 3}
  BY <1>2, <1>3, <1>4 DEF Total
<1>5. CASE hit \notin {1, 2, 3}
  BY <1>2, <1>3, <1>5 DEF Total
<1>6. QED
  BY <1>4, <1>5

LEMMA SixStep ==
  ASSUME NEW p \in [1 .. 6 -> Nat], NEW w \in [1 .. 6 -> Nat], NEW j \in Nat, NEW len \in Nat,
         \A t, u \in 1 .. 6 : p[t] = p[u] => t = u,
         \A t \in 1 .. 6 : p[t] = j + 1 => w[t] <= len
  PROVE  Total(Before(p, w, j + 1)) <= Total(Before(p, w, j)) + len
<1>1. PICK hit \in 0 .. 6 : \A t \in 1 .. 6 : p[t] = j + 1 <=> t = hit
  <2>1. CASE \E t \in 1 .. 6 : p[t] = j + 1
    <3>1. PICK t \in 1 .. 6 : p[t] = j + 1
      BY <2>1
    <3>2. \A u \in 1 .. 6 : p[u] = j + 1 <=> u = t
      BY <3>1
    <3>3. t \in 0 .. 6
      OBVIOUS
    <3>4. QED
      BY <3>2, <3>3
  <2>2. CASE ~\E t \in 1 .. 6 : p[t] = j + 1
    <3>1. \A u \in 1 .. 6 : p[u] = j + 1 <=> u = 0
      BY <2>2
    <3>2. 0 \in 0 .. 6
      OBVIOUS
    <3>3. QED
      BY <3>1, <3>2
  <2>3. QED
    BY <2>1, <2>2
<1> PICK a : a = Before(p, w, j)
  OBVIOUS
<1> PICK b : b = Before(p, w, j + 1)
  OBVIOUS
<1>2. a \in [1 .. 6 -> Nat] /\ b \in [1 .. 6 -> Nat]
  BY DEF Before
<1>3. ASSUME NEW t \in 1 .. 6
      PROVE  /\ hit # t => b[t] = a[t]
             /\ hit = t => b[t] <= a[t] + len
  <2>1. p[t] \in Nat /\ w[t] \in Nat /\ a[t] \in Nat
    BY <1>2
  <2>2. p[t] <= j + 1 <=> p[t] <= j \/ t = hit
    BY <1>1, <2>1
  <2>3. hit = t => p[t] = j + 1 /\ w[t] <= len
    BY <1>1
  <2>4. a[t] = (IF p[t] <= j THEN w[t] ELSE 0) /\ b[t] = IF p[t] <= j + 1 THEN w[t] ELSE 0
    BY DEF Before
  <2>5. QED
    BY <2>1, <2>2, <2>3, <2>4
<1>4. Total(b) <= Total(a) + len
  BY <1>2, <1>3, OneGrows
<1>5. QED
  BY <1>4

LEMMA Chain ==
  ASSUME NEW a \in Nat, NEW b \in Nat, NEW g \in Nat, NEW len \in Nat, NEW h,
         b <= a + len, a <= g, h = g + len
  PROVE  b <= h
OBVIOUS

(* f adds up the lengths g, and w fits in g at the places p.               *)
Fitting(f, g, n, p, w) ==
  /\ f \in [0 .. n -> Nat] /\ g \in [1 .. n -> Nat]
  /\ f[0] = 0 /\ \A i \in 1 .. n : f[i] = f[i-1] + g[i]
  /\ p \in [1 .. 6 -> 1 .. n] /\ w \in [1 .. 6 -> Nat]
  /\ \A t, u \in 1 .. 6 : p[t] = p[u] => t = u
  /\ \A t \in 1 .. 6 : w[t] <= g[p[t]]

LEMMA BeforeStep ==
  ASSUME NEW f, NEW g, NEW n \in Nat, NEW p, NEW w, NEW j \in Nat, j < n,
         Fitting(f, g, n, p, w), Total(Before(p, w, j)) <= f[j]
  PROVE  Total(Before(p, w, j + 1)) <= f[j + 1]
<1>1. j + 1 \in 1 .. n /\ j \in 0 .. n /\ (j + 1) - 1 = j
  OBVIOUS
<1>2. g[j + 1] \in Nat /\ f[j] \in Nat /\ f[j + 1] = f[j] + g[j + 1]
  BY <1>1 DEF Fitting
<1>3. p \in [1 .. 6 -> Nat] /\ w \in [1 .. 6 -> Nat]
  <2>1. p \in [1 .. 6 -> 1 .. n] /\ w \in [1 .. 6 -> Nat]
    BY DEF Fitting
  <2>2. \A t \in 1 .. 6 : p[t] \in Nat
    BY <2>1
  <2>3. p = [t \in 1 .. 6 |-> p[t]]
    BY <2>1
  <2>4. QED
    BY <2>1, <2>2, <2>3
<1>4. ASSUME NEW t \in 1 .. 6, p[t] = j + 1 PROVE w[t] <= g[j + 1]
  <2>1. w[t] <= g[p[t]]
    BY DEF Fitting
  <2>2. QED
    BY <1>4, <2>1
<1>5. \A t, u \in 1 .. 6 : p[t] = p[u] => t = u
  BY DEF Fitting
<1>6. Total(Before(p, w, j + 1)) <= Total(Before(p, w, j)) + g[j + 1]
  BY <1>2, <1>3, <1>4, <1>5, SixStep
<1>7. Before(p, w, j) \in [1 .. 6 -> Nat] /\ Before(p, w, j + 1) \in [1 .. 6 -> Nat]
  BY <1>3 DEF Before
<1>8. Total(Before(p, w, j)) \in Nat /\ Total(Before(p, w, j + 1)) \in Nat
  BY <1>7, TotalNat
<1>9. QED
  BY <1>2, <1>6, <1>8, Chain

LEMMA SixBelow ==
  ASSUME NEW f, NEW g, NEW n \in Nat, NEW p, NEW w, Fitting(f, g, n, p, w)
  PROVE  Total(w) <= f[n]
<1>1. p \in [1 .. 6 -> 1 .. n] /\ w \in [1 .. 6 -> Nat] /\ f[0] = 0
  BY DEF Fitting
<1>2. Before(p, w, n) = w
  <2>1. \A t \in 1 .. 6 : p[t] <= n
    BY <1>1
  <2>2. w = [t \in 1 .. 6 |-> w[t]]
    BY <1>1
  <2>3. QED
    BY <2>1, <2>2 DEF Before
<1>3. Total(Before(p, w, 0)) <= f[0]
  <2>1. \A t \in 1 .. 6 : ~(p[t] <= 0)
    BY <1>1
  <2> PICK z : z = Before(p, w, 0)
    OBVIOUS
  <2>2. \A t \in 1 .. 6 : z[t] = 0
    BY <2>1 DEF Before
  <2>3. z[1] = 0 /\ z[2] = 0 /\ z[3] = 0 /\ z[4] = 0 /\ z[5] = 0 /\ z[6] = 0
    BY <2>2
  <2>4. Total(z) = 0
    BY <2>3 DEF Total
  <2>5. QED
    BY <1>1, <2>4
<1>4. Total(Before(p, w, n)) <= f[n]
  <2> SUFFICES ASSUME ~(Total(Before(p, w, n)) <= f[n]) PROVE FALSE
    OBVIOUS
  <2> DEFINE T == {j \in 0 .. n : ~(Total(Before(p, w, j)) <= f[j])}
  <2>1. T \subseteq Nat /\ T # {}
    OBVIOUS
  <2>2. PICK m \in T : \A k \in T : m <= k
    <3> HIDE DEF T
    <3>1. QED
      BY <2>1, LeastNatural
  <2>3. m \in 0 .. n /\ ~(Total(Before(p, w, m)) <= f[m])
    OBVIOUS
  <2>4. m # 0
    BY <1>3, <2>3
  <2> PICK j \in Nat : j = m - 1
    BY <2>3, <2>4
  <2>5. j \in 0 .. n /\ m = j + 1 /\ j < m /\ j < n
    BY <2>3, <2>4
  <2>6. j \notin T
    <3> HIDE DEF T
    <3>1. QED
      BY <2>1, <2>2, <2>5
  <2>7. Total(Before(p, w, j)) <= f[j]
    BY <2>5, <2>6
  <2>8. Total(Before(p, w, j + 1)) <= f[j + 1]
    BY <2>5, <2>7, BeforeStep
  <2>9. QED
    BY <2>3, <2>5, <2>8
<1>5. QED
  BY <1>2, <1>4

LEMMA SixFit ==
  ASSUME NEW s \in Seq(Line), NEW p \in [1 .. 6 -> 1 .. Len(s)], NEW w \in [1 .. 6 -> Nat],
         \A t, u \in 1 .. 6 : p[t] = p[u] => t = u,
         \A t \in 1 .. 6 : w[t] <= s[p[t]].len
  PROVE  SumLen(s) \in Nat /\ Total(w) <= SumLen(s)
<1>1. PICK f : Sums(f, s, Len(s)) /\ SumLen(s) = f[Len(s)]
  BY SumLenIs
<1>2. Len(s) \in Nat /\ Len(s) \in 0 .. Len(s)
  OBVIOUS
<1> PICK g : g = [i \in 1 .. Len(s) |-> s[i].len]
  OBVIOUS
<1>3. g \in [1 .. Len(s) -> Nat] /\ \A i \in 1 .. Len(s) : g[i] = s[i].len
  BY LineLengths
<1>4. \A t \in 1 .. 6 : p[t] \in 1 .. Len(s) /\ w[t] <= g[p[t]]
  BY <1>3
<1>5. Fitting(f, g, Len(s), p, w)
  BY <1>1, <1>3, <1>4 DEF Sums, Fitting
<1>6. Total(w) <= f[Len(s)]
  BY <1>2, <1>5, SixBelow
<1>7. f[Len(s)] \in Nat
  BY <1>1, <1>2 DEF Sums
<1>8. QED
  BY <1>1, <1>6, <1>7

(* The template is as long as its six sections.                            *)
Lens == [t \in 1 .. 6 |-> SecLen[SectionKeys[t]]]

LEMMA SixKeys ==
  /\ SectionKeys[1] = "request" /\ SectionKeys[2] = "host" /\ SectionKeys[3] = "authorization"
  /\ SectionKeys[4] = "content-type" /\ SectionKeys[5] = "content-length"
  /\ SectionKeys[6] = "connection"
  /\ \A t \in 1 .. 6 : SectionKeys[t] \in Keys
  /\ \A t, u \in 1 .. 6 : SectionKeys[t] = SectionKeys[u] => t = u
<1>1. \A t : t \in 1 .. 6 <=> t \in {1, 2, 3, 4, 5, 6}
  OBVIOUS
<1>2. /\ SectionKeys[1] = "request" /\ SectionKeys[2] = "host" /\ SectionKeys[3] = "authorization"
      /\ SectionKeys[4] = "content-type" /\ SectionKeys[5] = "content-length"
      /\ SectionKeys[6] = "connection"
  BY DEF SectionKeys
<1>3. QED
  BY <1>1, <1>2 DEF Keys

LEMMA LensType == Lens \in [1 .. 6 -> Nat]
BY SixKeys, SectionsAssumption DEF Lens

LEMMA TemplateSum == BodyStart = Total(Lens) + 2 /\ Total(Lens) \in Nat
<1> PICK s : s = [i \in 1 .. 6 |-> Section(i)]
  OBVIOUS
<1>1. s \in Seq(Line) /\ Len(s) = 6
  BY SectionFacts
<1>2. \A t \in 1 .. 6 : s[t].len = Lens[t] /\ Lens[t] \in Nat
  BY LensType DEF Section, SectionLine, Lens
<1> PICK f : Sums(f, s, Len(s)) /\ SumLen(s) = f[Len(s)]
  BY <1>1, SumLenIs
<1>3. SumLen(s) = f[6] /\ f[0] = 0 /\ \A i \in 1 .. 6 : f[i] = f[i-1] + s[i].len
  BY <1>1 DEF Sums
<1>4. \A i \in {1, 2, 3, 4, 5, 6} : f[i] = f[i-1] + Lens[i] /\ Lens[i] \in Nat
  <2>1. \A i \in {1, 2, 3, 4, 5, 6} : i \in 1 .. 6
    OBVIOUS
  <2>2. QED
    BY <1>2, <1>3, <2>1
<1>5. /\ f[1] = f[0] + Lens[1] /\ f[2] = f[1] + Lens[2] /\ f[3] = f[2] + Lens[3]
      /\ f[4] = f[3] + Lens[4] /\ f[5] = f[4] + Lens[5] /\ f[6] = f[5] + Lens[6]
      /\ Lens[1] \in Nat /\ Lens[2] \in Nat /\ Lens[3] \in Nat
      /\ Lens[4] \in Nat /\ Lens[5] \in Nat /\ Lens[6] \in Nat
  BY <1>4
<1>6. f[3] = Lens[1] + Lens[2] + Lens[3]
  BY <1>3, <1>5
<1>7. f[6] = Lens[1] + Lens[2] + Lens[3] + Lens[4] + Lens[5] + Lens[6]
  BY <1>5, <1>6
<1>8. SumLen(s) = Total(Lens)
  BY <1>3, <1>7 DEF Total
<1>9. BodyStart = Total(Lens) + 2
  BY <1>8 DEF BodyStart
<1>10. QED
  BY <1>9, LensType, TotalNat

(* A request that is sent has passed validation, and padding leaves the    *)
(* lines validation looks at as they are.                                  *)
StillValid == pc = "sent" => \A k \in Checked : LastIs(k)

LEMMA StillValidNext == IInv /\ StillValid /\ [Next]_vars => StillValid'
<1> SUFFICES ASSUME IInv, StillValid, [Next]_vars, pc' = "sent"
             PROVE  \A k \in Checked : LastIs(k)'
  BY DEF StillValid
<1>1. CASE AcceptPadded
  <2>1. lines' = Replaced /\ \A k \in Checked : LastIs(k)
    BY <1>1 DEF AcceptPadded, HeadersValid, Replaced
  <2>2. lines \in Seq(Line)
    BY DEF IInv, TypeOK
  <2>3. /\ DOMAIN lines' = DOMAIN lines
        /\ \A i \in DOMAIN lines :
             /\ lines'[i].key = lines[i].key
             /\ lines[i].key # "content-length" => lines'[i] = lines[i]
    <3>1. DOMAIN lines = 1 .. Len(lines) /\ DOMAIN lines' = DOMAIN lines
      BY <2>1, <2>2 DEF Replaced
    <3>2. QED
      BY <2>1, <2>2, <3>1, ReplacedType
  <2>4. \A k \in Checked : k # "content-length"
    BY DEF Checked
  <2>5. QED
    BY <2>1, <2>3, <2>4 DEF LastIs
<1>2. CASE AcceptAsIs
  BY <1>2 DEF AcceptAsIs, HeadersValid, LastIs
<1>3. CASE UNCHANGED <<lines, pc>>
  BY <1>3 DEF StillValid, LastIs
<1>4. QED
  BY <1>1, <1>2, <1>3
     DEF Next, vars, bodyVars, EncodeStart, EncodeHeader, EncodeEnd, Refuse, Prove

(* Such a request has, for each section of the template, a line of that    *)
(* header that is at least as long.                                        *)
LEMMA LongLine ==
  ASSUME PInv, StillValid, mode = "send", pc = "sent", ~(own /\ given = ContentLength),
         NEW t \in 1 .. 6
  PROVE  \E i \in 1 .. Len(lines) : lines[i].key = SectionKeys[t] /\ Lens[t] <= lines[i].len
<1>1. PICK n \in {1, 2}, from \in Seq(Nat) : lines # <<>> /\ Origin(n, from)
  BY DEF PInv, Origins
<1>2. /\ n = 2 /\ Len(from) \in Nat
      /\ Enumerates(from) /\ Ends(2 + Len(from)) /\ encoded = Len(headers) /\ Flags
      /\ \A i \in 1 .. Len(from) : lines[2 + i] = Written(headers[from[i]])
      /\ Starts(2) /\ lines[1].text = "tmpl" /\ lines[2].text = "tmpl"
  BY <1>1 DEF Origin, Ends, PInv, Origins
<1>3. lines \in Seq(Line) /\ Len(lines) \in Nat /\ 1 \in 1 .. Len(lines) /\ 2 \in 1 .. Len(lines)
  <2>1. lines \in Seq(Line) /\ Len(lines) \in Nat /\ 2 <= Len(lines)
    BY <1>2 DEF PInv, IInv, TypeOK, Starts
  <2>2. QED
    BY <2>1
<1>4. lines[1] = SectionLine("request", 0) /\ lines[2] = SectionLine("host", 0)
  BY <1>2 DEF Starts, SectionLine
<1>5. \A k \in Keys : SecLen[k] \in Nat /\ SecLen[k] <= SecLen[k]
  BY SectionsAssumption
<1>6. given <= ContentLength /\ given \in Nat
  BY DEF PInv, IInv, TypeOK, Origins
<1>7. ASSUME NEW i \in 1 .. Len(lines)
      PROVE  \/ i = 1 \/ i = 2
             \/ i = Len(lines) /\ lines[i] = SectionLine("connection", 0)
             \/ ~own /\ lines[i] = Written(ContentLengthLine(given))
             \/ \E k \in Kept(encoded) : lines[i] = Written(headers[k])
  <2> PICK m \in Nat : m = Len(from)
    BY <1>2
  <2> PICK N \in Nat : N = Len(lines)
    BY <1>3
  <2>1. N = 2 + m + (IF own THEN 0 ELSE 1) + (IF hasConn THEN 0 ELSE 1)
    BY <1>2 DEF Ends
  <2>2. i \in 1 .. N
    OBVIOUS
  <2>3. i \in {1, 2} \/ i - 2 \in 1 .. m \/ (~own /\ i = 2 + m + 1) \/ (~hasConn /\ i = N)
    <3>1. N <= 2 + m + 2 /\ (own => N <= 2 + m + 1) /\ (hasConn => N <= 2 + m + 1)
          /\ (own /\ hasConn => N = 2 + m)
      BY <2>1
    <3>2. CASE i <= 2 + m
      BY <2>2, <3>2
    <3>3. CASE i = 2 + m + 1
      BY <2>1, <2>2, <3>3
    <3>4. CASE i > 2 + m + 1
      BY <2>1, <2>2, <3>1, <3>4
    <3>5. QED
      BY <2>2, <3>2, <3>3, <3>4
  <2>4. CASE i - 2 \in 1 .. m
    <3>1. lines[2 + (i - 2)] = Written(headers[from[i - 2]]) /\ from[i - 2] \in Kept(encoded)
      BY <1>2, <2>4 DEF Enumerates
    <3>2. 2 + (i - 2) = i
      BY <2>2
    <3>3. QED
      BY <3>1, <3>2
  <2>5. CASE ~own /\ i = 2 + m + 1
    BY <1>2, <2>5 DEF Ends
  <2>6. CASE ~hasConn /\ i = N
    BY <1>2, <2>6 DEF Ends
  <2>7. QED
    BY <2>3, <2>4, <2>5, <2>6
<1>8. \A h : Written(h).key = h.key /\ (h.key # "content-length" => Written(h) = h)
  <2>1. ContentLengthLine(ContentLength).key = "content-length"
    BY LengthLineType
  <2>2. QED
    BY <2>1 DEF Written
<1>9. \A k \in Kept(encoded) : headers[k] \in CallerHeaders
  BY <1>2 DEF Kept, PInv, IInv, TypeOK
<1>10. ASSUME NEW k \in {"authorization", "content-type", "connection"}
       PROVE  \E i \in 1 .. Len(lines) : lines[i].key = k /\ SecLen[k] <= lines[i].len
  <2>1. k \in Checked /\ k \in Keys /\ k \notin {"request", "host", "content-length"}
    BY DEF Checked, Keys
  <2>2. LastIs(k) /\ DOMAIN lines = 1 .. Len(lines)
    BY <1>3, <2>1 DEF StillValid
  <2>3. PICK i \in 1 .. Len(lines) : lines[i].key = k /\ lines[i].text \in {"tmpl", "same"}
    BY <2>2 DEF LastIs
  <2>4. CASE lines[i] = SectionLine("connection", 0)
    BY <1>5, <2>1, <2>3, <2>4 DEF SectionLine
  <2>5. ASSUME NEW j \in Kept(encoded), lines[i] = Written(headers[j])
        PROVE  SecLen[k] <= lines[i].len
    <3>1. lines[i] = headers[j] /\ headers[j] \in CallerHeaders
      BY <1>8, <1>9, <2>1, <2>3, <2>5
    <3>2. CASE lines[i].text = "tmpl"
      BY <1>5, <2>1, <2>3, <3>1, <3>2, CallerAssumption
    <3>3. CASE lines[i].text = "same"
      BY <2>3, <3>1, <3>3, CallerAssumption
    <3>4. QED
      BY <2>3, <3>2, <3>3
  <2>6. i # 1 /\ i # 2
    BY <1>4, <2>1, <2>3 DEF SectionLine
  <2>7. lines[i] # Written(ContentLengthLine(given))
    BY <1>6, <1>8, <2>1, <2>3, LengthLineType
  <2>8. QED
    BY <1>7, <2>3, <2>4, <2>5, <2>6, <2>7
<1>11. \E i \in 1 .. Len(lines) :
         lines[i].key = "content-length" /\ SecLen["content-length"] <= lines[i].len
  <2>1. PICK i \in 1 .. Len(lines) : lines[i].key = "content-length"
    BY DEF PInv, IInv, Lengths, HasLength
  <2>2. \A m \in Nat : ContentLengthLine(m).len = SecLen["content-length"]
                       /\ ContentLengthLine(m).key = "content-length"
    BY DEF ContentLengthLine, SectionLine
  <2>3. i # 1 /\ i # 2 /\ lines[i] # SectionLine("connection", 0)
    BY <1>4, <2>1 DEF SectionLine
  <2>4. CASE lines[i] = Written(ContentLengthLine(given))
    <3>1. lines[i].len = SecLen["content-length"]
      BY <1>6, <2>2, <2>4 DEF Written
    <3>2. QED
      BY <1>5, <2>1, <3>1 DEF Keys
  <2>5. ASSUME NEW k \in Kept(encoded), lines[i] = Written(headers[k])
        PROVE  lines[i].len = SecLen["content-length"]
    <3>1. headers[k].key = "content-length"
      BY <1>8, <2>1, <2>5
    <3>2. own
      BY <1>2, <3>1 DEF Flags
    <3>3. given < ContentLength
      BY <1>6, <3>2
    <3>4. lines[i] = ContentLengthLine(ContentLength)
      BY <2>5, <3>1, <3>3 DEF Written
    <3>5. QED
      BY <2>2, <3>4
  <2>6. QED
    BY <1>5, <1>7, <2>1, <2>3, <2>4, <2>5 DEF Keys
<1>12. \E i \in 1 .. Len(lines) : lines[i].key = "request" /\ SecLen["request"] <= lines[i].len
  BY <1>3, <1>4, <1>5 DEF SectionLine, Keys
<1>13. \E i \in 1 .. Len(lines) : lines[i].key = "host" /\ SecLen["host"] <= lines[i].len
  BY <1>3, <1>4, <1>5 DEF SectionLine, Keys
<1>14. Lens[t] = SecLen[SectionKeys[t]]
  BY DEF Lens
<1>15. SectionKeys[t] \in {"request", "host", "authorization", "content-type", "content-length",
                           "connection"}
  <2>1. t \in {1, 2, 3, 4, 5, 6}
    OBVIOUS
  <2>2. QED
    BY <2>1, SixKeys
<1>16. \A k \in {"request", "host", "authorization", "content-type", "content-length",
                  "connection"} :
         \E i \in 1 .. Len(lines) : lines[i].key = k /\ SecLen[k] <= lines[i].len
  BY <1>10, <1>11, <1>12, <1>13
<1>17. QED
  BY <1>14, <1>15, <1>16

LEMMA LongEnough ==
  ASSUME PInv, StillValid, mode = "send", pc = "sent", ~(own /\ given = ContentLength)
  PROVE  ~(WireLen < BodyStart + ContentLength)
<1>1. lines \in Seq(Line) /\ bodyLen = ContentLength
  BY DEF PInv, IInv, TypeOK
<1> DEFINE Fits(t, i) == lines[i].key = SectionKeys[t] /\ Lens[t] <= lines[i].len
           p == [t \in 1 .. 6 |-> CHOOSE i \in 1 .. Len(lines) : Fits(t, i)]
<1>2. \A t \in 1 .. 6 : \E i \in 1 .. Len(lines) : Fits(t, i)
  BY LongLine
<1> HIDE DEF Fits
<1>3. p \in [1 .. 6 -> 1 .. Len(lines)] /\ \A t \in 1 .. 6 : Fits(t, p[t])
  BY <1>2
<1> HIDE DEF p
<1>4. \A t, u \in 1 .. 6 : p[t] = p[u] => t = u
  <2>1. \A t \in 1 .. 6 : lines[p[t]].key = SectionKeys[t]
    BY <1>3 DEF Fits
  <2> SUFFICES ASSUME NEW t \in 1 .. 6, NEW u \in 1 .. 6, p[t] = p[u] PROVE t = u
    OBVIOUS
  <2>2. SectionKeys[t] = SectionKeys[u]
    BY <2>1
  <2>3. QED
    BY <2>2, SixKeys
<1>5. \A t \in 1 .. 6 : Lens[t] <= lines[p[t]].len
  BY <1>3 DEF Fits
<1>6. SumLen(lines) \in Nat /\ Total(Lens) <= SumLen(lines)
  BY <1>1, <1>3, <1>4, <1>5, LensType, SixFit
<1> PICK a \in Nat : a = SumLen(lines)
  BY <1>6
<1> PICK b \in Nat : b = Total(Lens)
  BY TemplateSum
<1>7. b <= a /\ WireLen = a + 2 + ContentLength /\ BodyStart = b + 2
  BY <1>1, <1>6, TemplateSum DEF WireLen
<1>8. QED
  BY <1>7

(* The slices prove takes of the decrypted wire (prove.rs and              *)
(* req/mod.rs) are inside it, for every template, all headers and bodies,  *)
(* unless a Content-Length of the caller's went out as it was.             *)
LInv == PInv /\ StillValid /\ OverrunOnlyByOwnLength

THEOREM NoOverrun == Spec => []OverrunOnlyByOwnLength
<1>1. Init => LInv
  <2>1. Init => ProvableExactly /\ StillValid /\ OverrunOnlyByOwnLength
    BY DEF Init, ProvableExactly, StillValid, OverrunOnlyByOwnLength
  <2>2. QED
    BY <2>1, InitIInv, OriginsInit DEF PInv, LInv
<1>2. LInv /\ [Next]_vars => LInv'
  <2> SUFFICES ASSUME LInv, [Next]_vars PROVE LInv'
    OBVIOUS
  <2>1. PInv' /\ StillValid'
    BY PInvNext, StillValidNext DEF LInv, PInv
  <2>2. CASE Prove
    <3>1. /\ pc = "sent" /\ UNCHANGED <<mode, own, given>>
          /\ outcome' = "overrun" => WireLen < BodyStart + ContentLength
      BY <2>2 DEF Prove, bodyVars
    <3>2. OverrunOnlyByOwnLength'
      BY <3>1, LongEnough DEF LInv, OverrunOnlyByOwnLength
    <3>3. QED
      BY <2>1, <3>2 DEF LInv
  <2>3. CASE UNCHANGED <<mode, outcome, given>> /\ (own => own')
    BY <2>1, <2>3 DEF LInv, OverrunOnlyByOwnLength
  <2>4. CASE EncodeHeader
    <3>1. UNCHANGED <<mode, outcome, given>> /\ (own => own')
      BY <2>4, Zenon DEF EncodeHeader, bodyVars
    <3>2. QED
      BY <2>3, <3>1
  <2>5. CASE UNCHANGED <<mode, outcome, given, own>>
    BY <2>3, <2>5
  <2>6. QED
    BY <2>2, <2>4, <2>5
       DEF Next, vars, bodyVars, EncodeStart, EncodeEnd, Refuse, AcceptAsIs, AcceptPadded
<1>3. LInv => OverrunOnlyByOwnLength
  BY DEF LInv
<1>4. QED
  BY <1>1, <1>2, <1>3, PTL DEF Spec

===============================================================================
