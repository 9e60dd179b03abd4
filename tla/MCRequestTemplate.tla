--------------------------- MODULE MCRequestTemplate ---------------------------
(* RequestTemplate with the headers that validation and the circuit treat  *)
(* differently, and raw requests one edit away from the template.          *)
EXTENDS RequestTemplate, SequencesExt

MCSecLen == [k \in Keys |-> IF k = "request" THEN 5 ELSE 3]

L(k, t, n) == [key |-> k, text |-> t, num |-> n, len |-> 3]
Short(k, t, n) == [L(k, t, n) EXCEPT !.len = 2]

MCCallerHeaders ==
  {L("authorization", "tmpl", 0), L("authorization", "same", 0), L("authorization", "malformed", 0),
   L("content-type", "tmpl", 0), L("content-type", "wrong", 0),
   L("content-length", "same", 4), Short("content-length", "same", 1),
   L("connection", "same", 0), L("host", "wrong", 0), Short("other", "same", 0)}

Template == [i \in 1 .. 6 |-> Section(i)]
Extra == {L("content-length", "tmpl", 1), L("connection", "wrong", 0), Short("other", "same", 0)}
Spellings(k) == {L(k, "same", 0), Short(k, "wrong", 0)}

MCRawRequests ==
  {Template}
    \cup {RemoveAt(Template, i) : i \in 2 .. 6}
    \cup {InsertAt(Template, i, e) : i \in 2 .. 7, e \in Extra}
    \cup UNION {{[Template EXCEPT ![i] = l] : l \in Spellings(SectionKeys[i])} : i \in 1 .. 6}
===============================================================================
