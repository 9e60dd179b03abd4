------------------------------ MODULE MCPadBody ------------------------------
(* PadBody on every body of up to MaxLen cells.                            *)
EXTENDS PadBody

CONSTANT MaxLen

AtMostOneMarker(b) ==
  \A i, j \in DOMAIN b : b[i] = "marker" /\ b[j] = "marker" => i = j

MCBodies ==
  UNION {{b \in [1 .. n -> Cells] : AtMostOneMarker(b)} : n \in 0 .. MaxLen}
===============================================================================
