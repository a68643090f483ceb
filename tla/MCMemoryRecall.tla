--------------------------- MODULE MCMemoryRecall ---------------------------
(* Small instances of MemoryRecall, and with it of MemoryItems. *)
EXTENDS MemoryRecall, TLC

CONSTANTS t1, t2, t3, t4, k1, k2, k3, f, g, a

\* The first two turns are about one finding: no three turns with both of
\* them are about three findings, whatever the third is about.
Evidence == t1 :> {k1} @@ t2 :> {k1} @@ t3 :> {k2, k3} @@ t4 :> {k2}
EvidencePaths == t1 :> {f} @@ t2 :> {f} @@ t3 :> {g} @@ t4 :> {f}
Cited == {{t1, t2, t3}, {t1, t3, t4}}

ItemPaths == {{f}}
RequestWords == {{a}}
RequestFiles == {{f}}
Tokens == [s \in Subjects |-> 2]
=============================================================================
