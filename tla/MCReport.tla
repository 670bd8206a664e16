----------------------------- MODULE MCReport -----------------------------
(* Instances of Report for TLC.                                            *)
EXTENDS Report

Level(offered, accepted, rejected, afterwards) ==
  [offered |-> offered, accepted |-> accepted, rejected |-> rejected, late |-> afterwards]

\* A clean level, one at the 99 % rule, one short whose rest is acked late,
\* one with a rejection, and one that offered nothing.
MCOutcomes == {Level(100, 100, 0, 0), Level(100, 99, 0, 0), Level(100, 98, 0, 2),
               Level(100, 99, 1, 0), Level(0, 0, 0, 0)}
MCTargetRates == <<2, 5>>

\* Short series over two values; series of eight whose first two samples are
\* a warm-up of either direction; ten samples with a slope of exactly 0.5.
Warmups == {<<0, 4>>, <<4, 0>>}
Bodies == {<<1, 1, 1, 1, 1, 1>>, <<0, 0, 1, 1, 2, 2>>, <<2, 2, 1, 1, 0, 0>>, <<0, 1, 0, 1, 0, 1>>}
MCSeries ==
  {<<>>, <<0, 1, 1>>, <<0, None, 1, None>>} \cup [1..4 -> {0, 1}]
    \cup {a \o b : a \in Warmups, b \in Bodies}
    \cup {<<3, 0, 0, 0, 0, 0, 0, 0, 0, 1>>, <<0, None, 0, 1, 1, None, 2>>}

Host(n, k) == [cpu |-> n, restarts |-> k]
Every(g, c, p) ==
  ("generator" :> g) @@ ("collector" :> c) @@ ("compactor" :> p)
MCHostCases ==
  {Every(Host(50, 0), Host(50, 0), Host(50, 0)), Every(Host(82, 0), Host(82, 1), None),
   Every(Host(50, 0), Host(90, 0), Host(20, 0))}

MCCircumstances ==
  {[transport |-> t, stalled |-> s, short |-> TRUE, watermark |-> s] :
     t \in {"direct"}, s \in BOOLEAN}
  \cup {[transport |-> "tunnel", stalled |-> FALSE, short |-> FALSE, watermark |-> TRUE]}
=============================================================================
