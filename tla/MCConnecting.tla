----------------------------- MODULE MCConnecting ------------------------------
(* Expressions over a few ports and functions.  Ports of nodes have a      *)
(* region and are graph_connectable; pure and plain are pure event_sources *)
(* and named is a function that got a name for the graph.                  *)
EXTENDS Connecting

MCKind ==
  [e1 |-> "event_source", e2 |-> "event_source", k1 |-> "event_sink", k2 |-> "event_sink",
   q1 |-> "state_source", q2 |-> "state_source", g1 |-> "state_sink", g2 |-> "state_sink",
   pure |-> "event_source", plain |-> "event_source", named |-> "function", f |-> "function", h |-> "function",
   lambda |-> "consumer", constant |-> "producer", op |-> "function"]

MCRegion ==
  [x \in DOMAIN MCKind |-> CASE x \in {"e1", "k1", "q1", "g1"} -> "r1"
                             [] x \in {"e2", "k2", "q2", "g2"} -> "r2"
                             [] OTHER -> "none"]

MCGraphAware == {"e1", "e2", "k1", "k2", "q1", "q2", "g1", "g2", "named"}

Chain(xs) == [i \in DOMAIN xs |-> Leaf(xs[i])]

Middles == UNION {[1 .. n -> {"f", "named"}] : n \in 0 .. 3}

Chains(heads, tails) ==
  {Chain(<<h>> \o m \o <<t>>) : h \in heads, m \in Middles, t \in tails}

MCExpressions ==
  Chains({"e1", "pure"}, {"k1", "k2", "lambda"})
    \cup Chains({"q1", "constant"}, {"g1", "g2"})
    \cup {<<Mux(<<"e1", "e2">>), Leaf("k1")>>,
          <<Mux(<<"e1", "e2">>), Leaf("f"), Leaf("named"), Leaf("k2")>>,
          <<Mux(<<"pure", "plain">>), Leaf("f"), Leaf("named"), Leaf("h"), Leaf("k1")>>,
          <<Mux(<<"pure", "e2">>), Leaf("f"), Leaf("k1")>>,
          <<Mux(<<"e1", "e2">>), Mux(<<"k1", "k2">>)>>,
          <<Mux(<<"e1", "e2">>), Leaf("f"), Leaf("h"), Mux(<<"k1", "k2">>)>>,
          <<Mux(<<"e1">>), Leaf("f"), Leaf("named"), Mux(<<"k1", "k2">>)>>,
          <<Mux(<<"e1", "e2">>), Leaf("named"), Mux(<<"k2">>)>>,
          <<Mux(<<"q1", "q2">>), Leaf("f"), Leaf("named"), Mux(<<"g2", "g1">>)>>,
          <<Mux(<<"e1", "e2">>), Mux(<<"k2">>)>>,
          <<Leaf("e1"), Mux(<<"k1", "k2">>)>>,
          <<Leaf("e1"), Leaf("f"), Leaf("named"), Mux(<<"k1", "k2">>)>>,
          <<Mux(<<"q1", "q2">>), Mux(<<"g2", "g1">>)>>,
          <<Mux(<<"q1", "q2">>), Leaf("f"), Leaf("named"), Merge("op"), Leaf("h"), Leaf("named"), Leaf("g1")>>}
================================================================================
