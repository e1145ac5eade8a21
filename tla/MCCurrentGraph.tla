---------------------------- MODULE MCCurrentGraph ----------------------------
(* Small instances of CurrentGraph: node batches over two properties, and   *)
(* edge batches over one, on stores with and without transactions.          *)
EXTENDS CurrentGraph

CONSTANTS a, b, e, f, T, p, q, one, blob

PropMap(vp, vq) == [x \in Props |-> IF x = p THEN vp ELSE vq]
N(i, labels, vp, vq) == [id |-> i, rec |-> [labels |-> labels, props |-> PropMap(vp, vq), ends |-> <<>>]]
E(i, labels, vp, s, t) == [id |-> i, rec |-> [labels |-> labels, props |-> PropMap(vp, Absent), ends |-> <<s, t>>]]

NodeBatches == {<<N(a, {T}, one, one)>>, <<N(a, {}, blob, Absent), N(b, {T}, one, Absent)>>}
EdgeBatches == {<<E(e, {T}, one, a, b)>>, <<E(e, {}, Absent, b, b), E(f, {T}, Absent, a, b)>>}
OneEdge == {<<E(e, {T}, one, a, b)>>, <<E(e, {T}, Absent, b, b)>>}

Usage(t, bs, names) ==
    [transactional |-> t, batches |-> bs, names |-> names, overwrite |-> FALSE, nested |-> FALSE]

OrdinaryUse == {Usage(TRUE, NodeBatches, {p, q}), Usage(FALSE, NodeBatches, {p}),
                Usage(TRUE, OneEdge, {p}), Usage(FALSE, EdgeBatches, {p}),
                [Usage(TRUE, {<<N(a, {T}, one, Absent)>>}, {p}) EXCEPT !.overwrite = TRUE, !.nested = TRUE]}
=============================================================================
