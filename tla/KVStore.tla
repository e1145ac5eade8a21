------------------------------- MODULE KVStore --------------------------------
(***************************************************************************)
(* The sorted key space of the storage backends: how records become keys   *)
(* and how prefix and range scans walk the keys.  LMDB and LevelDB keep    *)
(* namespaces in databases of their own, RocksDB keeps all of them in one  *)
(* key space under a leading letter; here the letter stands for both.      *)
(* Bytes are naturals and keys sequences of them.                          *)
(***************************************************************************)
EXTENDS Naturals, Sequences, FiniteSets, SequencesExt, FiniteSetsExt

CONSTANT MaxKeyBytes    \* MAX_PORTABLE_INDEX_KEY_BYTES

Sep == 1
Top == 99
LetterN == 20
LetterI == 21
LetterR == 22
LetterT == 23
Direction(d) == IF d = "out" THEN <<31>> ELSE <<32>>

(* Base64 of a component: no separator survives and order is not kept.      *)
IndexPart(part) == [i \in DOMAIN part |-> 10 - part[i]]

Joined(parts) == FlattenSeq([i \in DOMAIN parts |-> <<Sep>> \o parts[i]])
Encoded(parts) == [i \in DOMAIN parts |-> IndexPart(parts[i])]

IndexKey(parts, value) == <<LetterI>> \o Joined(Encoded(parts) \o <<IndexPart(value)>>)
IndexPrefix(parts) == <<LetterI>> \o Joined(Encoded(parts)) \o <<Sep>>

(* The range value is not encoded: it is kept as it was made, sortable and  *)
(* without a separator.                                                     *)
RangeKey(parts, range, value) == <<LetterR>> \o Joined(Encoded(parts) \o <<range, IndexPart(value)>>)

BadRangePrefix(parts) == <<LetterR>> \o Joined(Encoded(parts))

RangePrefix(parts) == <<LetterR>> \o Joined(Encoded(parts)) \o <<Sep>>

(* Typed adjacency keys join raw identifiers.                               *)
TypedKey(d, node, type, edge) == <<LetterT>> \o Joined(<<Direction(d), node, type, edge>>)
TypedPrefix(d, node, type) == TypedKey(d, node, type, <<>>)

(* Nodes, and edges and adjacency lists in the same way, under their own id. *)
NodePrefix == <<LetterN, Sep>>
NodeKey(id) == NodePrefix \o id

(* What one put or delete of a record writes: key and value.                *)
Pairs(r) ==
    CASE r.kind = "node" -> {<<NodeKey(r.id), r.value>>}
      [] r.kind = "index" -> {<<IndexKey(r.parts, r.id), r.id>>}
      [] r.kind = "range" -> {<<RangeKey(r.parts, r.range, r.id), r.id>>}
      [] r.kind = "typed" -> {<<TypedKey("out", r.source, r.type, r.id), r.target>>,
                              <<TypedKey("in", r.target, r.type, r.id), r.source>>}
KeysOf(r) == {p[1] : p \in Pairs(r)}

(* _checked_index_key: a longer index key is refused, a typed one is not    *)
(* looked at.                                                               *)
KeyFits(r) == r.kind \in {"node", "typed"} \/ \A k \in KeysOf(r) : Len(k) <= MaxKeyBytes

Less(a, b) ==
    \E n \in 0..Len(a) :
        /\ n < Len(b) /\ SubSeq(a, 1, n) = SubSeq(b, 1, n)
        /\ n = Len(a) \/ a[n + 1] < b[n + 1]
Reached(a, b) == a = b \/ Less(a, b)

-----------------------------------------------------------------------------
(* Scans walk the pairs of a key space in the order of their keys.          *)

Sorted(S, Before(_, _)) ==
    LET ranked == {<<x, Cardinality({y \in S : Before(y, x)})>> : x \in S}
    IN  [i \in 1..Cardinality(S) |-> (CHOOSE r \in ranked : r[2] = i - 1)[1]]
InKeyOrder(data) == Sorted(data, LAMBDA a, b : Less(a[1], b[1]))

Until(seq, Stop(_)) ==
    SubSeq(seq, 1, Min({i \in DOMAIN seq : Stop(seq[i])} \cup {Len(seq) + 1}) - 1)
Capped(seq, limit) == SubSeq(seq, 1, Min({limit, Len(seq)}))
Values(walk) == [i \in DOMAIN walk |-> walk[i][2]]

PrefixWalk(walk, prefix) ==
    Until(SelectSeq(walk, LAMBDA p : Reached(prefix, p[1])), LAMBDA p : ~IsPrefix(prefix, p[1]))

(* get_node_keys_generator from an offset, <<>> for none.  An LMDB cursor   *)
(* that finds no key from the offset on is not positioned, and iterating it *)
(* then starts at the first key.                                            *)
NodeKeys(backend, walk, offset, limit) ==
    LET own == PrefixWalk(walk, NodePrefix)
        from == SelectSeq(own, LAMBDA p : Reached(NodeKey(offset), p[1]))
        found == Capped(IF backend = "lmdb" /\ from = <<>> THEN own ELSE from, limit)
    IN  [i \in DOMAIN found |-> SubSeq(found[i][1], Len(NodePrefix) + 1, Len(found[i][1]))]

(* iter_index_prefix.                                                       *)
IterIndexPrefix(walk, parts) == Values(PrefixWalk(walk, IndexPrefix(parts)))

(* iter_typed_adjacency.                                                    *)
IterTypedAdjacency(walk, d, node, type) ==
    LET prefix == TypedPrefix(d, node, type)
        found == PrefixWalk(walk, prefix)
    IN  [i \in DOMAIN found |-> <<SubSeq(found[i][1], Len(prefix) + 1, Len(found[i][1])), found[i][2]>>]

(* A range query has bounds, <<>> for none, each inclusive or not.          *)
Below(q, range) == q.start # <<>> /\ (Less(range, q.start) \/ (range = q.start /\ ~q.first))
Above(q, range) == q.end # <<>> /\ (Less(q.end, range) \/ (range = q.end /\ ~q.last))
RangeOf(prefix, k) == Until(SubSeq(k, Len(prefix) + 1, Len(k)), LAMBDA x : x = Sep)

(* Where a backend's cursor starts.  LMDB steps back from the first key     *)
(* past the end, the others start at the last key up to it.                 *)
Positioned(backend, walk, prefix, q) ==
    LET end == prefix \o q.end \o <<Top>>
    IN  CASE ~q.reverse -> SelectSeq(walk, LAMBDA p : Reached(prefix \o q.start, p[1]))
          [] q.reverse /\ backend = "lmdb" -> Reverse(SelectSeq(walk, LAMBDA p : Less(p[1], end)))
          [] q.reverse /\ backend = "leveldb" ->
                 Reverse(SelectSeq(walk, LAMBDA p : Reached(prefix, p[1]) /\ Reached(p[1], end)))
          [] q.reverse /\ backend = "pyrex" -> Reverse(SelectSeq(walk, LAMBDA p : Reached(p[1], end)))

(* iter_range_index: keys out of range are passed over on the near side and *)
(* end the scan on the far side.  RocksDB passes over foreign keys above    *)
(* the prefix when it walks down.                                           *)
IterRangeIndex(backend, walk, parts, q) ==
    LET prefix == RangePrefix(parts)
        low(k) == Below(q, RangeOf(prefix, k))
        high(k) == Above(q, RangeOf(prefix, k))
        Foreign(k) == ~IsPrefix(prefix, k)
        Stop(k) == IF Foreign(k) THEN ~(backend = "pyrex" /\ q.reverse /\ Less(prefix, k))
                   ELSE IF q.reverse THEN low(k) /\ (backend = "lmdb" => ~high(k))
                   ELSE high(k) /\ ~low(k)
        hits == SelectSeq(Until(Positioned(backend, walk, prefix, q), LAMBDA p : Stop(p[1])),
                          LAMBDA p : ~Foreign(p[1]) /\ ~low(p[1]) /\ ~high(p[1]))
    IN  Values(Capped(hits, q.limit))
=============================================================================
