------------------------------- MODULE Llist -------------------------------
(***************************************************************************)
(* kernel/src/utils/llist.rs: the intrusive, circular, doubly linked list  *)
(* with a sentinel, and its double-ended iterator.  A node is an address;  *)
(* its Cells next and prev are the functions next and prev.  The client    *)
(* respects the "Safety" sections of the methods.  heads is the client's   *)
(* record of its sentinels.  lists is the reference: for each list, the    *)
(* sequence of nodes that its methods promise, kept without looking at the *)
(* links; plan, front and back are what an iterator should and did return. *)
(***************************************************************************)
EXTENDS Naturals, FiniteSets, Sequences, Functions

CONSTANTS
    Node,       \* addresses at which a node may be written
    List,       \* the lists of the client (Talloc: one per granularity)
    FirstHead,  \* where the client put the sentinels, [List -> Node]
    Dangling    \* what a node that left its list is set to: 0xabc or 0xdef

ASSUME LlistAssumption ==
    /\ IsFiniteSet(Node)
    /\ FirstHead \in [List -> Node]
    /\ \A l, m \in List : FirstHead[l] = FirstHead[m] => l = m
    /\ Dangling \notin Node

VARIABLES next, prev, heads, iter, lists

listVars == <<next, prev, heads, iter, lists>>

Heads == {heads[l] : l \in List}
Linked == {n \in Node : next[n] # Dangling}

\* No IterMut exists, or it is exhausted and dropped.
NoIter == [ongoing |-> FALSE]

\* An iterator that has returned its last node is dropped.
KeepIter == iter' = IF iter.ongoing THEN iter ELSE NoIter

Returned == Range(iter.front) \cup Range(iter.back)

----------------------------------------------------------------------------
(* Walking the links.                                                      *)

Follow(n) == IF n = Dangling THEN Dangling ELSE next[n]

\* The node i links after n.
Hop(n) ==
    LET hop[i \in 0 .. Cardinality(Node)] == IF i = 0 THEN n ELSE Follow(hop[i - 1])
    IN  hop

\* The nodes of the list of sentinel s in the order of the links; a walk that
\* does not come back to s runs on until it has as many nodes as there are.
Walk(s) ==
    LET hop == Hop(s)
        closes == {i \in 1 .. Cardinality(Node) : hop[i] = s}
        len == IF closes = {} THEN Cardinality(Node)
               ELSE (CHOOSE i \in closes : \A j \in closes : i <= j) - 1
    IN  SubSeq([i \in 1 .. Cardinality(Node) |-> hop[i]], 1, len)

\* The ends of the chains of links that begin with start and have no sentinel.
ChainEnds(start) ==
    LET hop == Hop(start)
    IN  {hop[k] : k \in {j \in 0 .. Cardinality(Node) - 1 : \A i \in 0 .. j : hop[i] \notin Heads}}

\* The nodes of such a chain, in order.
Chain(start, end) ==
    LET hop == Hop(start)
        len == CHOOSE k \in 1 .. Cardinality(Node) :
                  hop[k - 1] = end /\ \A i \in 0 .. k - 2 : hop[i] # end
    IN  [i \in 1 .. len |-> hop[i - 1]]

\* While an iterator is in use, its list is only changed at nodes the
\* iterator has returned.
MayChange(nodes) ==
    iter.ongoing => nodes \cap (Range(lists[iter.list]) \cup {heads[iter.list]}) \subseteq Returned

----------------------------------------------------------------------------
(* The reference: the methods on sequences.                                *)

Without(seq, nodes) == SelectSeq(seq, LAMBDA n : n \notin nodes)

\* seq with the chain behind p, or in front when p is the sentinel.
InsertAfter(seq, p, chain) ==
    LET k == IF p \in Range(seq) THEN CHOOSE i \in DOMAIN seq : seq[i] = p ELSE 0
    IN  SubSeq(seq, 1, k) \o chain \o SubSeq(seq, k + 1, Len(seq))

InList(l, n) == n = heads[l] \/ n \in Range(lists[l])

\* The chain, taken out of where it is and put behind p.
Moved(chain, p) ==
    [l \in List |-> LET rest == Without(lists[l], Range(chain))
                   IN  IF InList(l, p) /\ p \notin Range(chain) THEN InsertAfter(rest, p, chain) ELSE rest]

----------------------------------------------------------------------------
(* The methods.                                                            *)

\* LlistNode::new_llist, for each sentinel.
ListInit ==
    /\ next = [n \in Node |-> IF \E l \in List : FirstHead[l] = n THEN n ELSE Dangling]
    /\ prev = next
    /\ heads = FirstHead
    /\ iter = NoIter
    /\ lists = [l \in List |-> <<>>]

\* LlistNode::new_llist at an address that is in no list: a ring of its own.
new_llist(node) ==
    /\ node \notin Linked
    /\ next' = [next EXCEPT ![node] = node]
    /\ prev' = [prev EXCEPT ![node] = node]
    /\ KeepIter /\ UNCHANGED <<heads, lists>>

\* LlistNode::new between neighbours of one list.
new(node, p, n) ==
    /\ node \notin Linked /\ p \in Linked /\ n = next[p]
    /\ MayChange({p, n})
    /\ next' = [next EXCEPT ![node] = n, ![p] = node]
    /\ prev' = [prev EXCEPT ![node] = p, ![n] = node]
    /\ lists' = Moved(<<node>>, p)
    /\ KeepIter /\ UNCHANGED heads

\* LlistNode::mov: the neighbours, src itself among them when it is alone, are
\* turned to dst before src is copied there.
mov(src, dst) ==
    /\ src \in Linked /\ dst \notin Linked
    /\ MayChange({src})
    /\ LET n == [next EXCEPT ![prev[src]] = dst]
           p == [prev EXCEPT ![next[src]] = dst]
       IN  /\ next' = [n EXCEPT ![dst] = n[src], ![src] = Dangling]
           /\ prev' = [p EXCEPT ![dst] = p[src], ![src] = Dangling]
    /\ heads' = [l \in List |-> IF heads[l] = src THEN dst ELSE heads[l]]
    /\ lists' = [l \in List |-> [i \in DOMAIN lists[l] |-> IF lists[l][i] = src THEN dst ELSE lists[l][i]]]
    /\ KeepIter

\* Mutant: remove leaves the successor's prev at the removed node.
removeOneSided(node) ==
    /\ node \in Linked \ Heads
    /\ MayChange({node})
    /\ next' = [next EXCEPT ![prev[node]] = next[node], ![node] = Dangling]
    /\ prev' = [prev EXCEPT ![node] = Dangling]
    /\ lists' = [l \in List |-> Without(lists[l], {node})]
    /\ KeepIter /\ UNCHANGED heads

\* LlistNode::remove, of a node that is not a sentinel.
remove(node) ==
    /\ node \in Linked \ Heads
    /\ MayChange({node})
    /\ next' = [next EXCEPT ![prev[node]] = next[node], ![node] = Dangling]
    /\ prev' = [prev EXCEPT ![next[node]] = prev[node], ![node] = Dangling]
    /\ lists' = [l \in List |-> Without(lists[l], {node})]
    /\ KeepIter /\ UNCHANGED heads

\* Arguments of relink: a chain without sentinels, and two nodes that are neither
\* its ends nor between them and that are neighbours (already, or once the chain
\* is out), or one node four times.
RelinkArguments(start, end, p, n) ==
    /\ {start, end, p, n} \subseteq Linked
    /\ end \in ChainEnds(start)
    /\ \/ /\ next[p] = n \/ (p = prev[start] /\ n = next[end])
          /\ {p, n} \cap ({start, end} \cup Range(Chain(start, end))) = {}
       \/ start = end /\ p = start /\ n = start

\* Mutant: relink links up the new list before the old one.
relinkNewFirst(start, end, p, n) ==
    /\ RelinkArguments(start, end, p, n)
    /\ MayChange(Range(Chain(start, end)) \cup {p, n})
    /\ LET start_prev == prev[start]
           end_next == next[end]
       IN  /\ next' = [[[next EXCEPT ![end] = n] EXCEPT ![p] = start] EXCEPT ![start_prev] = end_next]
           /\ prev' = [[[prev EXCEPT ![start] = p] EXCEPT ![n] = end] EXCEPT ![end_next] = start_prev]
    /\ lists' = Moved(Chain(start, end), p)
    /\ KeepIter /\ UNCHANGED heads

\* LlistNode::relink: six stores, in this order.
relink(start, end, p, n) ==
    /\ RelinkArguments(start, end, p, n)
    /\ MayChange(Range(Chain(start, end)) \cup {p, n})
    /\ LET start_prev == prev[start]
           end_next == next[end]
       IN  /\ next' = [[[next EXCEPT ![start_prev] = end_next] EXCEPT ![end] = n] EXCEPT ![p] = start]
           /\ prev' = [[[prev EXCEPT ![end_next] = start_prev] EXCEPT ![start] = p] EXCEPT ![n] = end]
    /\ lists' = Moved(Chain(start, end), p)
    /\ KeepIter /\ UNCHANGED heads

\* LlistNode::iter_mut / IterMut::new.
iter_mut(l) ==
    /\ ~iter.ongoing
    /\ LET sentinel == heads[l]
       IN  iter' = [forward |-> next[sentinel], backward |-> prev[sentinel],
                    ongoing |-> sentinel # next[sentinel], list |-> l,
                    plan |-> lists[l], front |-> <<>>, back |-> <<>>]
    /\ UNCHANGED <<next, prev, heads, lists>>

\* Mutant: next compares the ends after it has advanced.
iter_nextLate ==
    /\ iter.ongoing
    /\ iter' = [iter EXCEPT !.ongoing = next[iter.forward] # iter.backward,
                            !.forward = next[iter.forward],
                            !.front = Append(@, iter.forward)]
    /\ UNCHANGED <<next, prev, heads, lists>>

\* Iterator::next.
iter_next ==
    /\ iter.ongoing
    /\ iter' = [iter EXCEPT !.ongoing = iter.forward # iter.backward,
                            !.forward = next[iter.forward],
                            !.front = Append(@, iter.forward)]
    /\ UNCHANGED <<next, prev, heads, lists>>

\* DoubleEndedIterator::next_back.
iter_next_back ==
    /\ iter.ongoing
    /\ iter' = [iter EXCEPT !.ongoing = iter.forward # iter.backward,
                            !.backward = prev[iter.backward],
                            !.back = Append(@, iter.backward)]
    /\ UNCHANGED <<next, prev, heads, lists>>

ListNext ==
    \/ \E node \in Node : new_llist(node) \/ remove(node)
    \/ \E node \in Node, p \in Linked : new(node, p, next[p])
    \/ \E src, dst \in Node : mov(src, dst)
    \/ \E start \in Linked, p \in Linked : \E end \in ChainEnds(start) :
        \E n \in {next[p], next[end], start} : relink(start, end, p, n)
    \/ \E l \in List : iter_mut(l)
    \/ iter_next
    \/ iter_next_back

ListSpec == ListInit /\ [][ListNext]_listVars

----------------------------------------------------------------------------
(* Properties.                                                             *)

\* The links of the nodes that are in a list are each other's inverse and stay
\* among those nodes, and every sentinel is one of them: whatever the order of
\* new, mov, remove and relink, no link is left to an address that a removed
\* or moved node has given up.
LinksInverse ==
    /\ next \in [Node -> Node \cup {Dangling}]
    /\ prev \in [Node -> Node \cup {Dangling}]
    /\ heads \in [List -> Linked]
    /\ \A n \in Linked :
        /\ next[n] \in Linked /\ prev[n] \in Linked
        /\ prev[next[n]] = n /\ next[prev[n]] = n

\* Following the links from each sentinel gives the sequence that the methods
\* promise and leads back to the sentinel: new, mov, remove and relink place,
\* rename, take out and move exactly the nodes they are given, also within one
\* list, around the sentinel and when the four arguments of relink coincide,
\* and never join two lists or drop the rest of one.
ListsAgree ==
    \A l \in List : Walk(heads[l]) = lists[l]

\* IterMut returns every node that was in the list when it was made once: next
\* from the front in the order of the list, next_back from the back, and both
\* stop together, also when the nodes they returned are removed, moved away or
\* given other neighbours in the meantime.
IterOnce ==
    iter # NoIter =>
        /\ Len(iter.front) + Len(iter.back) <= Len(iter.plan)
        /\ \A i \in DOMAIN iter.front : iter.front[i] = iter.plan[i]
        /\ \A i \in DOMAIN iter.back : iter.back[i] = iter.plan[Len(iter.plan) + 1 - i]
        /\ iter.ongoing <=> Len(iter.front) + Len(iter.back) < Len(iter.plan)
=============================================================================
