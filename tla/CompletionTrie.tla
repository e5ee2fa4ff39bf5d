--------------------------- MODULE CompletionTrie ---------------------------
(***************************************************************************)
(* engine/src/trie.rs.  Nodes live in parallel arrays: node 1 is the root, *)
(* the children of node n are first[n] .. first[n] + count[n] - 1, sorted  *)
(* by label, and terminal[n] is the word that ends at n, or NoWord.  The   *)
(* array words holds the words and what was inserted with each.            *)
(***************************************************************************)
EXTENDS Distance

NoWord == 0

\* The inserted words, sorted, each with the value of its last insertion.
SortedWords(inserted) ==
  LET distinct == {inserted[k].word : k \in DOMAIN inserted}
      last(w) == CHOOSE k \in DOMAIN inserted :
                   /\ inserted[k].word = w
                   /\ \A l \in DOMAIN inserted : inserted[l].word = w => l <= k
      Kept(order) == [k \in DOMAIN order |-> inserted[last(order[k])]]
  IN  Kept(Ranked(distinct, WordLess))

(***************************************************************************)
(* The labels that continue the words lo .. hi - 1 at a depth, ascending,  *)
(* each with the run of words it heads.                                    *)
(***************************************************************************)
Groups(words, lo, hi, depth) ==
  LET at(k) == words[k].word[depth + 1]
      starts == {k \in lo..(hi - 1) : k = lo \/ at(k) # at(k - 1)}
      Runs(order) ==
        [i \in DOMAIN order |->
           [label |-> at(order[i]), lo |-> order[i],
            hi |-> IF i = Len(order) THEN hi ELSE order[i + 1]]]
  IN  Runs(Ranked(starts, LAMBDA a, b : a < b))

\* The task's node gets one child for each group; ends says a word ends at it.
Grown(t, task, ends, groups) ==
  LET n == Len(groups)
      first == Len(t.label) + 1
      Blank(value) == [i \in 1..n |-> value]
      children == [i \in 1..n |->
                     LET g == groups[n + 1 - i]
                     IN  [lo |-> g.lo, hi |-> g.hi, depth |-> task.depth + 1,
                          node |-> first + n - i]]
  IN  [words    |-> t.words,
       label    |-> t.label \o [i \in 1..n |-> groups[i].label],
       first    |-> [t.first EXCEPT ![task.node] = first] \o Blank(0),
       count    |-> [t.count EXCEPT ![task.node] = n] \o Blank(0),
       terminal |-> (IF ends THEN [t.terminal EXCEPT ![task.node] = task.lo]
                             ELSE t.terminal) \o Blank(NoWord),
       stack    |-> SubSeq(t.stack, 1, Len(t.stack) - 1) \o children]

\* The next task of the work stack: the words lo .. hi - 1 hang under node.
Grow(t) ==
  LET task == t.stack[Len(t.stack)]
      With(ends) ==
        Grown(t, task, ends,
              Groups(t.words, IF ends THEN task.lo + 1 ELSE task.lo, task.hi, task.depth))
  IN  With(task.lo < task.hi /\ Len(t.words[task.lo].word) = task.depth)

\* Every task adds one node's children, so there are as many tasks as nodes.
TrieOfSorted(words) ==
  LET letters[k \in 0..Len(words)] ==
        IF k = 0 THEN 0 ELSE letters[k - 1] + Len(words[k].word)
      root == [words |-> words, label |-> <<0>>, first |-> <<0>>, count |-> <<0>>,
               terminal |-> <<NoWord>>,
               stack |-> <<[lo |-> 1, hi |-> Len(words) + 1, depth |-> 0, node |-> 1]>>]
      built[k \in 0..(letters[Len(words)] + 1)] ==
        IF k = 0 THEN root
        ELSE LET t == built[k - 1] IN IF t.stack = <<>> THEN t ELSE Grow(t)
  IN  built[letters[Len(words)] + 1]

TrieOf(inserted) == TrieOfSorted(SortedWords(inserted))

EmptyTrie == [words |-> <<>>, label |-> <<>>, first |-> <<>>, count |-> <<>>,
              terminal |-> <<>>, stack |-> <<>>]

Children(t, node) == t.first[node]..(t.first[node] + t.count[node] - 1)

NoNode == 0

\* The node reached from the root along w, if there is one.
Walk(t, w) ==
  LET along[i \in 0..Len(w)] ==
        IF i = 0 THEN IF t.label = <<>> THEN NoNode ELSE 1
        ELSE LET node == along[i - 1]
                 next == IF node = NoNode THEN {}
                         ELSE {c \in Children(t, node) : t.label[c] = w[i]}
             IN  IF next = {} THEN NoNode ELSE CHOOSE c \in next : TRUE
  IN  along[Len(w)]

Contains(t, w) ==
  LET node == Walk(t, w) IN node # NoNode /\ t.terminal[node] # NoWord

PushedAsStored(t, node) ==
  [i \in 1..t.count[node] |-> t.first[node] + i - 1]

\* The children of a node, pushed so that the first is taken first.
Pushed(t, node) ==
  [i \in 1..t.count[node] |-> t.first[node] + t.count[node] - i]

\* find_by_prefix and collect_words: the words under a prefix, depth first.
FindByPrefix(t, prefix) ==
  LET from == Walk(t, prefix)
      visit[k \in 0..Len(t.label)] ==
        IF k = 0 THEN [stack |-> <<from>>, found |-> <<>>]
        ELSE LET v == visit[k - 1]
                 node == v.stack[Len(v.stack)]
                 word == t.terminal[node]
             IN  IF v.stack = <<>> THEN v
                 ELSE [stack |-> SubSeq(v.stack, 1, Len(v.stack) - 1) \o Pushed(t, node),
                       found |-> IF word = NoWord THEN v.found
                                 ELSE Append(v.found, t.words[word])]
  IN  IF from = NoNode THEN <<>> ELSE visit[Len(t.label)].found

\* The row of the node on top of the stack, below the rows of the path to it.
TopRow(t, v, d, c, query) ==
  NextRow(d, c, v.path[IF d = 1 THEN 1 ELSE d - 1], v.rows[d],
          v.rows[IF d = 1 THEN 1 ELSE d - 1], query, UnitCost, 1, 1)

\* A node visited: its row kept, its word reported, the nodes below it pushed.
Visited(t, v, top, row, reported, entered) ==
  LET below == [i \in 1..t.count[top.node] |->
                  [node |-> t.first[top.node] + t.count[top.node] - i,
                   depth |-> top.depth + 1]]
  IN  [path  |-> Append(SubSeq(v.path, 1, top.depth - 1), t.label[top.node]),
       rows  |-> Append(SubSeq(v.rows, 1, top.depth), row),
       found |-> IF t.terminal[top.node] # NoWord /\ reported
                 THEN Append(v.found, t.words[t.terminal[top.node]].value) ELSE v.found,
       stack |-> SubSeq(v.stack, 1, Len(v.stack) - 1) \o (IF entered THEN below ELSE <<>>)]

VisitPrunedByLastCell(t, v, query, limit) ==
  LET top == v.stack[Len(v.stack)]
      With(row) == Visited(t, v, top, row, row[Len(query) + 1] <= limit,
                           row[Len(query) + 1] <= limit)
  IN  With(TopRow(t, v, top.depth, t.label[top.node], query))

(***************************************************************************)
(* One step of fuzzy_terminals: take a node from the stack, cut the path   *)
(* and the rows back to its parent's depth, fill its row, report its word, *)
(* and go on below it unless every cell of the row is over the limit.      *)
(***************************************************************************)
Visit(t, v, query, limit) ==
  LET top == v.stack[Len(v.stack)]
      With(row) == Visited(t, v, top, row, row[Len(query) + 1] <= limit,
                           \E j \in DOMAIN row : row[j] <= limit)
  IN  With(TopRow(t, v, top.depth, t.label[top.node], query))

FuzzyTerminals(t, query, limit) ==
  LET row == FirstRow(Len(query), 1)
      start == [path |-> <<>>, rows |-> <<row>>,
                found |-> IF t.terminal[1] # NoWord /\ row[Len(query) + 1] <= limit
                          THEN <<t.words[t.terminal[1]].value>> ELSE <<>>,
                stack |-> [i \in 1..t.count[1] |->
                             [node |-> t.first[1] + t.count[1] - i, depth |-> 1]]]
      visited[k \in 0..Len(t.label)] ==
        IF k = 0 THEN start
        ELSE LET v == visited[k - 1] IN IF v.stack = <<>> THEN v ELSE Visit(t, v, query, limit)
  IN  IF t.label = <<>> THEN <<>> ELSE visited[Len(t.label)].found
=============================================================================
