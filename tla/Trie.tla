-------------------------------- MODULE Trie --------------------------------
(***************************************************************************)
(* The tries of Trie.h, and the text form in which LogFile.cpp keeps them. *)
(*                                                                         *)
(* A node is the path that leads to it, a sequence of characters, and a    *)
(* trie the function from its nodes, a prefix-closed set, to their values. *)
(* Characters are printable and not blank: the delimiters cut blanks out   *)
(* of words, and LogSearch takes keys that have none.                      *)
(***************************************************************************)
EXTENDS Integers, Sequences, FiniteSets, SequencesExt

CONSTANT Lower(_)        \* the lower case of a character

Root == <<>>
RootChar == "@"
NoNodes == [path \in {Root} |-> <<>>]
NewTrie == [valid |-> TRUE, read_only |-> FALSE, nodes |-> NoNodes]

(* The word trie converts what it stores, never what it looks for.         *)
LowerWord(word) == [i \in DOMAIN word |-> Lower(word[i])]

(* Insert creates the nodes on the way and adds the value to the last one. *)
WithPath(nodes, path) ==
    [p \in DOMAIN nodes \cup Prefixes(path) |-> IF p \in DOMAIN nodes THEN nodes[p] ELSE <<>>]

Insert(trie, path, value) ==
    IF trie.valid /\ ~ trie.read_only
      THEN [trie EXCEPT !.nodes = [WithPath(@, path) EXCEPT ![path] = Append(@, value)]]
      ELSE trie

(* Search returns nullptr where Found is FALSE, and otherwise the node's   *)
(* list: an empty one for a proper prefix of what was inserted.            *)
Found(trie, word) == trie.valid /\ word \in DOMAIN trie.nodes
Values(trie, word) == trie.nodes[word]

Deleted(trie) == [trie EXCEPT !.valid = FALSE, !.nodes = NoNodes]

-----------------------------------------------------------------------------
(* Save_trie_file: a line for each node, breadth first, with the number of *)
(* the line of its father.  (The children of a node come in any order.)    *)
BreadthFirst(nodes) == SetToSortSeq(DOMAIN nodes, LAMBDA p, q : Len(p) < Len(q))

Lines(nodes) ==
    LET order == BreadthFirst(nodes)
    IN  [i \in DOMAIN order |->
            [father |-> IF i = 1 THEN -1
                                 ELSE (CHOOSE j \in DOMAIN order : order[j] = Front(order[i])) - 1,
             c      |-> IF i = 1 THEN RootChar ELSE Last(order[i]),
             values |-> nodes[order[i]]]]

(* Afterwards the trie is deleted, and takes no insert any more.           *)
Saved(trie) == [Deleted(trie) EXCEPT !.read_only = TRUE]

(* Read_trie_file: nodes in an array, each hung under its father.          *)
Read(trie, lines) ==
    LET path[i \in 1 .. Len(lines)] ==
            IF i = 1 THEN Root ELSE Append(path[lines[i].father + 1], lines[i].c)
        line(p) == CHOOSE i \in DOMAIN lines : path[i] = p
    IN  [trie EXCEPT !.valid = TRUE,
                     !.nodes = [p \in {path[i] : i \in DOMAIN lines} |-> lines[line(p)].values]]
=============================================================================
