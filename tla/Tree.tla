-------------------------------- MODULE Tree --------------------------------
(***************************************************************************)
(* src/Tree.cpp: the syntax tree as nodes in memory, tied together by      *)
(* pointers to children and to the parent.  Each function is an operator   *)
(* on a Tree_t that carries the memory with it: a node is an index into    *)
(* `nodes', everything calloc has returned so far in that order; a node    *)
(* that was freed is not `live' any more.                                  *)
(***************************************************************************)
EXTENDS Integers, Sequences, FiniteSets

Null == 0

(* The value of a node that is no number.                                  *)
NO_VALUE == -1

Blank ==
  [parent |-> Null, leftChild |-> Null, rightChild |-> Null,
   nodeType |-> "CONST", value |-> 0, str |-> "", live |-> TRUE]

(* The node the next calloc returns.                                       *)
NewNode(tree) == Len(tree.nodes) + 1

Calloc(tree) == [tree EXCEPT !.nodes = Append(@, Blank)]

NoTree == [root |-> Null, size |-> 0, status |-> "TREE_NOT_CONSTRUCTED", nodes |-> <<>>]

TreeCtor(tree) ==
  [Calloc(tree) EXCEPT !.root = NewNode(tree), !.size = 1, !.status = "TREE_CONSTRUCTED"]

(* Variant: the new node does not learn its parent.                        *)
TreeInsertUnlinked(tree, node, child, type, str) ==
  [tree EXCEPT !.nodes = Append([@ EXCEPT ![node][child] = NewNode(tree)],
                                [Blank EXCEPT !.nodeType = type, !.value = NO_VALUE,
                                              !.str = str]),
               !.size = @ + 1]

(* A child the node had before is lost.                                    *)
TreeInsert(tree, node, child, type, str) ==
  [tree EXCEPT !.nodes = Append([@ EXCEPT ![node][child] = NewNode(tree)],
                                [Blank EXCEPT !.parent = node, !.nodeType = type,
                                              !.value = NO_VALUE, !.str = str]),
               !.size = @ + 1]

(* SetNodeTypeValueStr, by which a node is finished: its word is its type. *)
SetNodeType(tree, node, type) ==
  [tree EXCEPT !.nodes[node] = [@ EXCEPT !.nodeType = type, !.value = NO_VALUE]]

(* node->child = below; below->parent = node                               *)
Linked(tree, node, child, below) ==
  [tree EXCEPT !.nodes = [@ EXCEPT ![node][child] = below, ![below].parent = node]]

-----------------------------------------------------------------------------
Children(tree, node) ==
  {tree.nodes[node].leftChild, tree.nodes[node].rightChild} \ {Null}

(* The nodes met on the way down from a node.                              *)
Subtree(tree, node) ==
  LET met[k \in 0 .. Len(tree.nodes)] ==
        IF k = 0 THEN {node} \ {Null}
        ELSE LET above == met[k-1]
             IN  above \cup UNION {Children(tree, n) : n \in above}
  IN  met[Len(tree.nodes)]

(***************************************************************************)
(* Every child knows its parent, no node is the child of two and none was  *)
(* freed: the walks down and up agree, and SubtreeDtor frees each node     *)
(* once.                                                                   *)
(***************************************************************************)
LinksAgree(tree, top) ==
  LET below == Subtree(tree, top)
  IN  /\ \A n \in below : tree.nodes[n].live
      /\ \A n \in below : \A c \in Children(tree, n) : tree.nodes[c].parent = n
      /\ \A n \in below : Children(tree, n) # {} =>
                            tree.nodes[n].leftChild # tree.nodes[n].rightChild

(* Variant: only the node itself is freed.                                 *)
SubtreeDtorShallow(tree, node) == [tree EXCEPT !.nodes[node].live = FALSE]

SubtreeDtor(tree, node) ==
  LET below == Subtree(tree, node)
  IN  [tree EXCEPT !.nodes = [n \in DOMAIN @ |->
         IF n \in below THEN [@[n] EXCEPT !.live = FALSE] ELSE @[n]]]

(* The mark of a destructed tree goes to the wrong field, as a number.     *)
TREE_DESTRUCTED == 2
TreeDtor(tree) ==
  IF tree.status = "TREE_DESTRUCTED" THEN tree
  ELSE [SubtreeDtor(tree, tree.root) EXCEPT !.size = TREE_DESTRUCTED]
=============================================================================
