---------------------------- MODULE ParserProofs ----------------------------
(***************************************************************************)
(* The parser never ties a node twice, never returns a broken tree, and    *)
(* crashes only where something is missing, for every array of tokens and  *)
(* every content of the memory after them.                                 *)
(*                                                                         *)
(* The invariant relates the tasks under way to the tree: the local        *)
(* variables of the calls hold different nodes, all of them free, that is  *)
(* not hung anywhere yet; what a call returns is free and held by none;    *)
(* every task is followed by one that can use what it leaves.  An error is *)
(* always waited for by some task that asks for it, but for the semicolon  *)
(* of the last global variable; and a missing node always has a semicolon  *)
(* or an empty block before it.                                            *)
(*                                                                         *)
(* Of the tree the proofs know what each operator of module Tree does      *)
(* (Allocated, Hung, Inserted, ...), of the agenda what a task in front    *)
(* changes (the Push lemmas); every action is then a short sum of those.   *)
(***************************************************************************)
EXTENDS Parser, SequenceTheorems, WellFoundedInduction, TLAPS

(* What nodes and tasks are made of.                                       *)
Kinds ==
  {"CONST", "VARIABLE", "DEFINE", "FUNCTION", "MAIN", "FUNC", "STATEMENT", "ASSIGN", "PARAMETR",
   "IF", "WHILE", "RETURN", "DECISION", "CALL"}
  \cup Builtins \cup OperatorsOf("Bool") \cup OperatorsOf("E") \cup OperatorsOf("T")
  \cup OperatorsOf("Pow")

(* The tokens there are, those of memory after the array included.         *)
Cells  == {Zero} \cup BeyondTokens \cup UNION {{s[i] : i \in DOMAIN s} : s \in TokenArrays}

(* The numbers and the strings a node can get from a token.                *)
Values == {0, NO_VALUE} \cup {c.value : c \in Cells}
Strs   == {""} \cup {c.id : c \in Cells}

(* A node_t and a tree_t that was constructed and not yet destructed.      *)
NodeT ==
  [parent : Nat, leftChild : Nat, rightChild : Nat, nodeType : Kinds, value : Values,
   str : Strs, live : BOOLEAN]
TreeT ==
  [root : Nat, size : Nat, status : {"TREE_NOT_CONSTRUCTED", "TREE_CONSTRUCTED"},
   nodes : Seq(NodeT)]

(* The two pointers of a node that lead down.                              *)
Sides == {"leftChild", "rightChild"}

(* The nodes that hang below no other one.                                 *)
Free(nodes) == {n \in DOMAIN nodes : nodes[n].parent = Null}

(* The pointers of the nodes agree: every child is a node that knows its   *)
(* parent, and the two children of a node differ.                          *)
Tied(nodes) ==
  \A n \in DOMAIN nodes :
    /\ nodes[n].live
    /\ nodes[n].parent \in 0 .. Len(nodes)
    /\ nodes[n].leftChild # Null =>
         /\ nodes[n].leftChild \in DOMAIN nodes
         /\ nodes[nodes[n].leftChild].parent = n
         /\ nodes[n].leftChild # nodes[n].rightChild
    /\ nodes[n].rightChild # Null =>
         /\ nodes[n].rightChild \in DOMAIN nodes
         /\ nodes[nodes[n].rightChild].parent = n

(* A tree as the parser keeps it between any two of its steps.             *)
SoundTree(t) == t \in TreeT /\ Tied(t.nodes) /\ t.root \in 0 .. Len(t.nodes)

(* What calloc returns is a node.                                          *)
LEMMA BlankT == Blank \in NodeT
<1>1. "CONST" \in Kinds /\ 0 \in Values /\ "" \in Strs
  BY DEF Kinds, Values, Strs
<1>. QED
  BY <1>1 DEF Blank, NodeT, Null

(* What a sound tree says of its nodes, ready to be cited.                 *)
LEMMA NodesOf ==
  ASSUME NEW t, SoundTree(t)
  PROVE  /\ t \in TreeT /\ Tied(t.nodes) /\ t.root \in 0 .. Len(t.nodes)
         /\ t.nodes \in Seq(NodeT) /\ DOMAIN t.nodes = 1 .. Len(t.nodes) /\ Len(t.nodes) \in Nat
         /\ \A n \in DOMAIN t.nodes : t.nodes[n] \in NodeT
BY DEF SoundTree, TreeT

(* What every operator of module Tree returns: u is t grown by k nodes.    *)
Grown(t, u, k) == SoundTree(u) /\ u.root = t.root /\ Len(u.nodes) = Len(t.nodes) + k

(* A node that none of its pointers lost.                                  *)
Kept(x, y) ==
  /\ y.parent = x.parent /\ y.nodeType = x.nodeType
  /\ y.leftChild = x.leftChild /\ y.rightChild = x.rightChild

(* u is t with one blank node more, as calloc leaves it.                   *)
Allocated(t, u) ==
  /\ Grown(t, u, 1)
  /\ \A n \in DOMAIN t.nodes : u.nodes[n] = t.nodes[n]
  /\ u.nodes[NewNode(t)] = Blank

(* u is t with the node b hung below p.                                    *)
Hung(t, u, p, side, b) ==
  /\ Grown(t, u, 0)
  /\ \A n \in DOMAIN t.nodes :
       /\ u.nodes[n].parent = IF n = b THEN p ELSE t.nodes[n].parent
       /\ u.nodes[n].leftChild =
            IF n = p /\ side = "leftChild" THEN b ELSE t.nodes[n].leftChild
       /\ u.nodes[n].rightChild =
            IF n = p /\ side = "rightChild" THEN b ELSE t.nodes[n].rightChild
       /\ u.nodes[n].nodeType = t.nodes[n].nodeType

(* u is t with a new node of the type hung below p.                        *)
Inserted(t, u, p, side, type) ==
  /\ Grown(t, u, 1)
  /\ \A n \in DOMAIN t.nodes :
       /\ u.nodes[n].parent = t.nodes[n].parent
       /\ u.nodes[n].leftChild =
            IF n = p /\ side = "leftChild" THEN NewNode(t) ELSE t.nodes[n].leftChild
       /\ u.nodes[n].rightChild =
            IF n = p /\ side = "rightChild" THEN NewNode(t) ELSE t.nodes[n].rightChild
       /\ u.nodes[n].nodeType = t.nodes[n].nodeType
  /\ u.nodes[NewNode(t)].parent = p
  /\ u.nodes[NewNode(t)].nodeType = type

(* u is t with another type for p.                                         *)
Retyped(t, u, p, type) ==
  /\ Grown(t, u, 0)
  /\ \A n \in DOMAIN t.nodes :
       /\ u.nodes[n].parent = t.nodes[n].parent
       /\ u.nodes[n].leftChild = t.nodes[n].leftChild
       /\ u.nodes[n].rightChild = t.nodes[n].rightChild
       /\ u.nodes[n].nodeType = IF n = p THEN type ELSE t.nodes[n].nodeType

(* u is t with a new node above left and right, which may be null.         *)
Constructed(t, u, left, right) ==
  /\ Grown(t, u, 1)
  /\ \A n \in DOMAIN t.nodes :
       /\ u.nodes[n].parent = IF n \in {left, right} THEN NewNode(t) ELSE t.nodes[n].parent
       /\ u.nodes[n].leftChild = t.nodes[n].leftChild
       /\ u.nodes[n].rightChild = t.nodes[n].rightChild
       /\ u.nodes[n].nodeType = t.nodes[n].nodeType
  /\ u.nodes[NewNode(t)].parent = Null

(* calloc adds a node that hangs nowhere.                                  *)
LEMMA CallocSound ==
  ASSUME NEW t, SoundTree(t)
  PROVE  Allocated(t, Calloc(t))
<1>. SUFFICES ASSUME NEW u, u = Calloc(t)
     PROVE  Allocated(t, u)
  OBVIOUS
<1>. DEFINE N == t.nodes
            M == u.nodes
<1>1. /\ t \in TreeT /\ Tied(N) /\ t.root \in 0 .. Len(N) /\ N \in Seq(NodeT)
      /\ \A n \in DOMAIN N : N[n] \in NodeT
  BY NodesOf
<1>2. u \in TreeT /\ M = Append(N, Blank) /\ u.root = t.root
  <2>. DEFINE A == Append(N, Blank)
  <2>1. A \in Seq(NodeT)
    BY <1>1, BlankT, AppendProperties
  <2>2. u = [t EXCEPT !.nodes = A]
    BY DEF Calloc
  <2>. HIDE DEF A
  <2>3. u \in TreeT /\ M = A /\ u.root = t.root
    BY <1>1, <2>1, <2>2 DEF TreeT
  <2>. QED
    BY <2>3 DEF A
<1>3. M \in Seq(NodeT) /\ Len(M) = Len(N) + 1 /\ M[Len(N) + 1] = Blank
      /\ \A n \in DOMAIN N : M[n] = N[n]
  BY <1>1, <1>2, BlankT, AppendProperties
<1>. HIDE DEF N, M
<1>4. DOMAIN N = 1 .. Len(N) /\ DOMAIN M = 1 .. Len(N) + 1 /\ Len(N) \in Nat
  BY <1>1, <1>3
<1>5. Tied(M)
  <2>. SUFFICES ASSUME NEW n \in DOMAIN M
       PROVE /\ M[n].live
             /\ M[n].parent \in 0 .. Len(M)
             /\ M[n].leftChild # Null =>
                  /\ M[n].leftChild \in DOMAIN M
                  /\ M[M[n].leftChild].parent = n
                  /\ M[n].leftChild # M[n].rightChild
             /\ M[n].rightChild # Null =>
                  /\ M[n].rightChild \in DOMAIN M
                  /\ M[M[n].rightChild].parent = n
    BY DEF Tied
  <2>1. CASE n \in DOMAIN N
    <3>1. M[n] = N[n] /\ N[n] \in NodeT
      BY <2>1, <1>3, <1>1
    <3>. QED BY <3>1, <2>1, <1>1, <1>3, <1>4 DEF Tied
  <2>2. CASE n = Len(N) + 1
    <3>1. M[n] = Blank
      BY <2>2, <1>3
    <3>2. /\ Blank.live /\ Blank.parent = 0
          /\ Blank.leftChild = Null /\ Blank.rightChild = Null
      BY DEF Blank, Null
    <3>3. 0 \in 0 .. Len(M)
      BY <1>3, <1>4
    <3>. QED BY <3>1, <3>2, <3>3
  <2>. QED BY <2>1, <2>2, <1>4
<1>. QED
  BY <1>1, <1>2, <1>3, <1>4, <1>5 DEF Allocated, Grown, SoundTree, NewNode, N, M

(* An assignment to one pointer of a node changes nothing else of it.      *)
LEMMA SideSet ==
  ASSUME NEW x \in NodeT, NEW side \in Sides, NEW b \in Nat, NEW y, y = [x EXCEPT ![side] = b]
  PROVE  /\ y \in NodeT
         /\ y.parent = x.parent /\ y.nodeType = x.nodeType /\ y.live = x.live
         /\ y.leftChild = IF side = "leftChild" THEN b ELSE x.leftChild
         /\ y.rightChild = IF side = "rightChild" THEN b ELSE x.rightChild
<1>1. CASE side = "leftChild"
  BY <1>1 DEF NodeT
<1>2. CASE side = "rightChild"
  BY <1>2 DEF NodeT
<1>. QED BY <1>1, <1>2 DEF Sides

(* The same of the pointer to the parent.                                  *)
LEMMA ParentSet ==
  ASSUME NEW x \in NodeT, NEW b \in Nat, NEW y, y = [x EXCEPT !.parent = b]
  PROVE  /\ y \in NodeT
         /\ y.parent = b /\ y.nodeType = x.nodeType /\ y.live = x.live
         /\ y.leftChild = x.leftChild /\ y.rightChild = x.rightChild
BY DEF NodeT

(* The two assignments that hang a free node below another one tie the     *)
(* pointers, whatever the other one had there.                             *)
LEMMA LinkedSound ==
  ASSUME NEW t, SoundTree(t), NEW p \in DOMAIN t.nodes, NEW side \in Sides,
         NEW b \in Free(t.nodes)
  PROVE  Hung(t, Linked(t, p, side, b), p, side, b)
<1>. SUFFICES ASSUME NEW u, u = Linked(t, p, side, b)
     PROVE  Hung(t, u, p, side, b)
  OBVIOUS
<1>. DEFINE N == t.nodes
            M == u.nodes
<1>1. /\ t \in TreeT /\ Tied(N) /\ t.root \in 0 .. Len(N) /\ N \in Seq(NodeT)
      /\ \A n \in DOMAIN N : N[n] \in NodeT
  BY NodesOf
<1>2. M = [N EXCEPT ![p][side] = b, ![b].parent = p] /\ u = [t EXCEPT !.nodes = M]
  BY <1>1 DEF Linked, TreeT
<1>3. p \in DOMAIN N /\ b \in DOMAIN N /\ N[b].parent = Null
  BY DEF Free
<1>. HIDE DEF N, M
<1>. DEFINE A == [N EXCEPT ![p][side] = b]
<1>4. DOMAIN N = 1 .. Len(N) /\ Len(N) \in Nat /\ p \in Nat /\ b \in Nat
  BY <1>1, <1>3
<1>5. /\ A \in Seq(NodeT) /\ Len(A) = Len(N)
      /\ \A n \in DOMAIN N \ {p} : A[n] = N[n]
      /\ A[p] = [N[p] EXCEPT ![side] = b]
  <2>1. [N[p] EXCEPT ![side] = b] \in NodeT
    BY <1>1, <1>3, <1>4, SideSet
  <2>. QED
    BY <2>1, <1>1, <1>3, <1>4
<1>. HIDE DEF A
<1>6. M = [A EXCEPT ![b].parent = p]
  BY <1>2 DEF A
<1>7. /\ M \in Seq(NodeT) /\ Len(M) = Len(N)
      /\ \A n \in DOMAIN N \ {b} : M[n] = A[n]
      /\ M[b] = [A[b] EXCEPT !.parent = p]
  <2>1. A[b] \in NodeT
    BY <1>3, <1>4, <1>5
  <2>2. [A[b] EXCEPT !.parent = p] \in NodeT
    BY <1>4, <2>1, ParentSet
  <2>. QED
    BY <2>2, <1>3, <1>4, <1>5, <1>6
<1>8. \A n \in DOMAIN N :
              /\ M[n].parent = IF n = b THEN p ELSE N[n].parent
              /\ M[n].leftChild = IF n = p /\ side = "leftChild" THEN b ELSE N[n].leftChild
              /\ M[n].rightChild = IF n = p /\ side = "rightChild" THEN b ELSE N[n].rightChild
              /\ M[n].nodeType = N[n].nodeType
              /\ M[n].live = N[n].live
  <2>. SUFFICES ASSUME NEW n \in DOMAIN N
       PROVE  /\ M[n].parent = IF n = b THEN p ELSE N[n].parent
              /\ M[n].leftChild = IF n = p /\ side = "leftChild" THEN b ELSE N[n].leftChild
              /\ M[n].rightChild = IF n = p /\ side = "rightChild" THEN b ELSE N[n].rightChild
              /\ M[n].nodeType = N[n].nodeType
              /\ M[n].live = N[n].live
    OBVIOUS
  <2>1. N[n] \in NodeT /\ A[n] \in NodeT
    BY <1>1, <1>4, <1>5
  <2>2. /\ A[n].parent = N[n].parent
        /\ A[n].leftChild = IF n = p /\ side = "leftChild" THEN b ELSE N[n].leftChild
        /\ A[n].rightChild = IF n = p /\ side = "rightChild" THEN b ELSE N[n].rightChild
        /\ A[n].nodeType = N[n].nodeType
        /\ A[n].live = N[n].live
    BY <1>4, <1>5, <2>1, SideSet
  <2>3. /\ M[n].parent = IF n = b THEN p ELSE A[n].parent
        /\ M[n].leftChild = A[n].leftChild
        /\ M[n].rightChild = A[n].rightChild
        /\ M[n].nodeType = A[n].nodeType
        /\ M[n].live = A[n].live
    BY <1>4, <1>7, <2>1, ParentSet
  <2>. QED BY <2>2, <2>3
<1>10. Tied(M)
  <2>. SUFFICES ASSUME NEW n \in DOMAIN M
       PROVE /\ M[n].live
             /\ M[n].parent \in 0 .. Len(M)
             /\ M[n].leftChild # Null =>
                  /\ M[n].leftChild \in DOMAIN M
                  /\ M[M[n].leftChild].parent = n
                  /\ M[n].leftChild # M[n].rightChild
             /\ M[n].rightChild # Null =>
                  /\ M[n].rightChild \in DOMAIN M
                  /\ M[M[n].rightChild].parent = n
    BY DEF Tied
  <2>1. DOMAIN M = DOMAIN N
    BY <1>7, <1>4
  <2>2. /\ N[n].live
        /\ N[n].parent \in 0 .. Len(N)
        /\ N[n].leftChild # Null =>
             /\ N[n].leftChild \in DOMAIN N
             /\ N[N[n].leftChild].parent = n
             /\ N[n].leftChild # N[n].rightChild
        /\ N[n].rightChild # Null =>
             /\ N[n].rightChild \in DOMAIN N
             /\ N[N[n].rightChild].parent = n
    BY <1>1, <2>1 DEF Tied
  <2>3. n # Null /\ p # Null /\ p \in 0 .. Len(N) /\ Len(M) = Len(N)
    BY <2>1, <1>3, <1>4, <1>7 DEF Null
  <2>. QED BY <1>3, <1>8, <2>1, <2>2, <2>3 DEF Sides
<1>11. u \in TreeT /\ u.root = t.root
  BY <1>1, <1>2, <1>7 DEF TreeT
<1>12. Len(M) = Len(N) + 0
  BY <1>4, <1>7
<1>. QED
  BY <1>1, <1>7, <1>8, <1>10, <1>11, <1>12 DEF Hung, Grown, SoundTree, N, M

(* TreeInsert hangs a new node below a node, whatever that one had there.  *)
LEMMA TreeInsertSound ==
  ASSUME NEW t, SoundTree(t), NEW p \in DOMAIN t.nodes, NEW side \in Sides,
         NEW type \in Kinds, NEW str \in Strs
  PROVE  Inserted(t, TreeInsert(t, p, side, type, str), p, side, type)
<1>. SUFFICES ASSUME NEW u, u = TreeInsert(t, p, side, type, str)
     PROVE  Inserted(t, u, p, side, type)
  OBVIOUS
<1>. DEFINE N == t.nodes
            M == u.nodes
            b == NewNode(t)
            A == [N EXCEPT ![p][side] = b]
            r == [Blank EXCEPT !.parent = p, !.nodeType = type, !.value = NO_VALUE, !.str = str]
<1>1. /\ t \in TreeT /\ Tied(N) /\ t.root \in 0 .. Len(N) /\ N \in Seq(NodeT)
      /\ \A n \in DOMAIN N : N[n] \in NodeT
  BY NodesOf
<1>2. DOMAIN N = 1 .. Len(N) /\ Len(N) \in Nat /\ p \in Nat /\ b = Len(N) + 1 /\ p \in 1 .. Len(N)
  BY <1>1 DEF NewNode
<1>3. /\ A \in Seq(NodeT) /\ Len(A) = Len(N)
      /\ \A n \in DOMAIN N \ {p} : A[n] = N[n]
      /\ A[p] = [N[p] EXCEPT ![side] = b]
  <2>. HIDE DEF N, b
  <2>1. [N[p] EXCEPT ![side] = b] \in NodeT
    BY <1>1, <1>2, SideSet
  <2>. QED
    BY <2>1, <1>1, <1>2
<1>4. /\ r \in NodeT /\ r.parent = p /\ r.nodeType = type /\ r.live
      /\ r.leftChild = Null /\ r.rightChild = Null
  BY <1>2, BlankT DEF Blank, NodeT, Null, Values
<1>5. u = [t EXCEPT !.nodes = Append(A, r), !.size = @ + 1]
  BY <1>1 DEF TreeInsert, TreeT
<1>. HIDE DEF A, r
<1>6. Append(A, r) \in Seq(NodeT)
  BY <1>3, <1>4, AppendProperties
<1>7. u \in TreeT /\ M = Append(A, r) /\ u.root = t.root
  <2>. DEFINE B == Append(A, r)
  <2>1. B \in Seq(NodeT) /\ u = [t EXCEPT !.nodes = B, !.size = @ + 1]
    BY <1>5, <1>6
  <2>. HIDE DEF B
  <2>. DEFINE k == t.size + 1
  <2>2. k \in Nat /\ u = [t EXCEPT !.nodes = B, !.size = k]
    BY <1>1, <2>1 DEF TreeT
  <2>. HIDE DEF k
  <2>3. u \in TreeT /\ M = B /\ u.root = t.root
    BY <1>1, <2>1, <2>2 DEF TreeT
  <2>. QED
    BY <2>3 DEF B
<1>. HIDE DEF N, M, b
<1>8. /\ M \in Seq(NodeT) /\ Len(M) = Len(N) + 1 /\ M[b] = r
      /\ \A n \in DOMAIN N : M[n] = A[n]
      /\ DOMAIN M = 1 .. Len(N) + 1
  BY <1>2, <1>3, <1>4, <1>6, <1>7, AppendProperties
<1>9. \A n \in DOMAIN N :
              /\ M[n].parent = N[n].parent
              /\ M[n].leftChild = IF n = p /\ side = "leftChild" THEN b ELSE N[n].leftChild
              /\ M[n].rightChild = IF n = p /\ side = "rightChild" THEN b ELSE N[n].rightChild
              /\ M[n].nodeType = N[n].nodeType
              /\ M[n].live = N[n].live
  BY <1>1, <1>2, <1>3, <1>8, SideSet
<1>10. Tied(M)
  <2>. SUFFICES ASSUME NEW n \in DOMAIN M
       PROVE /\ M[n].live
             /\ M[n].parent \in 0 .. Len(M)
             /\ M[n].leftChild # Null =>
                  /\ M[n].leftChild \in DOMAIN M
                  /\ M[M[n].leftChild].parent = n
                  /\ M[n].leftChild # M[n].rightChild
             /\ M[n].rightChild # Null =>
                  /\ M[n].rightChild \in DOMAIN M
                  /\ M[M[n].rightChild].parent = n
    BY DEF Tied
  <2>1. CASE n \in DOMAIN N
    <3>2. /\ N[n].live
          /\ N[n].parent \in 0 .. Len(N)
          /\ N[n].leftChild # Null =>
               /\ N[n].leftChild \in DOMAIN N
               /\ N[N[n].leftChild].parent = n
               /\ N[n].leftChild # N[n].rightChild
          /\ N[n].rightChild # Null =>
               /\ N[n].rightChild \in DOMAIN N
               /\ N[N[n].rightChild].parent = n
      BY <1>1, <2>1 DEF Tied
    <3>3. M[b].parent = p /\ b \in DOMAIN M /\ b \notin DOMAIN N
      BY <1>2, <1>4, <1>8
    <3>4. N[n].leftChild \in Nat /\ N[n].rightChild \in Nat
      BY <1>1, <2>1 DEF NodeT
    <3>. QED BY <3>2, <3>3, <3>4, <2>1, <1>2, <1>8, <1>9 DEF Sides, Null
  <2>2. CASE n = b
    <3>1. M[n] = r
      BY <2>2, <1>8
    <3>2. p \in 0 .. Len(M)
      BY <1>2, <1>8
    <3>. QED BY <3>1, <3>2, <1>4
  <2>. QED BY <2>1, <2>2, <1>2, <1>8
<1>. QED
  BY <1>1, <1>2, <1>4, <1>7, <1>8, <1>9, <1>10 DEF Inserted, Grown, SoundTree, TreeT, N, M, b

(* A node that is finished gets its type and nothing else.                 *)
LEMMA TypeSound ==
  ASSUME NEW t, SoundTree(t), NEW p \in DOMAIN t.nodes, NEW type \in Kinds
  PROVE  Retyped(t, SetNodeType(t, p, type), p, type)
<1>. SUFFICES ASSUME NEW u, u = SetNodeType(t, p, type)
     PROVE  Retyped(t, u, p, type)
  OBVIOUS
<1>. DEFINE N == t.nodes
            M == u.nodes
<1>1. /\ t \in TreeT /\ Tied(N) /\ t.root \in 0 .. Len(N) /\ N \in Seq(NodeT)
      /\ \A n \in DOMAIN N : N[n] \in NodeT
  BY NodesOf
<1>2. M = [N EXCEPT ![p] = [@ EXCEPT !.nodeType = type, !.value = NO_VALUE]]
      /\ u = [t EXCEPT !.nodes = M]
  BY <1>1 DEF SetNodeType, TreeT
<1>3. p \in DOMAIN N
  OBVIOUS
<1>. HIDE DEF N, M
<1>4. DOMAIN N = 1 .. Len(N) /\ Len(N) \in Nat
  BY <1>1
<1>5. /\ M \in Seq(NodeT) /\ Len(M) = Len(N)
      /\ \A n \in DOMAIN N \ {p} : M[n] = N[n]
      /\ M[p] = [N[p] EXCEPT !.nodeType = type, !.value = NO_VALUE]
  <2>1. N[p] \in NodeT
    BY <1>1, <1>3
  <2>2. [N[p] EXCEPT !.nodeType = type, !.value = NO_VALUE] \in NodeT
    BY <2>1 DEF NodeT, Values
  <2>. QED
    BY <2>2, <1>1, <1>2, <1>3, <1>4
<1>6. \A n \in DOMAIN N :
              /\ M[n].parent = N[n].parent
              /\ M[n].leftChild = N[n].leftChild
              /\ M[n].rightChild = N[n].rightChild
              /\ M[n].nodeType = IF n = p THEN type ELSE N[n].nodeType
              /\ M[n].live = N[n].live
  <2>1. N[p] \in NodeT
    BY <1>1, <1>3
  <2>2. /\ M[p].parent = N[p].parent
        /\ M[p].leftChild = N[p].leftChild
        /\ M[p].rightChild = N[p].rightChild
        /\ M[p].nodeType = type
        /\ M[p].live = N[p].live
    BY <2>1, <1>5 DEF NodeT
  <2>. QED BY <2>2, <1>5
<1>7. Tied(M)
  BY <1>1, <1>4, <1>5, <1>6 DEF Tied
<1>8. u \in TreeT /\ u.root = t.root
  BY <1>1, <1>2, <1>5 DEF TreeT
<1>9. Len(M) = Len(N) + 0
  BY <1>4, <1>5
<1>. QED
  BY <1>1, <1>5, <1>6, <1>7, <1>8, <1>9 DEF Retyped, Grown, SoundTree, N, M

(* NodeCtor puts a new node above two free ones, or above none.            *)
LEMMA NodeCtorSound ==
  ASSUME NEW t, SoundTree(t),
         NEW left \in Free(t.nodes) \cup {Null}, NEW right \in Free(t.nodes) \cup {Null},
         left # Null => left # right,
         NEW type \in Kinds, NEW value \in Values, NEW str \in Strs
  PROVE  Constructed(t, NodeCtor(t, left, right, type, value, str), left, right)
<1>. SUFFICES ASSUME NEW u, u = NodeCtor(t, left, right, type, value, str)
     PROVE  Constructed(t, u, left, right)
  OBVIOUS
<1>. DEFINE N == t.nodes
            M == u.nodes
            b == NewNode(t)
            C == Calloc(t).nodes
            r == [Blank EXCEPT !.leftChild = left, !.rightChild = right, !.nodeType = type,
                               !.value = value, !.str = str]
            A == [C EXCEPT ![b] = r]
            B == [i \in DOMAIN A |-> IF i \in {left, right} \ {Null}
                                     THEN [A[i] EXCEPT !.parent = b] ELSE A[i]]
<1>1. /\ t \in TreeT /\ Tied(N) /\ t.root \in 0 .. Len(N) /\ N \in Seq(NodeT)
      /\ DOMAIN N = 1 .. Len(N) /\ Len(N) \in Nat /\ b = Len(N) + 1
      /\ \A n \in DOMAIN N : N[n] \in NodeT
  BY NodesOf DEF NewNode
<1>2. /\ SoundTree(Calloc(t)) /\ Calloc(t).root = t.root
      /\ Len(C) = Len(N) + 1 /\ C[b] = Blank
      /\ \A n \in DOMAIN N : C[n] = N[n]
  BY CallocSound DEF Allocated, Grown
<1>3. Calloc(t) \in TreeT /\ C \in Seq(NodeT) /\ DOMAIN C = 1 .. Len(C)
  BY <1>2, NodesOf
<1>4. left \in 0 .. Len(N) /\ right \in 0 .. Len(N)
  BY <1>1 DEF Free, Null
<1>5. /\ r \in NodeT /\ r.parent = Null /\ r.live /\ r.nodeType = type
      /\ r.leftChild = left /\ r.rightChild = right
  <2>1. left \in Nat /\ right \in Nat
    BY <1>1, <1>4
  <2>. QED BY <2>1, BlankT DEF Blank, NodeT
<1>6. u = [Calloc(t) EXCEPT !.nodes = B]
  <2>. DEFINE made == [Calloc(t) EXCEPT !.nodes[b] = r]
  <2>1. made = [Calloc(t) EXCEPT !.nodes = A] /\ made.nodes = A
    BY <1>3 DEF TreeT
  <2>2. u = [made EXCEPT !.nodes = [i \in DOMAIN @ |-> IF i \in {left, right} \ {Null}
                                     THEN [@[i] EXCEPT !.parent = b] ELSE @[i]]]
    BY DEF NodeCtor
  <2>. HIDE DEF r, b
  <2>3. u = [made EXCEPT !.nodes = B]
    BY <2>1, <2>2
  <2>. HIDE DEF A, B
  <2>. QED BY <2>1, <2>3
<1>. HIDE DEF r
<1>7. /\ A \in Seq(NodeT) /\ Len(A) = Len(N) + 1 /\ A[b] = r
      /\ \A n \in DOMAIN N : A[n] = N[n]
      /\ DOMAIN A = 1 .. Len(N) + 1
  <2>. HIDE DEF C, N, b
  <2>. QED BY <1>1, <1>2, <1>3, <1>5
<1>. HIDE DEF A
<1>8. /\ B \in Seq(NodeT) /\ Len(B) = Len(N) + 1 /\ DOMAIN B = 1 .. Len(N) + 1
      /\ B[b] = r
      /\ \A n \in DOMAIN N : B[n] = IF n \in {left, right} THEN [N[n] EXCEPT !.parent = b]
                                    ELSE N[n]
  <2>. HIDE DEF N, b
  <2>1. \A i \in 1 .. Len(N) + 1 : B[i] \in NodeT
    <3>. SUFFICES ASSUME NEW i \in 1 .. Len(N) + 1 PROVE B[i] \in NodeT
      OBVIOUS
    <3>1. A[i] \in NodeT
      BY <1>7
    <3>2. b \in Nat
      BY <1>1
    <3>3. [A[i] EXCEPT !.parent = b] \in NodeT
      BY <3>1, <3>2, ParentSet
    <3>. QED BY <3>1, <3>3, <1>7
  <2>2. B \in [1 .. Len(N) + 1 -> NodeT]
    BY <2>1, <1>7
  <2>3. B \in Seq(NodeT) /\ Len(B) = Len(N) + 1 /\ DOMAIN B = 1 .. Len(N) + 1
    BY <2>2, <1>1
  <2>. QED BY <2>3, <1>1, <1>4, <1>7 DEF Null
<1>. HIDE DEF B
<1>9. u \in TreeT /\ M = B /\ u.root = t.root
  <2>. HIDE DEF N
  <2>. QED BY <1>2, <1>3, <1>6, <1>8 DEF TreeT
<1>. HIDE DEF M, N, b
<1>10. \A n \in DOMAIN N :
              /\ M[n].parent = IF n \in {left, right} THEN b ELSE N[n].parent
              /\ M[n].leftChild = N[n].leftChild
              /\ M[n].rightChild = N[n].rightChild
              /\ M[n].nodeType = N[n].nodeType
              /\ M[n].live = N[n].live
  <2>. SUFFICES ASSUME NEW n \in DOMAIN N
       PROVE  /\ M[n].parent = IF n \in {left, right} THEN b ELSE N[n].parent
              /\ M[n].leftChild = N[n].leftChild
              /\ M[n].rightChild = N[n].rightChild
              /\ M[n].nodeType = N[n].nodeType
              /\ M[n].live = N[n].live
    OBVIOUS
  <2>1. N[n] \in NodeT /\ b \in Nat
    BY <1>1
  <2>2. M[n] = IF n \in {left, right} THEN [N[n] EXCEPT !.parent = b] ELSE N[n]
    BY <1>8, <1>9
  <2>. QED BY <2>1, <2>2, ParentSet
<1>11. Tied(M)
  <2>. SUFFICES ASSUME NEW n \in DOMAIN M
       PROVE /\ M[n].live
             /\ M[n].parent \in 0 .. Len(M)
             /\ M[n].leftChild # Null =>
                  /\ M[n].leftChild \in DOMAIN M
                  /\ M[M[n].leftChild].parent = n
                  /\ M[n].leftChild # M[n].rightChild
             /\ M[n].rightChild # Null =>
                  /\ M[n].rightChild \in DOMAIN M
                  /\ M[M[n].rightChild].parent = n
    BY DEF Tied
  <2>1. CASE n \in DOMAIN N
    <3>2. /\ N[n].live
          /\ N[n].parent \in 0 .. Len(N)
          /\ N[n].leftChild # Null =>
               /\ N[n].leftChild \in DOMAIN N
               /\ N[N[n].leftChild].parent = n
               /\ N[n].leftChild # N[n].rightChild
          /\ N[n].rightChild # Null =>
               /\ N[n].rightChild \in DOMAIN N
               /\ N[N[n].rightChild].parent = n
      BY <1>1, <2>1 DEF Tied
    <3>3. \A c \in {left, right} : c # Null => N[c].parent = Null
      BY DEF Free, N
    <3>4. n # Null /\ b \in 0 .. Len(M)
      BY <2>1, <1>1, <1>8, <1>9 DEF Null
    <3>. QED BY <3>2, <3>3, <3>4, <2>1, <1>1, <1>8, <1>9, <1>10
  <2>2. CASE n = b
    <3>1. M[n] = r
      BY <2>2, <1>8, <1>9
    <3>2. \A c \in {left, right} : c # Null => c \in DOMAIN N /\ M[c].parent = b
      BY <1>1, <1>4, <1>10 DEF Null
    <3>3. Null \in 0 .. Len(M)
      BY <1>1, <1>8, <1>9 DEF Null
    <3>. QED BY <3>1, <3>2, <3>3, <2>2, <1>1, <1>5, <1>8, <1>9
  <2>. QED BY <2>1, <2>2, <1>1, <1>8, <1>9
<1>. QED
  BY <1>1, <1>5, <1>8, <1>9, <1>10, <1>11 DEF Constructed, Grown, SoundTree, TreeT, N, M, b

(* GetId makes a node that hangs nowhere, of any token.                    *)
LEMMA VariableSound ==
  ASSUME NEW t, SoundTree(t), NEW token \in Cells
  PROVE  Constructed(t, Variable(t, token), Null, Null)
<1>. SUFFICES ASSUME NEW u, u = Variable(t, token)
     PROVE  Constructed(t, u, Null, Null)
  OBVIOUS
<1>1. "VARIABLE" \in Kinds /\ NO_VALUE \in Values /\ token.id \in Strs
  BY DEF Kinds, Values, Strs
<1>2. u = NodeCtor(t, Null, Null, "VARIABLE", NO_VALUE, token.id)
  BY DEF Variable
<1>3. \A n \in DOMAIN t.nodes : n # Null
  BY NodesOf DEF Null
<1>. QED
  BY <1>1, <1>2, <1>3, NodeCtorSound

(* u is t with the two nodes a statement begins with.                      *)
Begun(t, u, type) ==
  /\ Grown(t, u, 2)
  /\ \A n \in DOMAIN t.nodes : Kept(t.nodes[n], u.nodes[n])
  /\ u.nodes[NewNode(t)].parent = Null
  /\ u.nodes[NewNode(t)].rightChild = NewNode(t) + 1
  /\ u.nodes[NewNode(t) + 1].parent = NewNode(t)
  /\ u.nodes[NewNode(t) + 1].nodeType = type

(* Every statement begins with a free node and one of its type to the      *)
(* right of it.                                                            *)
LEMMA StatementSound ==
  ASSUME SoundTree(tree), NEW type \in Kinds
  PROVE  Begun(tree, Statement(type), type)
<1>. DEFINE b == NewNode(tree)
            c == Calloc(tree)
            u == TreeInsert(c, b, "rightChild", type, "")
<1>1. Allocated(tree, c)
  BY CallocSound
<1>2. DOMAIN tree.nodes = 1 .. Len(tree.nodes) /\ Len(tree.nodes) \in Nat
  BY NodesOf
<1>. HIDE DEF c
<1>3. SoundTree(c) /\ b \in DOMAIN c.nodes /\ NewNode(c) = b + 1
      /\ DOMAIN tree.nodes \subseteq DOMAIN c.nodes /\ b \notin DOMAIN tree.nodes
  <2>1. DOMAIN c.nodes = 1 .. Len(c.nodes)
    BY <1>1, NodesOf DEF Allocated, Grown
  <2>. QED BY <2>1, <1>1, <1>2 DEF Allocated, Grown, NewNode
<1>4. "" \in Strs /\ "rightChild" \in Sides
  BY DEF Strs, Sides
<1>5. Inserted(c, u, b, "rightChild", type)
  BY <1>3, <1>4, TreeInsertSound
<1>. HIDE DEF u
<1>6. Grown(tree, u, 2)
  BY <1>1, <1>2, <1>5 DEF Allocated, Inserted, Grown
<1>7. \A n \in DOMAIN tree.nodes : Kept(tree.nodes[n], u.nodes[n])
  BY <1>1, <1>3, <1>5 DEF Allocated, Inserted, Kept
<1>8. c.nodes[b].parent = Null
  <2>1. c.nodes[b] = Blank
    BY <1>1 DEF Allocated
  <2>2. Blank.parent = Null
    BY DEF Blank
  <2>. QED BY <2>1, <2>2
<1>9. /\ u.nodes[b].parent = Null /\ u.nodes[b].rightChild = b + 1
      /\ u.nodes[b + 1].parent = b /\ u.nodes[b + 1].nodeType = type
  BY <1>3, <1>5, <1>8 DEF Inserted
<1>. QED
  BY <1>6, <1>7, <1>9 DEF Begun, Statement, u, c

-----------------------------------------------------------------------------
(* The tasks of the agenda.                                                *)
Dos ==
  {"Get", "Loop", "Adopt", "AdoptAny", "Require", "Skip", "Check", "Link", "Finish", "Body",
   "Comma", "Then", "Else", "Do", "Value", "Operators", "Combine"}

(* What a task says of itself: a loop, a level of the grammar, a token, a  *)
(* type or a side.                                                         *)
Ops ==
  {"", "G", "Par", "A", "If", "Bool", "E", "T", "Pow", "P", "RB", "RSB", "RAB", "SEMICOLON",
   "STATEMENT", "PARAMETR", "leftChild", "rightChild"} \cup Kinds

(* A task of the agenda.                                                   *)
TaskT == [do : Dos, n : Nat, m : Nat, op : Ops]

(* What a task does with its nodes.                                        *)
Holders  == {"Loop", "Link", "Combine", "Finish", "Then", "Else", "Do", "Body", "Value"}

(* The tasks that finish n and change m on the way.                        *)
Branches == {"Then", "Else", "Do", "Body", "Value"}

(* The tasks that hang the returned node.                                  *)
Adopts   == {"Adopt", "AdoptAny"}

(* The tasks that ask for an error before they do anything:                *)
(* IS_PARSER_ERROR.                                                        *)
Blockers == {"Adopt", "AdoptAny", "Check", "Operators", "Combine", "Value"}

(* The node a task keeps in a local variable, to hang or finish it later.  *)
Held(x)    == IF x.do \in Holders THEN {x.n} \ {Null} ELSE {}

(* The node a task will hang something below, to its right or its left.    *)
Targets(x) == IF x.do \in Adopts THEN {x.n} ELSE IF x.do \in Branches THEN {x.m} ELSE {}

(* A task that finishes a statement.                                       *)
Closes(x)  == x.do = "Finish" /\ x.op = "STATEMENT"

(* The outer nodes of the statements under way.                            *)
Statements(x) == IF Closes(x) THEN {x.n} ELSE {}

(* The same of a whole agenda.                                             *)
HeldBy(a)       == UNION {Held(a[i]) : i \in DOMAIN a}

(* The outer nodes of all the statements an agenda finishes.               *)
StatementsOf(a) == UNION {Statements(a[i]) : i \in DOMAIN a}

(* Some task of the agenda will ask for an error.                          *)
Blocked(a)      == \E i \in DOMAIN a : a[i].do \in Blockers

(* What the next task is, and what the one after it.                       *)
NextDo(a) == IF a = <<>> THEN "end" ELSE a[1].do

(* Tasks that follow a call and do not look at the node it returned, and   *)
(* tasks that do.                                                          *)
Cold == {"Then", "Do", "Body", "Finish", "Else", "Skip"}
Warm == {"Link", "Check", "Operators", "Combine"}

(* What the next task says of itself.                                      *)
NextOp(a) == IF a = <<>> THEN "" ELSE a[1].op

(* What the task after the next one is.                                    *)
Second(a) == IF Len(a) < 2 THEN "end" ELSE a[2].do

(* A token is asked for, and one of the tasks comes after that.            *)
RequireThen(t, dos) == NextDo(t) = "Require" /\ Second(t) \in dos

(* What may follow a task: the calls and the statements behind them.       *)
Follows(x, t) ==
  /\ x.do \in {"Loop", "Link"} =>
       /\ x.op \in {"G", "Par", "A"}
       /\ x.op = "G"   => t = <<>>
       /\ x.op = "Par" => NextDo(t) = "AdoptAny"
       /\ x.op = "A"   => NextDo(t) \in Adopts
  /\ x.do \in {"Get", "Operators"} =>
       /\ x.op \in {"If", "Bool", "E", "T", "Pow", "P"}
       /\ x.op = "If" => NextDo(t) = "Check"
       /\ x.op = "Bool" => NextDo(t) \in {"Adopt", "Check", "Value"}
       /\ x.op \in {"E", "T", "Pow", "P"} => NextDo(t) \in {"Operators", "Combine"}
  /\ x.do = "Operators" => x.op \in Levels
  /\ x.do = "Combine" => NextDo(t) = "Operators" /\ x.op \in Kinds
  /\ x.do \in Adopts => NextDo(t) = "Finish" \/ RequireThen(t, Cold)
  /\ x.do = "Check" => \/ NextDo(t) \in Warm
                       \/ RequireThen(t, {"Operators", "Combine"}) /\ NextOp(t) = "RB"
  /\ x.do = "Finish" => /\ x.op \in Kinds
                        /\ \/ NextDo(t) \in {"Check", "Comma"}
                           \/ RequireThen(t, {"Link", "Check"}) /\ (Len(t) = 2 => Closes(x))
  /\ x.do = "Comma" => NextDo(t) = "Link" /\ NextOp(t) = "Par"
  /\ x.do = "Skip" => NextDo(t) = "Get"
  /\ x.do \in Branches => NextDo(t) = "Check"
  /\ x.do = "Require" => /\ NextDo(t) \in Cold \cup Warm
                         /\ Blocked(t) \/ (Len(t) = 1 /\ x.op = "SEMICOLON")

(* A task has its place before the tasks t: it may be followed by them,    *)
(* the node it keeps is kept by no other one, and it hangs nothing below   *)
(* the outer node of a statement under way.                                *)
Sound(x, t) ==
  /\ Follows(x, t)
  /\ Held(x) \cap HeldBy(t) = {}
  /\ Targets(x) \cap StatementsOf(t) = {}
  /\ x.do \in Adopts \cup Branches \cup {"Finish"} => x.n # Null
  /\ x.do \in Branches => x.m # Null /\ x.m # x.n
  /\ x.do \in Adopts => x.op \in Sides

(* What comes after the i-th task.                                         *)
Behind(a, i) == [j \in 1 .. Len(a) - i |-> a[i + j]]

(* An agenda every task of which has its place.                            *)
Agenda(a) ==
  /\ a \in Seq(TaskT)
  /\ \A i \in DOMAIN a : Sound(a[i], Behind(a, i))

(* An agenda and a tree that belong together: every node that is kept is   *)
(* free.                                                                   *)
Fits(a, nodes) ==
  /\ \A i \in DOMAIN a : a[i].n \in 0 .. Len(nodes) /\ a[i].m \in 0 .. Len(nodes)
  /\ HeldBy(a) \subseteq Free(nodes)

(* A statement that is an assignment, the only one that may stay when      *)
(* there was an error.                                                     *)
Global(n, nodes) ==
  /\ n \in DOMAIN nodes
  /\ nodes[n].rightChild \in DOMAIN nodes
  /\ nodes[nodes[n].rightChild].nodeType = "ASSIGN"

(* The statements that stand before the last two tasks: the global         *)
(* variables under way.                                                    *)
GlobalsOf(a) ==
  {a[i].n : i \in {i \in DOMAIN a : i + 2 = Len(a) /\ a[i].do = "Finish" /\ a[i+1].do = "Require"}}

(* The agenda t with the task x before it.                                 *)
Cons(x, t) == <<x>> \o t

(* What a sequence with one more task in front looks like.                 *)
LEMMA ConsIs ==
  ASSUME NEW t \in Seq(TaskT), NEW x \in TaskT
  PROVE  /\ Cons(x, t) \in Seq(TaskT) /\ Cons(x, t) # <<>>
         /\ Len(Cons(x, t)) = Len(t) + 1 /\ DOMAIN Cons(x, t) = 1 .. Len(t) + 1
         /\ Cons(x, t)[1] = x
         /\ \A i \in DOMAIN t : Cons(x, t)[i + 1] = t[i]
         /\ \A i \in 2 .. Len(t) + 1 : Cons(x, t)[i] = t[i - 1]
         /\ Head(Cons(x, t)) = x /\ Tail(Cons(x, t)) = t
<1>. DEFINE a == Cons(x, t)
<1>1. a \in Seq(TaskT) /\ Len(a) = Len(t) + 1 /\ a[1] = x
      /\ \A i \in DOMAIN t : a[i + 1] = t[i]
  BY DEF Cons
<1>2. DOMAIN a = 1 .. Len(t) + 1 /\ a # <<>> /\ DOMAIN t = 1 .. Len(t) /\ Len(t) \in Nat
  BY <1>1
<1>. HIDE DEF a
<1>3. \A i \in 2 .. Len(t) + 1 : a[i] = t[i - 1]
  <2>. TAKE i \in 2 .. Len(t) + 1
  <2>1. i - 1 \in DOMAIN t /\ (i - 1) + 1 = i
    BY <1>2
  <2>. QED BY <2>1, <1>1
<1>4. Head(a) = x
  BY <1>1, <1>2
<1>5. Tail(a) = t
  <2>1. Tail(a) \in Seq(TaskT) /\ Len(Tail(a)) = Len(t)
    BY <1>1, <1>2
  <2>2. \A i \in 1 .. Len(t) : Tail(a)[i] = t[i]
    BY <1>1, <1>2
  <2>. QED BY <2>1, <2>2, <1>2
<1>. QED BY <1>1, <1>2, <1>3, <1>4, <1>5 DEF a

(* What the views of an agenda say of it with one more task.               *)
LEMMA ConsViews ==
  ASSUME NEW t \in Seq(TaskT), NEW x \in TaskT
  PROVE  /\ NextDo(Cons(x, t)) = x.do
         /\ NextOp(Cons(x, t)) = x.op
         /\ Second(Cons(x, t)) = NextDo(t)
         /\ HeldBy(Cons(x, t)) = Held(x) \cup HeldBy(t)
         /\ StatementsOf(Cons(x, t)) = Statements(x) \cup StatementsOf(t)
         /\ Blocked(Cons(x, t)) <=> x.do \in Blockers \/ Blocked(t)
<1>. DEFINE a == Cons(x, t)
<1>1. /\ a \in Seq(TaskT) /\ a # <<>> /\ DOMAIN a = 1 .. Len(t) + 1
      /\ a[1] = x
      /\ \A i \in DOMAIN t : a[i + 1] = t[i]
      /\ \A i \in 2 .. Len(t) + 1 : a[i] = t[i - 1]
  BY ConsIs
<1>2. DOMAIN t = 1 .. Len(t) /\ Len(t) \in Nat
  OBVIOUS
<1>. HIDE DEF a
<1>3. /\ 1 \in DOMAIN a
      /\ \A i \in DOMAIN t : i + 1 \in DOMAIN a
      /\ \A i \in DOMAIN a : i = 1 \/ (i - 1 \in DOMAIN t /\ a[i] = t[i - 1])
  BY <1>1, <1>2
<1>4. NextDo(a) = x.do /\ NextOp(a) = x.op
  BY <1>1 DEF NextDo, NextOp
<1>9. Len(a) = Len(t) + 1
  BY ConsIs DEF a
<1>10. Second(a) = NextDo(t)
  <2>1. CASE t = <<>>
    <3>1. Len(a) < 2
      BY <2>1, <1>2, <1>9
    <3>. QED BY <2>1, <3>1 DEF Second, NextDo
  <2>2. CASE t # <<>>
    <3>1. ~(Len(a) < 2) /\ 1 \in DOMAIN t
      BY <2>2, <1>2, <1>9
    <3>2. a[2] = t[1]
      BY <3>1, <1>1
    <3>. QED BY <2>2, <3>1, <3>2 DEF Second, NextDo
  <2>. QED BY <2>1, <2>2
<1>5. HeldBy(a) = Held(x) \cup HeldBy(t)
  <2>1. HeldBy(a) \subseteq Held(x) \cup HeldBy(t)
    BY <1>1, <1>3 DEF HeldBy
  <2>2. Held(x) \subseteq HeldBy(a)
    BY <1>1, <1>3 DEF HeldBy
  <2>3. HeldBy(t) \subseteq HeldBy(a)
    BY <1>1, <1>3 DEF HeldBy
  <2>. QED BY <2>1, <2>2, <2>3
<1>6. StatementsOf(a) = Statements(x) \cup StatementsOf(t)
  <2>1. StatementsOf(a) \subseteq Statements(x) \cup StatementsOf(t)
    BY <1>1, <1>3 DEF StatementsOf
  <2>2. Statements(x) \subseteq StatementsOf(a)
    BY <1>1, <1>3 DEF StatementsOf
  <2>3. StatementsOf(t) \subseteq StatementsOf(a)
    BY <1>1, <1>3 DEF StatementsOf
  <2>. QED BY <2>1, <2>2, <2>3
<1>7. Blocked(a) <=> x.do \in Blockers \/ Blocked(t)
  BY <1>1, <1>3 DEF Blocked
<1>. QED BY <1>4, <1>5, <1>6, <1>7, <1>10 DEF a

(* A global variable is under way where a Finish goes before two tasks.    *)
LEMMA GlobalsCons ==
  ASSUME NEW t \in Seq(TaskT), NEW x \in TaskT
  PROVE  GlobalsOf(Cons(x, t)) =
           (IF x.do = "Finish" /\ Len(t) = 2 /\ NextDo(t) = "Require" THEN {x.n} ELSE {})
           \cup GlobalsOf(t)
<1>. DEFINE a == Cons(x, t)
            new == IF x.do = "Finish" /\ Len(t) = 2 /\ NextDo(t) = "Require" THEN {x.n} ELSE {}
<1>1. /\ a \in Seq(TaskT) /\ a # <<>> /\ DOMAIN a = 1 .. Len(t) + 1 /\ Len(a) = Len(t) + 1
      /\ a[1] = x
      /\ \A i \in DOMAIN t : a[i + 1] = t[i]
      /\ \A i \in 2 .. Len(t) + 1 : a[i] = t[i - 1]
  BY ConsIs
<1>2. DOMAIN t = 1 .. Len(t) /\ Len(t) \in Nat
  OBVIOUS
<1>. HIDE DEF a
<1>3. GlobalsOf(a) \subseteq new \cup GlobalsOf(t)
  <2>. SUFFICES ASSUME NEW i \in DOMAIN a, i + 2 = Len(a), a[i].do = "Finish",
                       a[i + 1].do = "Require"
       PROVE a[i].n \in new \cup GlobalsOf(t)
    BY DEF GlobalsOf
  <2>1. CASE i = 1
    <3>1. Len(t) = 2 /\ a[i + 1] = t[1] /\ t # <<>>
      BY <2>1, <1>1, <1>2
    <3>. QED BY <3>1, <2>1, <1>1 DEF NextDo
  <2>2. CASE i # 1
    <3>1. /\ i - 1 \in DOMAIN t /\ (i - 1) + 2 = Len(t) /\ a[i] = t[i - 1]
          /\ a[i + 1] = t[(i - 1) + 1]
      BY <2>2, <1>1, <1>2
    <3>. QED BY <3>1 DEF GlobalsOf
  <2>. QED BY <2>1, <2>2
<1>4. new \subseteq GlobalsOf(a)
  <2>. SUFFICES ASSUME x.do = "Finish", Len(t) = 2, NextDo(t) = "Require"
       PROVE x.n \in GlobalsOf(a)
    OBVIOUS
  <2>1. t # <<>> /\ a[1 + 1] = t[1] /\ 1 + 2 = Len(a) /\ 1 \in DOMAIN a
    <3>1. 1 \in DOMAIN t /\ t # <<>>
      BY <1>2
    <3>. QED BY <3>1, <1>1, <1>2
  <2>2. t[1].do = "Require"
    BY <2>1 DEF NextDo
  <2>. QED BY <2>1, <2>2, <1>1 DEF GlobalsOf
<1>5. GlobalsOf(t) \subseteq GlobalsOf(a)
  <2>. SUFFICES ASSUME NEW i \in DOMAIN t, i + 2 = Len(t), t[i].do = "Finish",
                       t[i + 1].do = "Require"
       PROVE t[i].n \in GlobalsOf(a)
    BY DEF GlobalsOf
  <2>1. i + 1 \in DOMAIN t /\ i + 1 \in DOMAIN a /\ (i + 1) + 2 = Len(a) /\ a[i + 1] = t[i]
        /\ a[(i + 1) + 1] = t[i + 1]
    BY <1>1, <1>2
  <2>. QED BY <2>1 DEF GlobalsOf
<1>. QED BY <1>3, <1>4, <1>5 DEF a

(* A task that has its place may go in front of an agenda.                 *)
LEMMA Put ==
  ASSUME NEW t, Agenda(t), NEW x \in TaskT, Sound(x, t)
  PROVE  Agenda(Cons(x, t))
<1>. DEFINE a == Cons(x, t)
<1>0. t \in Seq(TaskT)
  BY DEF Agenda
<1>1. /\ a \in Seq(TaskT) /\ a # <<>> /\ DOMAIN a = 1 .. Len(t) + 1 /\ Len(a) = Len(t) + 1
      /\ a[1] = x
      /\ \A i \in DOMAIN t : a[i + 1] = t[i]
      /\ \A i \in 2 .. Len(t) + 1 : a[i] = t[i - 1]
  BY <1>0, ConsIs
<1>2. DOMAIN t = 1 .. Len(t) /\ Len(t) \in Nat
  BY <1>0
<1>. HIDE DEF a
<1>3. \A i \in DOMAIN a : Sound(a[i], Behind(a, i))
  <2>. TAKE i \in DOMAIN a
  <2>1. CASE i = 1
    <3>1. Behind(a, 1) = [j \in 1 .. Len(t) |-> t[j]]
      BY <1>1, <1>2 DEF Behind
    <3>2. t = [j \in 1 .. Len(t) |-> t[j]]
      BY <1>0
    <3>. QED BY <2>1, <3>1, <3>2, <1>1
  <2>2. CASE i # 1
    <3>1. i - 1 \in DOMAIN t /\ a[i] = t[i - 1]
      BY <2>2, <1>1, <1>2
    <3>2. Behind(a, i) = Behind(t, i - 1)
      <4>1. Len(a) - i = Len(t) - (i - 1)
        BY <3>1, <1>1, <1>2
      <4>2. \A j \in 1 .. Len(a) - i : a[i + j] = t[(i - 1) + j]
        <5>. TAKE j \in 1 .. Len(a) - i
        <5>0. i \in 2 .. Len(t) + 1 /\ Len(a) = Len(t) + 1 /\ j \in 1 .. Len(a) - i
          BY <2>2, <1>1, <1>2
        <5>1. i + j \in 2 .. Len(t) + 1 /\ (i + j) - 1 = (i - 1) + j
          BY <5>0, <1>2
        <5>. QED BY <5>1, <1>1
      <4>. QED BY <4>1, <4>2 DEF Behind
    <3>. QED BY <3>1, <3>2 DEF Agenda
  <2>. QED BY <2>1, <2>2
<1>. QED BY <1>1, <1>3 DEF Agenda, a

(* The first task of an agenda has its place before the others, which are  *)
(* an agenda.                                                              *)
LEMMA Taken ==
  ASSUME NEW a, Agenda(a), a # <<>>
  PROVE  /\ Head(a) \in TaskT /\ Sound(Head(a), Tail(a)) /\ Agenda(Tail(a))
         /\ a = Cons(Head(a), Tail(a)) /\ Tail(a) \in Seq(TaskT)
<1>. DEFINE t == Tail(a)
<1>1. a \in Seq(TaskT) /\ Len(a) \in Nat \ {0} /\ DOMAIN a = 1 .. Len(a)
  BY DEF Agenda
<1>2. /\ t \in Seq(TaskT) /\ Len(t) = Len(a) - 1 /\ DOMAIN t = 1 .. Len(a) - 1
      /\ \A i \in 1 .. Len(a) - 1 : t[i] = a[i + 1]
      /\ Head(a) = a[1] /\ Head(a) \in TaskT
  BY <1>1
<1>3. a = Cons(Head(a), Tail(a))
  BY <1>1 DEF Cons
<1>. HIDE DEF t
<1>4. t = Behind(a, 1)
  <2>1. t = [j \in 1 .. Len(t) |-> t[j]]
    BY <1>2
  <2>. QED BY <2>1, <1>1, <1>2 DEF Behind
<1>5. Sound(Head(a), t)
  BY <1>1, <1>2, <1>4 DEF Agenda
<1>6. \A i \in DOMAIN t : Sound(t[i], Behind(t, i))
  <2>. TAKE i \in DOMAIN t
  <2>1. i + 1 \in DOMAIN a /\ t[i] = a[i + 1]
    BY <1>1, <1>2
  <2>2. Behind(t, i) = Behind(a, i + 1)
    <3>1. Len(t) - i = Len(a) - (i + 1)
      BY <1>1, <1>2
    <3>2. \A j \in 1 .. Len(t) - i : t[i + j] = a[(i + 1) + j]
      <4>. TAKE j \in 1 .. Len(t) - i
      <4>1. i + j \in 1 .. Len(a) - 1 /\ (i + j) + 1 = (i + 1) + j
        BY <1>1, <1>2
      <4>. QED BY <4>1, <1>2
    <3>. QED BY <3>1, <3>2 DEF Behind
  <2>. QED BY <2>1, <2>2 DEF Agenda
<1>. QED BY <1>2, <1>3, <1>5, <1>6 DEF Agenda, t

(* The agenda and the tree go together.                                    *)
Safe(t, a) == Fits(a, t.nodes) /\ \A n \in GlobalsOf(a) : Global(n, t.nodes)

(* An agenda that can go on with the tree t.                               *)
Ready(t, a) == Agenda(a) /\ Safe(t, a)

(* What is known of an agenda once a task was pushed onto rest.            *)
On(t, a, do, op, rest, held, shut) ==
  /\ Ready(t, a) /\ a \in Seq(TaskT) /\ a # <<>> /\ Tail(a) = rest
  /\ NextDo(a) = do /\ NextOp(a) = op /\ Second(a) = NextDo(rest) /\ Len(a) = Len(rest) + 1
  /\ HeldBy(a) = held \cup HeldBy(rest)
  /\ StatementsOf(a) = shut \cup StatementsOf(rest)
  /\ Blocked(a) <=> do \in Blockers \/ Blocked(rest)

(* A task that has its place, and whose nodes are free, may go in front.   *)
LEMMA Push ==
  ASSUME NEW t, NEW a, Ready(t, a), NEW x \in TaskT, Sound(x, a),
         x.n \in 0 .. Len(t.nodes), x.m \in 0 .. Len(t.nodes), Held(x) \subseteq Free(t.nodes),
         x.do = "Finish" /\ Len(a) = 2 /\ NextDo(a) = "Require" => Global(x.n, t.nodes)
  PROVE  On(t, Cons(x, a), x.do, x.op, a, Held(x), Statements(x))
<1>. DEFINE b == Cons(x, a)
<1>0. a \in Seq(TaskT) /\ Agenda(a) /\ Safe(t, a)
  BY DEF Ready, Agenda
<1>1. Agenda(b)
  BY <1>0, Put
<1>2. /\ b \in Seq(TaskT) /\ b # <<>> /\ DOMAIN b = 1 .. Len(a) + 1 /\ Len(b) = Len(a) + 1
      /\ b[1] = x /\ Head(b) = x /\ Tail(b) = a
      /\ \A i \in DOMAIN a : b[i + 1] = a[i]
      /\ \A i \in 2 .. Len(a) + 1 : b[i] = a[i - 1]
  BY <1>0, ConsIs
<1>3. /\ NextDo(b) = x.do /\ NextOp(b) = x.op /\ Second(b) = NextDo(a)
      /\ HeldBy(b) = Held(x) \cup HeldBy(a)
      /\ StatementsOf(b) = Statements(x) \cup StatementsOf(a)
      /\ Blocked(b) <=> x.do \in Blockers \/ Blocked(a)
  BY <1>0, ConsViews
<1>4. GlobalsOf(b) =
           (IF x.do = "Finish" /\ Len(a) = 2 /\ NextDo(a) = "Require" THEN {x.n} ELSE {})
           \cup GlobalsOf(a)
  BY <1>0, GlobalsCons
<1>. HIDE DEF b
<1>5. Fits(b, t.nodes)
  <2>1. \A i \in DOMAIN b : b[i].n \in 0 .. Len(t.nodes) /\ b[i].m \in 0 .. Len(t.nodes)
    <3>. TAKE i \in DOMAIN b
    <3>1. CASE i = 1
      BY <3>1, <1>2
    <3>2. CASE i # 1
      <4>1. i \in 2 .. Len(a) + 1 /\ i - 1 \in DOMAIN a
        BY <3>2, <1>0, <1>2
      <4>2. b[i] = a[i - 1]
        BY <4>1, <1>2
      <4>. QED BY <4>1, <4>2, <1>0 DEF Safe, Fits
    <3>. QED BY <3>1, <3>2
  <2>2. HeldBy(b) \subseteq Free(t.nodes)
    BY <1>0, <1>3 DEF Safe, Fits
  <2>. QED BY <2>1, <2>2 DEF Fits
<1>6. \A n \in GlobalsOf(b) : Global(n, t.nodes)
  BY <1>0, <1>4 DEF Safe
<1>. QED BY <1>1, <1>2, <1>3, <1>5, <1>6 DEF On, Ready, Safe, b

-----------------------------------------------------------------------------
(* A set of naturals that is not empty has a first element.                *)
LEMMA First ==
  ASSUME NEW S \in SUBSET Nat, S # {}
  PROVE  \E i \in S : \A j \in S : i <= j
<1>1. \E i \in S : \A j \in S : ~ (<<j, i>> \in OpToRel(<, Nat))
  BY WFMin, NatLessThanWellFounded
<1>2. \A i, j \in S : i <= j \/ <<j, i>> \in OpToRel(<, Nat)
  BY DEF OpToRel
<1>. QED BY <1>1, <1>2

(* What Subtree computes level by level exists: were there a first level   *)
(* without it, it could be made from the one above.                        *)
Further(t, met) == met \cup UNION {Children(t, n) : n \in met}

(* The nodes met down to every depth up to k: the function that Subtree    *)
(* defines.                                                                *)
Levelled(t, top, f, k) ==
  /\ f = [j \in 0 .. k |-> f[j]]
  /\ f[0] = {top} \ {Null}
  /\ \A j \in 1 .. k : f[j] = Further(t, f[j-1])

(* There is such a function for every depth, by the least depth that would *)
(* have none.                                                              *)
LEMMA LevelsExist ==
  ASSUME NEW t, NEW top, NEW k \in Nat
  PROVE  \E f : Levelled(t, top, f, k)
<1>. DEFINE S == {i \in Nat : ~ \E f : Levelled(t, top, f, i)}
<1>1. SUFFICES ASSUME S # {} PROVE FALSE
  OBVIOUS
<1>2. PICK i \in S : \A j \in S : i <= j
  <2>1. S \in SUBSET Nat
    OBVIOUS
  <2>. HIDE DEF S
  <2>. QED BY <1>1, <2>1, First
<1>3. CASE i = 0
  <2>. DEFINE f == [j \in 0 .. 0 |-> {top} \ {Null}]
  <2>1. Levelled(t, top, f, 0)
    BY DEF Levelled
  <2>. QED BY <2>1, <1>2, <1>3
<1>4. CASE i # 0
  <2>1. i \in Nat /\ i - 1 \in Nat /\ ~(i <= i - 1)
    BY <1>2, <1>4
  <2>2. PICK f : Levelled(t, top, f, i - 1)
    BY <1>2, <2>1
  <2>. DEFINE g == [j \in 0 .. i |-> IF j = i THEN Further(t, f[i-1]) ELSE f[j]]
  <2>3. Levelled(t, top, g, i)
    <3>1. g = [j \in 0 .. i |-> g[j]]
      OBVIOUS
    <3>2. g[0] = {top} \ {Null}
      BY <2>1, <2>2, <1>4 DEF Levelled
    <3>3. \A j \in 1 .. i : g[j] = Further(t, g[j-1])
      <4>. TAKE j \in 1 .. i
      <4>1. j - 1 \in 0 .. i - 1 /\ j \in 0 .. i /\ j - 1 # i /\ j - 1 \in 0 .. i
        BY <2>1
      <4>2. g[j-1] = f[j-1]
        BY <4>1
      <4>3. CASE j = i
        BY <4>1, <4>2, <4>3
      <4>4. CASE j # i
        <5>1. j \in 1 .. i - 1
          BY <4>1, <4>4, <2>1
        <5>2. f[j] = Further(t, f[j-1])
          BY <5>1, <2>2 DEF Levelled
        <5>. QED BY <5>2, <4>1, <4>2, <4>4
      <4>. QED BY <4>3, <4>4
    <3>. HIDE DEF g
    <3>. QED BY <3>1, <3>2, <3>3 DEF Levelled
  <2>. QED BY <2>3, <1>2
<1>. QED BY <1>3, <1>4

(* Subtree is the last of its levels.                                      *)
LEMMA SubtreeIs ==
  ASSUME NEW t, SoundTree(t), NEW top
  PROVE  \E f : Levelled(t, top, f, Len(t.nodes)) /\ Subtree(t, top) = f[Len(t.nodes)]
<1>. DEFINE L == Len(t.nodes)
            met == CHOOSE met : met = [k \in 0 .. L |->
                     IF k = 0 THEN {top} \ {Null}
                     ELSE LET above == met[k-1]
                          IN  above \cup UNION {Children(t, n) : n \in above}]
<1>1. L \in Nat
  BY NodesOf
<1>. HIDE DEF L
<1>2. PICK f : Levelled(t, top, f, L)
  BY <1>1, LevelsExist
<1>3. met = [k \in 0 .. L |-> IF k = 0 THEN {top} \ {Null}
                     ELSE LET above == met[k-1]
                          IN  above \cup UNION {Children(t, n) : n \in above}]
  <2>1. f = [k \in 0 .. L |-> IF k = 0 THEN {top} \ {Null} ELSE Further(t, f[k-1])]
    <3>1. \A k \in 0 .. L : f[k] = IF k = 0 THEN {top} \ {Null} ELSE Further(t, f[k-1])
      BY <1>1, <1>2 DEF Levelled
    <3>2. f = [k \in 0 .. L |-> f[k]]
      BY <1>2 DEF Levelled
    <3>. QED BY <3>1, <3>2
  <2>. QED BY <2>1 DEF Further
<1>. HIDE DEF met
<1>4. Levelled(t, top, met, L)
  <2>1. met = [k \in 0 .. L |-> met[k]]
    <3>1. \E h : met = [k \in 0 .. L |-> h[k]]
      <4>. DEFINE h == [k \in 0 .. L |-> IF k = 0 THEN {top} \ {Null}
                                        ELSE LET above == met[k-1]
                                             IN  above \cup UNION {Children(t, n) : n \in above}]
      <4>1. met = h /\ h = [k \in 0 .. L |-> h[k]]
        BY <1>3
      <4>. HIDE DEF h
      <4>. QED BY <4>1
    <3>. QED BY <3>1
  <2>2. met[0] = {top} \ {Null}
    BY <1>1, <1>3
  <2>3. \A j \in 1 .. L : met[j] = Further(t, met[j-1])
    BY <1>1, <1>3 DEF Further
  <2>. QED BY <2>1, <2>2, <2>3 DEF Levelled
<1>5. Subtree(t, top) = met[L]
  BY DEF Subtree, met, L
<1>. QED BY <1>4, <1>5 DEF L

(* The walk down never leaves the nodes: the least depth at which it would *)
(* has a child outside above it.                                           *)
LEMMA SubtreeIn ==
  ASSUME NEW t, SoundTree(t), NEW top \in DOMAIN t.nodes
  PROVE  Subtree(t, top) \subseteq DOMAIN t.nodes
<1>. DEFINE L == Len(t.nodes)
<1>0. L \in Nat
  BY NodesOf
<1>1. PICK f : Levelled(t, top, f, L) /\ Subtree(t, top) = f[L]
  BY SubtreeIs
<1>. DEFINE S == {k \in 0 .. L : ~(f[k] \subseteq DOMAIN t.nodes)}
<1>2. SUFFICES ASSUME S # {} PROVE FALSE
  BY <1>0, <1>1
<1>3. PICK k \in S : \A j \in S : k <= j
  <2>1. S \in SUBSET Nat
    BY <1>0
  <2>. HIDE DEF S
  <2>. QED BY <1>2, <2>1, First
<1>4. k # 0
  BY <1>1, <1>3 DEF Levelled
<1>5. k - 1 \in 0 .. L /\ ~(k <= k - 1) /\ k \in 1 .. L
  BY <1>0, <1>3, <1>4
<1>6. f[k-1] \subseteq DOMAIN t.nodes
  BY <1>3, <1>5
<1>7. \A n \in DOMAIN t.nodes : Children(t, n) \subseteq DOMAIN t.nodes
  BY NodesOf DEF Tied, Children
<1>8. f[k] = Further(t, f[k-1])
  BY <1>1, <1>5 DEF Levelled
<1>9. f[k] \subseteq DOMAIN t.nodes
  BY <1>6, <1>7, <1>8 DEF Further
<1>. QED BY <1>3, <1>9

(* A sound tree is sound from every node down, which is what the generator *)
(* and SubtreeDtor need.                                                   *)
LEMMA LinksAgreeBelow ==
  ASSUME NEW t, SoundTree(t), NEW top \in DOMAIN t.nodes
  PROVE  LinksAgree(t, top)
<1>. DEFINE below == Subtree(t, top)
<1>1. below \subseteq DOMAIN t.nodes
  BY SubtreeIn
<1>. HIDE DEF below
<1>2. Tied(t.nodes)
  BY NodesOf
<1>3. \A n \in below : t.nodes[n].live
  BY <1>1, <1>2 DEF Tied
<1>4. \A n \in below : \A c \in Children(t, n) : t.nodes[c].parent = n
  BY <1>1, <1>2 DEF Tied, Children
<1>5. \A n \in below : Children(t, n) # {} => t.nodes[n].leftChild # t.nodes[n].rightChild
  BY <1>1, <1>2 DEF Tied, Children
<1>. QED BY <1>3, <1>4, <1>5 DEF LinksAgree, below

-----------------------------------------------------------------------------
(* What the lemmas that follow ask of a task.                              *)
Pushable(t, a, x) ==
  /\ x \in TaskT /\ Sound(x, a)
  /\ x.n \in 0 .. Len(t.nodes) /\ x.m \in 0 .. Len(t.nodes) /\ Held(x) \subseteq Free(t.nodes)
  /\ x.do = "Finish" /\ Len(a) = 2 /\ NextDo(a) = "Require" => Global(x.n, t.nodes)

(* A task that is pushable was pushed.                                     *)
LEMMA Pushed ==
  ASSUME NEW t, NEW a, Ready(t, a), NEW x, Pushable(t, a, x)
  PROVE  On(t, Cons(x, a), x.do, x.op, a, Held(x), Statements(x))
<1>1. /\ x \in TaskT /\ Sound(x, a)
      /\ x.n \in 0 .. Len(t.nodes) /\ x.m \in 0 .. Len(t.nodes) /\ Held(x) \subseteq Free(t.nodes)
      /\ x.do = "Finish" /\ Len(a) = 2 /\ NextDo(a) = "Require" => Global(x.n, t.nodes)
  BY DEF Pushable
<1>. QED BY <1>1, Push

(* A call may go in front of the statement that takes its node.            *)
LEMMA PushGet ==
  ASSUME NEW t, NEW a, Ready(t, a), NEW what \in {"If", "Bool", "E", "T", "Pow", "P"},
         what = "If" => NextDo(a) = "Check",
         what = "Bool" => NextDo(a) \in {"Adopt", "Check", "Value"},
         what \in {"E", "T", "Pow", "P"} => NextDo(a) \in {"Operators", "Combine"},
         Len(t.nodes) \in Nat
  PROVE  On(t, Cons(Get(what), a), "Get", what, a, {}, {})
<1>. DEFINE x == Get(what)
<1>1. x \in TaskT /\ x.do = "Get" /\ x.op = what /\ x.n = 0 /\ x.m = 0
  BY DEF Task, TaskT, Dos, Ops, Kinds, Null, Get
<1>. HIDE DEF x
<1>2. Held(x) = {} /\ Targets(x) = {} /\ Statements(x) = {}
  BY <1>1 DEF Held, Targets, Statements, Closes, Holders, Adopts, Branches
<1>3. Sound(x, a)
  BY <1>1, <1>2 DEF Sound, Follows, Adopts, Branches
<1>4. Pushable(t, a, x)
  BY <1>1, <1>2, <1>3 DEF Pushable, Null
<1>9. On(t, Cons(x, a), x.do, x.op, a, Held(x), Statements(x))
  BY <1>4, Pushed
<1>. QED BY <1>1, <1>2, <1>9 DEF x

(* A loop and the statement at its end go in front of the one that takes   *)
(* its list, with the list so far kept or none.                            *)
LEMMA PushLoop ==
  ASSUME NEW t, NEW a, Ready(t, a), NEW do \in {"Loop", "Link"}, NEW what \in {"G", "Par", "A"},
         what = "G"   => a = <<>>,
         what = "Par" => NextDo(a) = "AdoptAny",
         what = "A"   => NextDo(a) \in Adopts,
         NEW n \in Nat, n = Null \/ n \in Free(t.nodes) \ HeldBy(a),
         SoundTree(t)
  PROVE  On(t, Cons(Task(do, n, Null, what), a), do, what, a, {n} \ {Null}, {})
<1>. DEFINE x == Task(do, n, Null, what)
<1>0. Len(t.nodes) \in Nat /\ DOMAIN t.nodes = 1 .. Len(t.nodes)
  BY NodesOf
<1>1. x \in TaskT /\ x.do = do /\ x.op = what /\ x.n = n /\ x.m = 0
  BY DEF Task, TaskT, Dos, Ops, Kinds, Null
<1>. HIDE DEF x
<1>2. Held(x) = {n} \ {Null} /\ Targets(x) = {} /\ Statements(x) = {}
  BY <1>1 DEF Held, Targets, Statements, Closes, Holders, Adopts, Branches
<1>3. Sound(x, a)
  BY <1>1, <1>2 DEF Sound, Follows, Adopts, Branches
<1>4. n \in 0 .. Len(t.nodes)
  BY <1>0 DEF Free, Null
<1>5. Pushable(t, a, x)
  BY <1>0, <1>1, <1>2, <1>3, <1>4 DEF Pushable, Null
<1>9. On(t, Cons(x, a), x.do, x.op, a, Held(x), Statements(x))
  BY <1>5, Pushed
<1>. QED BY <1>1, <1>2, <1>9 DEF x

(* A node may be hung below any one that is not the outer node of a        *)
(* statement under way.                                                    *)
LEMMA PushAdopt ==
  ASSUME NEW t, NEW a, Ready(t, a), NEW do \in Adopts, NEW side \in Sides,
         NEW n \in DOMAIN t.nodes, n \notin StatementsOf(a),
         NextDo(a) = "Finish" \/ RequireThen(a, Cold),
         SoundTree(t)
  PROVE  On(t, Cons(Task(do, n, Null, side), a), do, side, a, {}, {})
<1>. DEFINE x == Task(do, n, Null, side)
<1>0. Len(t.nodes) \in Nat /\ DOMAIN t.nodes = 1 .. Len(t.nodes)
  BY NodesOf
<1>7. n # 0 /\ n \in Nat
  BY <1>0
<1>1. x \in TaskT /\ x.do = do /\ x.op = side /\ x.n = n /\ x.m = 0 /\ n # Null
  BY <1>7 DEF Task, TaskT, Dos, Ops, Kinds, Null, Adopts, Sides
<1>. HIDE DEF x
<1>2. Held(x) = {} /\ Targets(x) = {n} /\ Statements(x) = {}
  BY <1>1 DEF Held, Targets, Statements, Closes, Holders, Adopts, Branches
<1>3. Sound(x, a)
  BY <1>1, <1>2 DEF Sound, Follows, Adopts, Branches
<1>4. Pushable(t, a, x)
  BY <1>0, <1>1, <1>2, <1>3 DEF Pushable, Null, Adopts
<1>9. On(t, Cons(x, a), x.do, x.op, a, Held(x), Statements(x))
  BY <1>4, Pushed
<1>. QED BY <1>1, <1>2, <1>9 DEF x

(* A token may be asked for where someone asks for an error afterwards, or *)
(* as the last thing of a global variable.                                 *)
LEMMA PushRequire ==
  ASSUME NEW t, NEW a, Ready(t, a), NEW kw \in {"RB", "RSB", "RAB", "SEMICOLON"},
         NextDo(a) \in Cold \cup Warm,
         Blocked(a) \/ (Len(a) = 1 /\ kw = "SEMICOLON"),
         Len(t.nodes) \in Nat
  PROVE  On(t, Cons(Require(kw), a), "Require", kw, a, {}, {})
<1>. DEFINE x == Require(kw)
<1>1. x \in TaskT /\ x.do = "Require" /\ x.op = kw /\ x.n = 0 /\ x.m = 0
  BY DEF Task, TaskT, Dos, Ops, Kinds, Null, Require
<1>. HIDE DEF x
<1>2. Held(x) = {} /\ Targets(x) = {} /\ Statements(x) = {}
  BY <1>1 DEF Held, Targets, Statements, Closes, Holders, Adopts, Branches
<1>3. Sound(x, a)
  BY <1>1, <1>2 DEF Sound, Follows, Adopts, Branches
<1>4. Pushable(t, a, x)
  BY <1>1, <1>2, <1>3 DEF Pushable, Null
<1>9. On(t, Cons(x, a), x.do, x.op, a, Held(x), Statements(x))
  BY <1>4, Pushed
<1>. QED BY <1>1, <1>2, <1>9 DEF x

(* IS_PARSER_ERROR after a call whose node is looked at.                   *)
LEMMA PushCheck ==
  ASSUME NEW t, NEW a, Ready(t, a),
         NextDo(a) \in Warm \/ (RequireThen(a, {"Operators", "Combine"}) /\ NextOp(a) = "RB"),
         Len(t.nodes) \in Nat
  PROVE  On(t, Cons(Check, a), "Check", "", a, {}, {})
<1>. DEFINE x == Check
<1>1. x \in TaskT /\ x.do = "Check" /\ x.n = 0 /\ x.m = 0
  BY DEF Task, TaskT, Dos, Ops, Kinds, Null, Check
<1>8. x.op = ""
  BY DEF Task, Skip, Check
<1>. HIDE DEF x
<1>2. Held(x) = {} /\ Targets(x) = {} /\ Statements(x) = {}
  BY <1>1 DEF Held, Targets, Statements, Closes, Holders, Adopts, Branches
<1>3. Sound(x, a)
  BY <1>1, <1>2 DEF Sound, Follows, Adopts, Branches
<1>4. Pushable(t, a, x)
  BY <1>1, <1>2, <1>3 DEF Pushable, Null
<1>9. On(t, Cons(x, a), x.do, x.op, a, Held(x), Statements(x))
  BY <1>4, Pushed
<1>. QED BY <1>1, <1>2, <1>8, <1>9 DEF x

(* A token may be stepped over before a call.                              *)
LEMMA PushSkip ==
  ASSUME NEW t, NEW a, Ready(t, a), NextDo(a) = "Get", Len(t.nodes) \in Nat
  PROVE  On(t, Cons(Skip, a), "Skip", "", a, {}, {})
<1>. DEFINE x == Skip
<1>1. x \in TaskT /\ x.do = "Skip" /\ x.n = 0 /\ x.m = 0
  BY DEF Task, TaskT, Dos, Ops, Kinds, Null, Skip
<1>8. x.op = ""
  BY DEF Task, Skip, Check
<1>. HIDE DEF x
<1>2. Held(x) = {} /\ Targets(x) = {} /\ Statements(x) = {}
  BY <1>1 DEF Held, Targets, Statements, Closes, Holders, Adopts, Branches
<1>3. Sound(x, a)
  BY <1>1, <1>2 DEF Sound, Follows, Adopts, Branches
<1>4. Pushable(t, a, x)
  BY <1>1, <1>2, <1>3 DEF Pushable, Null
<1>9. On(t, Cons(x, a), x.do, x.op, a, Held(x), Statements(x))
  BY <1>4, Pushed
<1>. QED BY <1>1, <1>2, <1>8, <1>9 DEF x

(* A comma may be stepped over after a parameter.                          *)
LEMMA PushComma ==
  ASSUME NEW t, NEW a, Ready(t, a), NextDo(a) = "Link", NextOp(a) = "Par", Len(t.nodes) \in Nat
  PROVE  On(t, Cons(Task("Comma", Null, Null, ""), a), "Comma", "", a, {}, {})
<1>. DEFINE x == Task("Comma", Null, Null, "")
<1>1. x \in TaskT /\ x.do = "Comma" /\ x.n = 0 /\ x.m = 0
  BY DEF Task, TaskT, Dos, Ops, Kinds, Null
<1>8. x.op = ""
  BY DEF Task, Skip, Check
<1>. HIDE DEF x
<1>2. Held(x) = {} /\ Targets(x) = {} /\ Statements(x) = {}
  BY <1>1 DEF Held, Targets, Statements, Closes, Holders, Adopts, Branches
<1>3. Sound(x, a)
  BY <1>1, <1>2 DEF Sound, Follows, Adopts, Branches
<1>4. Pushable(t, a, x)
  BY <1>1, <1>2, <1>3 DEF Pushable, Null
<1>9. On(t, Cons(x, a), x.do, x.op, a, Held(x), Statements(x))
  BY <1>4, Pushed
<1>. QED BY <1>1, <1>2, <1>8, <1>9 DEF x

(* A free node may be finished, a global variable only when it is an       *)
(* assignment.                                                             *)
LEMMA PushFinish ==
  ASSUME NEW t, NEW a, Ready(t, a), NEW n \in Free(t.nodes) \ HeldBy(a),
         NEW type \in {"STATEMENT", "PARAMETR"},
         \/ NextDo(a) \in {"Check", "Comma"}
         \/ RequireThen(a, {"Link", "Check"}) /\ type = "STATEMENT",
         Len(a) = 2 /\ NextDo(a) = "Require" => Global(n, t.nodes),
         SoundTree(t)
  PROVE  On(t, Cons(Finish(n, type), a), "Finish", type, a, {n},
            IF type = "STATEMENT" THEN {n} ELSE {})
<1>. DEFINE x == Finish(n, type)
<1>0. Len(t.nodes) \in Nat /\ DOMAIN t.nodes = 1 .. Len(t.nodes) /\ n \in DOMAIN t.nodes
  BY NodesOf DEF Free
<1>7. n # 0 /\ n \in Nat
  BY <1>0
<1>1. x \in TaskT /\ x.do = "Finish" /\ x.op = type /\ x.n = n /\ x.m = 0 /\ n # Null /\ n \in Nat
  BY <1>7 DEF Task, TaskT, Dos, Ops, Kinds, Null, Finish
<1>. HIDE DEF x
<1>2. Held(x) = {n} /\ Targets(x) = {} /\ Statements(x) = IF type = "STATEMENT" THEN {n} ELSE {}
  BY <1>1 DEF Held, Targets, Statements, Closes, Holders, Adopts, Branches
<1>3. Sound(x, a)
  <2>1. Follows(x, a)
    BY <1>1 DEF Follows, Adopts, Branches, Closes, Kinds
  <2>. QED BY <1>1, <1>2, <2>1 DEF Sound, Adopts, Branches
<1>4. Pushable(t, a, x)
  BY <1>0, <1>1, <1>2, <1>3 DEF Pushable, Null
<1>9. On(t, Cons(x, a), x.do, x.op, a, Held(x), Statements(x))
  BY <1>4, Pushed
<1>. QED BY <1>1, <1>2, <1>9 DEF x

(* The branch of a statement goes before the question for an error.        *)
LEMMA PushBranch ==
  ASSUME NEW t, NEW a, Ready(t, a), NEW do \in Branches, NEW n \in Free(t.nodes) \ HeldBy(a),
         NEW m \in DOMAIN t.nodes, m \notin StatementsOf(a), m # n,
         NextDo(a) = "Check", SoundTree(t)
  PROVE  On(t, Cons(Task(do, n, m, ""), a), do, "", a, {n}, {})
<1>. DEFINE x == Task(do, n, m, "")
<1>0. Len(t.nodes) \in Nat /\ DOMAIN t.nodes = 1 .. Len(t.nodes) /\ n \in DOMAIN t.nodes
  BY NodesOf DEF Free
<1>8. x.op = ""
  BY DEF Task
<1>7. n # 0 /\ n \in Nat /\ m # 0 /\ m \in Nat
  BY <1>0
<1>1. /\ x \in TaskT /\ x.do = do /\ x.n = n /\ x.m = m
      /\ n # Null /\ n \in Nat /\ m # Null
  BY <1>7 DEF Task, TaskT, Dos, Ops, Kinds, Null, Branches
<1>. HIDE DEF x
<1>2. Held(x) = {n} /\ Targets(x) = {m} /\ Statements(x) = {}
  BY <1>1 DEF Held, Targets, Statements, Closes, Holders, Adopts, Branches
<1>3. Sound(x, a)
  BY <1>1, <1>2, <1>8 DEF Sound, Follows, Adopts, Branches
<1>4. Pushable(t, a, x)
  BY <1>0, <1>1, <1>2, <1>3 DEF Pushable, Null, Branches
<1>9. On(t, Cons(x, a), x.do, x.op, a, Held(x), Statements(x))
  BY <1>4, Pushed
<1>. QED BY <1>1, <1>2, <1>8, <1>9 DEF x

(* The loop over the operators of a level waits for the operands.          *)
LEMMA PushOperators ==
  ASSUME NEW t, NEW a, Ready(t, a), NEW level \in Levels,
         level = "Bool" => NextDo(a) \in {"Adopt", "Check", "Value"},
         level # "Bool" => NextDo(a) \in {"Operators", "Combine"},
         Len(t.nodes) \in Nat
  PROVE  On(t, Cons(Task("Operators", Null, Null, level), a), "Operators", level, a, {}, {})
<1>. DEFINE x == Task("Operators", Null, Null, level)
<1>1. x \in TaskT /\ x.do = "Operators" /\ x.op = level /\ x.n = 0 /\ x.m = 0
  BY DEF Task, TaskT, Dos, Ops, Kinds, Null, Levels
<1>. HIDE DEF x
<1>2. Held(x) = {} /\ Targets(x) = {} /\ Statements(x) = {}
  BY <1>1 DEF Held, Targets, Statements, Closes, Holders, Adopts, Branches
<1>3. Sound(x, a)
  BY <1>1, <1>2 DEF Sound, Follows, Adopts, Branches, Levels
<1>4. Pushable(t, a, x)
  BY <1>1, <1>2, <1>3 DEF Pushable, Null
<1>9. On(t, Cons(x, a), x.do, x.op, a, Held(x), Statements(x))
  BY <1>4, Pushed
<1>. QED BY <1>1, <1>2, <1>9 DEF x

(* An operator waits for its right operand, the left one kept.             *)
LEMMA PushCombine ==
  ASSUME NEW t, NEW a, Ready(t, a), NextDo(a) = "Operators", NEW op \in Kinds,
         NEW n \in Nat, n = Null \/ n \in Free(t.nodes) \ HeldBy(a), SoundTree(t)
  PROVE  On(t, Cons(Task("Combine", n, Null, op), a), "Combine", op, a, {n} \ {Null}, {})
<1>. DEFINE x == Task("Combine", n, Null, op)
<1>0. Len(t.nodes) \in Nat /\ DOMAIN t.nodes = 1 .. Len(t.nodes)
  BY NodesOf
<1>1. x \in TaskT /\ x.do = "Combine" /\ x.op = op /\ x.n = n /\ x.m = 0
  BY DEF Task, TaskT, Dos, Ops, Kinds, Null
<1>. HIDE DEF x
<1>2. Held(x) = {n} \ {Null} /\ Targets(x) = {} /\ Statements(x) = {}
  BY <1>1 DEF Held, Targets, Statements, Closes, Holders, Adopts, Branches
<1>3. Sound(x, a)
  BY <1>1, <1>2 DEF Sound, Follows, Adopts, Branches
<1>4. n \in 0 .. Len(t.nodes)
  BY <1>0 DEF Free, Null
<1>5. Pushable(t, a, x)
  BY <1>0, <1>1, <1>2, <1>3, <1>4 DEF Pushable, Null
<1>9. On(t, Cons(x, a), x.do, x.op, a, Held(x), Statements(x))
  BY <1>5, Pushed
<1>. QED BY <1>1, <1>2, <1>9 DEF x

-----------------------------------------------------------------------------
(* Tasks go in front one after the other: one task.                        *)
LEMMA GoOne ==
  ASSUME NEW t \in Seq(TaskT), NEW a \in TaskT
  PROVE  <<a>> \o t = Cons(a, t)
BY DEF Cons

(* Two tasks.                                                              *)
LEMMA GoTwo ==
  ASSUME NEW t \in Seq(TaskT), NEW a \in TaskT, NEW b \in TaskT
  PROVE  <<a, b>> \o t = Cons(a, Cons(b, t))
<1>. DEFINE s == <<a>> \o <<b>>
<1>1. <<a, b>> \in Seq(TaskT) /\ Len(<<a, b>>) = 2 /\ <<a, b>>[1] = a /\ <<a, b>>[2] = b
  OBVIOUS
<1>2. s \in Seq(TaskT) /\ Len(s) = 2 /\ s[1] = a /\ s[2] = b
  OBVIOUS
<1>3. <<a, b>> = s
  <2>. HIDE DEF s
  <2>1. \A i \in 1 .. 2 : i = 1 \/ i = 2
    OBVIOUS
  <2>. QED BY <1>1, <1>2, <2>1, SeqEqual
<1>4. (<<a>> \o <<b>>) \o t = <<a>> \o (<<b>> \o t)
  BY ConcatAssociative
<1>. QED BY <1>3, <1>4 DEF Cons

(* Three tasks.                                                            *)
LEMMA GoThree ==
  ASSUME NEW t \in Seq(TaskT), NEW a \in TaskT, NEW b \in TaskT, NEW c \in TaskT
  PROVE  <<a, b, c>> \o t = Cons(a, Cons(b, Cons(c, t)))
<1>1. <<a, b, c>> = <<a>> \o <<b, c>>
  OBVIOUS
<1>2. (<<a>> \o <<b, c>>) \o t = <<a>> \o (<<b, c>> \o t)
  BY ConcatAssociative
<1>3. <<b, c>> \o t = Cons(b, Cons(c, t))
  BY GoTwo
<1>. QED BY <1>1, <1>2, <1>3 DEF Cons

(* Four tasks.                                                             *)
LEMMA GoFour ==
  ASSUME NEW t \in Seq(TaskT), NEW a \in TaskT, NEW b \in TaskT, NEW c \in TaskT, NEW d \in TaskT
  PROVE  <<a, b, c, d>> \o t = Cons(a, Cons(b, Cons(c, Cons(d, t))))
<1>1. <<a, b, c, d>> = <<a>> \o <<b, c, d>>
  OBVIOUS
<1>2. (<<a>> \o <<b, c, d>>) \o t = <<a>> \o (<<b, c, d>> \o t)
  BY ConcatAssociative
<1>3. <<b, c, d>> \o t = Cons(b, Cons(c, Cons(d, t)))
  BY GoThree
<1>. QED BY <1>1, <1>2, <1>3 DEF Cons

(* The longer ones are stated of the sequence the tasks make: the provers  *)
(* find them by it.                                                        *)
LEMMA GoFive ==
  ASSUME NEW t \in Seq(TaskT), NEW a, NEW b, NEW c, NEW d, NEW e,
         <<a, b, c, d, e>> \in Seq(TaskT)
  PROVE  <<a, b, c, d, e>> \o t = Cons(a, Cons(b, Cons(c, Cons(d, Cons(e, t)))))
<1>. DEFINE s == <<a, b, c, d, e>>
<1>1. /\ \A i \in 1 .. 5 : s[i] \in TaskT
      /\ s[1] = a /\ s[2] = b /\ s[3] = c /\ s[4] = d /\ s[5] = e
  OBVIOUS
<1>2. a \in TaskT /\ b \in TaskT /\ c \in TaskT /\ d \in TaskT /\ e \in TaskT
  BY <1>1
<1>3. <<a, b, c, d, e>> = <<a>> \o <<b, c, d, e>>
  OBVIOUS
<1>4. (<<a>> \o <<b, c, d, e>>) \o t = <<a>> \o (<<b, c, d, e>> \o t)
  BY <1>2, ConcatAssociative
<1>5. <<b, c, d, e>> \o t = Cons(b, Cons(c, Cons(d, Cons(e, t))))
  BY <1>2, GoFour
<1>. QED BY <1>3, <1>4, <1>5 DEF Cons

(* Six tasks.                                                              *)
LEMMA GoSix ==
  ASSUME NEW t \in Seq(TaskT), NEW a, NEW b, NEW c, NEW d, NEW e, NEW f,
         <<a, b, c, d, e, f>> \in Seq(TaskT)
  PROVE  <<a, b, c, d, e, f>> \o t = Cons(a, Cons(b, Cons(c, Cons(d, Cons(e, Cons(f, t))))))
<1>. DEFINE s == <<a, b, c, d, e, f>>
<1>1. /\ \A i \in 1 .. 6 : s[i] \in TaskT
      /\ s[1] = a /\ s[2] = b /\ s[3] = c /\ s[4] = d /\ s[5] = e /\ s[6] = f
  OBVIOUS
<1>2. a \in TaskT /\ b \in TaskT /\ c \in TaskT /\ d \in TaskT /\ e \in TaskT /\ f \in TaskT
  BY <1>1
<1>3. <<a, b, c, d, e, f>> = <<a, b, c>> \o <<d, e, f>>
  OBVIOUS
<1>4. (<<a, b, c>> \o <<d, e, f>>) \o t = <<a, b, c>> \o (<<d, e, f>> \o t)
  BY <1>2, ConcatAssociative
<1>. DEFINE u == <<d, e, f>> \o t
<1>5. u \in Seq(TaskT) /\ u = Cons(d, Cons(e, Cons(f, t)))
  BY <1>2, GoThree
<1>. HIDE DEF u
<1>6. <<a, b, c>> \o u = Cons(a, Cons(b, Cons(c, u)))
  BY <1>2, <1>5, GoThree
<1>. QED BY <1>3, <1>4, <1>5, <1>6 DEF u

(* Ten tasks.                                                              *)
LEMMA GoTen ==
  ASSUME NEW t \in Seq(TaskT), NEW a, NEW b, NEW c, NEW d, NEW e, NEW f, NEW g, NEW h, NEW i,
         NEW j, <<a, b, c, d, e, f, g, h, i, j>> \in Seq(TaskT)
  PROVE  <<a, b, c, d, e, f, g, h, i, j>> \o t =
           Cons(a, Cons(b, Cons(c, Cons(d, Cons(e, Cons(f, Cons(g, Cons(h, Cons(i, Cons(j, t))))))))))
<1>. DEFINE s == <<a, b, c, d, e, f, g, h, i, j>>
<1>1. /\ \A k \in 1 .. 10 : s[k] \in TaskT
      /\ s[1] = a /\ s[2] = b /\ s[3] = c /\ s[4] = d /\ s[5] = e
      /\ s[6] = f /\ s[7] = g /\ s[8] = h /\ s[9] = i /\ s[10] = j
  OBVIOUS
<1>2. /\ a \in TaskT /\ b \in TaskT /\ c \in TaskT /\ d \in TaskT /\ e \in TaskT
      /\ f \in TaskT /\ g \in TaskT /\ h \in TaskT /\ i \in TaskT /\ j \in TaskT
  BY <1>1
<1>3. <<a, b, c, d, e, f, g, h, i, j>> = <<a, b, c, d, e>> \o <<f, g, h, i, j>>
  OBVIOUS
<1>. DEFINE u == <<f, g, h, i, j>> \o t
<1>4. (<<a, b, c, d, e>> \o <<f, g, h, i, j>>) \o t = <<a, b, c, d, e>> \o u
  BY <1>2, ConcatAssociative
<1>5. <<a, b, c, d, e>> \in Seq(TaskT) /\ <<f, g, h, i, j>> \in Seq(TaskT)
  BY <1>2
<1>6. u = Cons(f, Cons(g, Cons(h, Cons(i, Cons(j, t)))))
  BY <1>5, GoFive
<1>7. u \in Seq(TaskT)
  BY <1>5
<1>. HIDE DEF u
<1>8. <<a, b, c, d, e>> \o u = Cons(a, Cons(b, Cons(c, Cons(d, Cons(e, u)))))
  BY <1>5, <1>7, GoFive
<1>. QED BY <1>3, <1>4, <1>6, <1>8

-----------------------------------------------------------------------------
(* What an operation on the tree leaves as it was for the tasks of a.      *)
Spares(t, u, a) ==
  /\ SoundTree(t) /\ SoundTree(u) /\ Len(t.nodes) <= Len(u.nodes)
  /\ \A n \in DOMAIN t.nodes :
       /\ n \in HeldBy(a) => u.nodes[n].parent = t.nodes[n].parent
       /\ n \in StatementsOf(a) => u.nodes[n].rightChild = t.nodes[n].rightChild
       /\ t.nodes[n].parent # Null => u.nodes[n].nodeType = t.nodes[n].nodeType

(* The global variables under way are statements, and these are kept.      *)
LEMMA GlobalsAre ==
  ASSUME NEW a, Agenda(a)
  PROVE  GlobalsOf(a) \subseteq StatementsOf(a) /\ StatementsOf(a) \subseteq HeldBy(a)
<1>1. a \in Seq(TaskT) /\ \A i \in DOMAIN a : Sound(a[i], Behind(a, i))
  BY DEF Agenda
<1>2. DOMAIN a = 1 .. Len(a) /\ Len(a) \in Nat
  BY <1>1
<1>3. GlobalsOf(a) \subseteq StatementsOf(a)
  <2>. SUFFICES ASSUME NEW i \in DOMAIN a, i + 2 = Len(a), a[i].do = "Finish",
                       a[i+1].do = "Require"
       PROVE  a[i].n \in StatementsOf(a)
    BY DEF GlobalsOf
  <2>. DEFINE t == Behind(a, i)
  <2>1. Len(a) - i = 2
    BY <1>2
  <2>2. t = [j \in 1 .. 2 |-> a[i + j]]
    BY <2>1 DEF Behind
  <2>3. Len(t) = 2 /\ t # <<>> /\ t[1] = a[i + 1]
    BY <2>2
  <2>. HIDE DEF t
  <2>4. NextDo(t) = "Require"
    BY <2>3 DEF NextDo
  <2>5. Follows(a[i], t)
    BY <1>1 DEF Sound, t
  <2>6. Closes(a[i])
    BY <2>3, <2>4, <2>5 DEF Follows
  <2>. QED BY <2>6 DEF StatementsOf, Statements
<1>4. StatementsOf(a) \subseteq HeldBy(a)
  <2>. SUFFICES ASSUME NEW i \in DOMAIN a, Closes(a[i]) PROVE a[i].n \in HeldBy(a)
    BY DEF StatementsOf, Statements
  <2>1. a[i].n # Null
    BY <1>1 DEF Sound, Closes
  <2>. QED BY <2>1 DEF HeldBy, Held, Holders, Closes
<1>. QED BY <1>3, <1>4

(* An agenda stays ready when the tree changes where its tasks do not      *)
(* look.                                                                   *)
LEMMA Spared ==
  ASSUME NEW t, NEW u, NEW a, Ready(t, a), Spares(t, u, a)
  PROVE  Ready(u, a)
<1>1. Agenda(a) /\ Fits(a, t.nodes) /\ \A n \in GlobalsOf(a) : Global(n, t.nodes)
  BY DEF Ready, Safe
<1>2. /\ SoundTree(t) /\ SoundTree(u) /\ Len(t.nodes) <= Len(u.nodes)
      /\ \A n \in DOMAIN t.nodes :
           /\ n \in HeldBy(a) => u.nodes[n].parent = t.nodes[n].parent
           /\ n \in StatementsOf(a) => u.nodes[n].rightChild = t.nodes[n].rightChild
           /\ t.nodes[n].parent # Null => u.nodes[n].nodeType = t.nodes[n].nodeType
  BY DEF Spares
<1>3. /\ DOMAIN t.nodes = 1 .. Len(t.nodes) /\ Len(t.nodes) \in Nat
      /\ DOMAIN u.nodes = 1 .. Len(u.nodes) /\ Len(u.nodes) \in Nat
      /\ DOMAIN t.nodes \subseteq DOMAIN u.nodes
      /\ 0 .. Len(t.nodes) \subseteq 0 .. Len(u.nodes)
  <2>1. /\ DOMAIN t.nodes = 1 .. Len(t.nodes) /\ Len(t.nodes) \in Nat
        /\ DOMAIN u.nodes = 1 .. Len(u.nodes) /\ Len(u.nodes) \in Nat
    BY <1>2, NodesOf
  <2>. QED BY <2>1, <1>2
<1>4. Fits(a, u.nodes)
  <2>1. \A n \in HeldBy(a) : n \in DOMAIN t.nodes /\ t.nodes[n].parent = Null
    BY <1>1 DEF Fits, Free
  <2>2. HeldBy(a) \subseteq Free(u.nodes)
    BY <2>1, <1>2, <1>3 DEF Free
  <2>3. \A i \in DOMAIN a : a[i].n \in 0 .. Len(u.nodes) /\ a[i].m \in 0 .. Len(u.nodes)
    BY <1>1, <1>3 DEF Fits
  <2>. QED BY <2>2, <2>3 DEF Fits
<1>5. \A n \in GlobalsOf(a) : Global(n, u.nodes)
  <2>. TAKE n \in GlobalsOf(a)
  <2>1. Global(n, t.nodes) /\ n \in StatementsOf(a)
    BY <1>1, GlobalsAre
  <2>. DEFINE r == t.nodes[n].rightChild
  <2>2. n \in DOMAIN t.nodes /\ r \in DOMAIN t.nodes /\ t.nodes[r].nodeType = "ASSIGN"
    BY <2>1 DEF Global
  <2>3. r # Null /\ n # Null
    BY <2>2, <1>3 DEF Null
  <2>4. t.nodes[r].parent = n
    BY <1>2, <2>2, <2>3, NodesOf DEF Tied
  <2>5. u.nodes[n].rightChild = r /\ u.nodes[r].nodeType = "ASSIGN"
    BY <1>2, <2>1, <2>2, <2>3, <2>4
  <2>. QED BY <2>2, <2>5, <1>3 DEF Global
<1>. QED BY <1>1, <1>4, <1>5 DEF Ready, Safe

(* The nodes of a tree that has grown by k.                                *)
LEMMA GrownIs ==
  ASSUME NEW t, SoundTree(t), NEW u, NEW k \in Nat, Grown(t, u, k)
  PROVE  /\ SoundTree(u) /\ Len(t.nodes) <= Len(u.nodes) /\ u.root = t.root
         /\ DOMAIN t.nodes = 1 .. Len(t.nodes) /\ DOMAIN u.nodes = 1 .. Len(t.nodes) + k
         /\ Len(u.nodes) = Len(t.nodes) + k /\ Len(t.nodes) \in Nat
         /\ NewNode(t) = Len(t.nodes) + 1
         /\ 0 .. Len(t.nodes) \subseteq 0 .. Len(u.nodes)
         /\ DOMAIN t.nodes \subseteq DOMAIN u.nodes
<1>1. SoundTree(u) /\ Len(u.nodes) = Len(t.nodes) + k /\ u.root = t.root
  BY DEF Grown
<1>2. /\ DOMAIN t.nodes = 1 .. Len(t.nodes) /\ Len(t.nodes) \in Nat
      /\ DOMAIN u.nodes = 1 .. Len(u.nodes)
  BY <1>1, NodesOf
<1>. QED BY <1>1, <1>2 DEF NewNode

(* A new node disturbs no task.                                            *)
LEMMA AllocSpares ==
  ASSUME NEW t, NEW a, Ready(t, a), SoundTree(t), NEW u, Allocated(t, u)
  PROVE  Ready(u, a)
<1>1. Spares(t, u, a)
  BY GrownIs DEF Spares, Allocated
<1>. QED BY <1>1, Spared

(* A statement that begins disturbs none.                                  *)
LEMMA BegunSpares ==
  ASSUME NEW t, NEW a, Ready(t, a), SoundTree(t), NEW u, NEW type, Begun(t, u, type)
  PROVE  Ready(u, a)
<1>1. Spares(t, u, a)
  BY GrownIs DEF Spares, Begun, Kept
<1>. QED BY <1>1, Spared

(* A node no task keeps may be hung, and not to the right of a statement   *)
(* under way.                                                              *)
LEMMA HungSpares ==
  ASSUME NEW t, NEW a, Ready(t, a), SoundTree(t), NEW u, NEW p, NEW side, NEW b,
         Hung(t, u, p, side, b), b \notin HeldBy(a),
         p \notin StatementsOf(a) \/ side = "leftChild"
  PROVE  Ready(u, a)
<1>1. Spares(t, u, a)
  BY GrownIs DEF Spares, Hung
<1>. QED BY <1>1, Spared

(* A node may be inserted, but not to the right of a statement under way.  *)
LEMMA InsertSpares ==
  ASSUME NEW t, NEW a, Ready(t, a), SoundTree(t), NEW u, NEW p, NEW side, NEW type,
         Inserted(t, u, p, side, type), p \notin StatementsOf(a) \/ side = "leftChild"
  PROVE  Ready(u, a)
<1>1. Spares(t, u, a)
  BY GrownIs DEF Spares, Inserted
<1>. QED BY <1>1, Spared

(* A free node may get a type: the type a global variable is known by is   *)
(* that of a child.                                                        *)
LEMMA TypeSpares ==
  ASSUME NEW t, NEW a, Ready(t, a), SoundTree(t), NEW u, NEW p \in Free(t.nodes), NEW type,
         Retyped(t, u, p, type)
  PROVE  Ready(u, a)
<1>1. Spares(t, u, a)
  BY GrownIs DEF Spares, Retyped, Free
<1>. QED BY <1>1, Spared

(* A node may be put above nodes no task keeps.                            *)
LEMMA CtorSpares ==
  ASSUME NEW t, NEW a, Ready(t, a), SoundTree(t), NEW u, NEW left, NEW right,
         Constructed(t, u, left, right), left \notin HeldBy(a), right \notin HeldBy(a)
  PROVE  Ready(u, a)
<1>1. Spares(t, u, a)
  BY GrownIs DEF Spares, Constructed
<1>. QED BY <1>1, Spared

(* The held nodes are in the tree, and a new one is none of them.          *)
LEMMA HeldIn ==
  ASSUME NEW t, NEW a, Ready(t, a), SoundTree(t)
  PROVE  /\ HeldBy(a) \subseteq Free(t.nodes) /\ HeldBy(a) \subseteq DOMAIN t.nodes
         /\ StatementsOf(a) \subseteq HeldBy(a)
         /\ \A n \in HeldBy(a) : n <= Len(t.nodes)
<1>1. HeldBy(a) \subseteq Free(t.nodes) /\ StatementsOf(a) \subseteq HeldBy(a)
  BY GlobalsAre DEF Ready, Safe, Fits
<1>2. DOMAIN t.nodes = 1 .. Len(t.nodes) /\ Len(t.nodes) \in Nat
  BY NodesOf
<1>. QED BY <1>1, <1>2 DEF Free

-----------------------------------------------------------------------------
(* GetId met a semicolon, and only closing brackets came after it.         *)
SemicolonBefore(c) ==
  \E i \in 0 .. c - 1 :
    Cell(i).kw = "SEMICOLON" /\ \A j \in i + 1 .. c - 1 : Cell(j).kw = "RB"

(* An opening brace was just taken.                                        *)
BraceBefore(c) == c > 0 /\ Cell(c - 1).kw = "LSB"

(* An opening brace was just taken and a closing one follows: an empty     *)
(* block.                                                                  *)
EmptyAt(c)     == BraceBefore(c) /\ Cell(c).kw = "RSB"

(* The value of the call that has just returned.                           *)
Hot(a) ==
  \/ NextDo(a) \in {"Adopt", "AdoptAny", "Operators", "Combine", "Check", "Link", "Value", "Comma"}
  \/ RequireThen(a, Warm)

(* A node that was returned hangs nowhere, and no task keeps it.           *)
Placed(t, v, a) == Hot(a) /\ v # Null => v \in Free(t.nodes) \ HeldBy(a)

(* A null pointer has its reason: a call returned none after a semicolon,  *)
(* or a block is empty; a list is empty at its first round only.           *)
Why(c, v, a) ==
  /\ v = Null =>
       /\ NextDo(a) \in {"Operators", "Combine", "Check", "Value", "Link"} => SemicolonBefore(c)
       /\ RequireThen(a, Warm) => SemicolonBefore(c) /\ NextOp(a) = "RB"
       /\ NextDo(a) = "Adopt" => SemicolonBefore(c) \/ EmptyAt(c)
       /\ NextDo(a) # "Comma"
  /\ NextDo(a) = "Loop" /\ NextOp(a) = "A" /\ Head(a).n = Null =>
       BraceBefore(c) \/ SemicolonBefore(c)

(* The statement that is returned before the last two tasks is a global    *)
(* variable.                                                               *)
Pending(t, v, a) == NextDo(a) = "Require" /\ Len(a) = 2 => Global(v, t.nodes)

(* An error is either seen by a task to come, or it was the missing        *)
(* semicolon of the last global variable.                                  *)
ErrorSeen(c, e, t, v, a) ==
  e => \/ Blocked(a)
       \/ /\ Len(a) = 1 /\ Cell(c).kw # "SEMICOLON"
          /\ \/ NextDo(a) = "Link" /\ Global(v, t.nodes)
             \/ NextDo(a) = "Loop" /\ Global(Head(a).n, t.nodes)

(* The parts of the state, each of its own.                                *)
Shape(c, e, t, v) ==
  /\ c \in 0 .. Len(tokens) + MaxBeyond + 2
  /\ e \in BOOLEAN
  /\ SoundTree(t)
  /\ v \in 0 .. Len(t.nodes)

(* The parts of the state, as they fit while the parser runs.              *)
Going(c, e, t, v, a) ==
  /\ Ready(t, a) /\ a # <<>>
  /\ Placed(t, v, a) /\ Why(c, v, a) /\ Pending(t, v, a) /\ ErrorSeen(c, e, t, v, a)

(* The tree as it is left behind: there is one after an error only if its  *)
(* root is a global variable, which ends where no semicolon stands.        *)
Finished ==
  tree.root # Null =>
    /\ tree.root \in DOMAIN tree.nodes
    /\ parserError => Global(tree.root, tree.nodes) /\ This.kw # "SEMICOLON"

(* The inductive invariant.                                                *)
ParserInv ==
  /\ tokens \in TokenArrays /\ beyond \in BeyondTokens
  /\ status \in {"parsing", "done", "crash", "undefined"}
  /\ Shape(curToken, parserError, tree, val) /\ Fits(agenda, tree.nodes)
  /\ status = "parsing" => Going(curToken, parserError, tree, val, agenda)
  /\ status = "done" => Finished
  /\ status = "crash" => EmptyBlock \/ SemicolonInstead

(* What the parser looks at is a token, however far it walks.              *)
LEMMA CellsAre ==
  ASSUME tokens \in TokenArrays, beyond \in BeyondTokens, NEW i \in Nat
  PROVE  Cell(i) \in Cells /\ Len(tokens) \in Nat
<1>1. tokens \in Seq({tokens[j] : j \in DOMAIN tokens})
  BY TokensAssumption
<1>2. Len(tokens) \in Nat /\ DOMAIN tokens = 1 .. Len(tokens)
  BY <1>1
<1>3. Zero \in Cells /\ beyond \in Cells
  BY DEF Cells
<1>4. \A j \in DOMAIN tokens : tokens[j] \in Cells
  BY DEF Cells
<1>5. CASE i < Len(tokens)
  <2>1. i + 1 \in DOMAIN tokens
    BY <1>2, <1>5
  <2>. QED BY <1>2, <1>4, <1>5, <2>1 DEF Cell
<1>6. CASE ~(i < Len(tokens))
  BY <1>2, <1>3, <1>6 DEF Cell
<1>. QED BY <1>5, <1>6

(* A step that goes on parsing, the tokens being what they were.           *)
LEMMA GoesOn ==
  ASSUME ParserInv, status = "parsing", UNCHANGED <<input, status>>,
         Shape(curToken', parserError', tree', val'),
         Going(curToken', parserError', tree', val', agenda')
  PROVE  ParserInv'
<1>1. tokens' = tokens /\ beyond' = beyond /\ status' = "parsing"
  BY DEF input
<1>2. \A i : Cell(i)' = Cell(i)
  BY <1>1 DEF Cell
<1>3. Shape(curToken, parserError, tree, val)'
  BY <1>1 DEF Shape
<1>4. Going(curToken, parserError, tree, val, agenda)'
  <2>1. Why(curToken, val, agenda)'
    <3>1. Why(curToken', val', agenda')
      BY DEF Going
    <3>. QED BY <3>1, <1>1 DEF Why, SemicolonBefore, BraceBefore, EmptyAt, Cell
  <2>2. ErrorSeen(curToken, parserError, tree, val, agenda)'
    <3>1. ErrorSeen(curToken', parserError', tree', val', agenda')
      BY DEF Going
    <3>. QED BY <3>1, <1>1 DEF ErrorSeen, Cell
  <2>. QED BY <2>1, <2>2 DEF Going
<1>5. Fits(agenda, tree.nodes)'
  BY DEF Going, Ready, Safe
<1>. QED BY <1>1, <1>3, <1>4, <1>5 DEF ParserInv

(* A crash is explained where it happens.                                  *)
LEMMA Crashes ==
  ASSUME ParserInv, status = "parsing", Crash, EmptyBlock \/ SemicolonInstead
  PROVE  ParserInv'
<1>1. /\ tokens' = tokens /\ beyond' = beyond /\ status' = "crash" /\ curToken' = curToken
      /\ parserError' = parserError /\ tree' = tree /\ val' = val /\ agenda' = agenda
  BY DEF Crash, input
<1>2. (EmptyBlock \/ SemicolonInstead)'
  BY <1>1 DEF EmptyBlock, SemicolonInstead, This, Cell
<1>. QED BY <1>1, <1>2 DEF ParserInv, Shape

(* Where the agenda ends.                                                  *)
LEMMA LastTask ==
  ASSUME NEW a, Agenda(a), a # <<>>
  PROVE  Len(a) = 1 => NextDo(a) \in {"Loop", "Link"}
<1>. SUFFICES ASSUME Len(a) = 1 PROVE NextDo(a) \in {"Loop", "Link"}
  OBVIOUS
<1>1. Head(a) \in TaskT /\ Sound(Head(a), Tail(a)) /\ a \in Seq(TaskT) /\ Head(a) = a[1]
  BY Taken DEF Agenda
<1>2. Tail(a) = <<>>
  <2>1. Tail(a) \in Seq(TaskT) /\ Len(Tail(a)) = 0
    BY <1>1
  <2>. QED BY <2>1, EmptySeq
<1>3. Follows(Head(a), <<>>)
  BY <1>1, <1>2 DEF Sound
<1>4. NextDo(<<>>) = "end" /\ Second(<<>>) = "end" /\ DOMAIN <<>> = {}
  BY DEF NextDo, Second
<1>5. ~Blocked(<<>>) /\ ~RequireThen(<<>>, Cold) /\ Len(<<>>) = 0
  BY <1>4 DEF Blocked, RequireThen
<1>6. Head(a).do \in Dos
  BY <1>1 DEF TaskT
<1>. QED BY <1>1, <1>3, <1>4, <1>5, <1>6
         DEF Follows, Dos, NextDo, RequireThen, Cold, Warm, Adopts, Branches

(* A blocker that comes next blocks.                                       *)
LEMMA Blocks ==
  ASSUME NEW a, NextDo(a) \in Blockers, a \in Seq(TaskT)
  PROVE  Blocked(a)
<1>1. a # <<>>
  BY DEF NextDo, Blockers
<1>2. 1 \in DOMAIN a
  BY <1>1
<1>. QED BY <1>1, <1>2 DEF Blocked, NextDo

(* Before the end there is a loop of the top level.                        *)
LEMMA LastOfTwo ==
  ASSUME NEW a, Agenda(a), Len(a) = 2
  PROVE  Second(a) \in {"Loop", "Link"}
<1>. DEFINE t == Tail(a)
<1>1. a \in Seq(TaskT)
  BY DEF Agenda
<1>2. a # <<>>
  BY <1>1
<1>3. t \in Seq(TaskT) /\ Len(t) = 1 /\ t[1] = a[2] /\ Agenda(t)
  BY <1>1, <1>2, Taken
<1>. HIDE DEF t
<1>4. t # <<>>
  <2>1. Len(t) # 0
    BY <1>3
  <2>2. Len(<<>>) = 0
    OBVIOUS
  <2>. QED BY <2>1, <2>2
<1>5. NextDo(t) \in {"Loop", "Link"}
  BY <1>3, <1>4, LastTask
<1>. QED BY <1>3, <1>4, <1>5 DEF NextDo, Second

-----------------------------------------------------------------------------
(* What comes after the current task.                                      *)
Rest == Tail(agenda)

(* What an action of the parser finds.                                     *)
LEMMA Start ==
  ASSUME ParserInv, Running, agenda # <<>>
  PROVE  /\ status = "parsing" /\ curToken \in Nat /\ parserError \in BOOLEAN
         /\ {curToken, curToken + 1, curToken + 2} \subseteq 0 .. Len(tokens) + MaxBeyond + 2
         /\ SoundTree(tree) /\ val \in 0 .. Len(tree.nodes)
         /\ This \in Cells /\ Ahead \in Cells
         /\ Me \in TaskT /\ Sound(Me, Rest) /\ Ready(tree, Rest) /\ Ready(tree, agenda)
         /\ Rest \in Seq(TaskT) /\ agenda \in Seq(TaskT) /\ agenda = Cons(Me, Rest)
         /\ NextDo(agenda) = Me.do /\ NextOp(agenda) = Me.op /\ Second(agenda) = NextDo(Rest)
         /\ Len(agenda) = Len(Rest) + 1
         /\ HeldBy(agenda) = Held(Me) \cup HeldBy(Rest)
         /\ StatementsOf(agenda) = Statements(Me) \cup StatementsOf(Rest)
         /\ Blocked(agenda) <=> Me.do \in Blockers \/ Blocked(Rest)
         /\ Me.n \in 0 .. Len(tree.nodes) /\ Me.m \in 0 .. Len(tree.nodes)
         /\ HeldBy(agenda) \subseteq Free(tree.nodes)
         /\ Going(curToken, parserError, tree, val, agenda)
<1>1. /\ status = "parsing" /\ curToken <= Len(tokens) + MaxBeyond
      /\ Shape(curToken, parserError, tree, val)
      /\ Going(curToken, parserError, tree, val, agenda)
      /\ tokens \in TokenArrays /\ beyond \in BeyondTokens
  BY DEF Running, ParserInv
<1>2. Len(tokens) \in Nat /\ MaxBeyond \in Nat
  <2>1. 0 \in Nat
    OBVIOUS
  <2>. QED BY <1>1, <2>1, CellsAre, BoundsAssumption
<1>3. curToken \in 0 .. Len(tokens) + MaxBeyond + 2
  BY <1>1 DEF Shape
<1>4. /\ {curToken, curToken + 1, curToken + 2} \subseteq 0 .. Len(tokens) + MaxBeyond + 2
      /\ curToken \in Nat /\ curToken + 1 \in Nat
  BY <1>1, <1>2, <1>3
<1>5. This \in Cells /\ Ahead \in Cells
  BY <1>1, <1>4, CellsAre DEF This, Ahead
<1>6. Ready(tree, agenda) /\ Agenda(agenda) /\ Safe(tree, agenda) /\ agenda \in Seq(TaskT)
  BY <1>1 DEF Going, Ready, Agenda
<1>7. /\ Me \in TaskT /\ Sound(Me, Rest) /\ Agenda(Rest)
      /\ agenda = Cons(Me, Rest) /\ Rest \in Seq(TaskT)
  BY <1>6, Taken DEF Me, Rest
<1>8. /\ NextDo(agenda) = Me.do /\ NextOp(agenda) = Me.op /\ Second(agenda) = NextDo(Rest)
      /\ HeldBy(agenda) = Held(Me) \cup HeldBy(Rest)
      /\ StatementsOf(agenda) = Statements(Me) \cup StatementsOf(Rest)
      /\ Blocked(agenda) <=> Me.do \in Blockers \/ Blocked(Rest)
  <2>. DEFINE x == Me
              r == Rest
  <2>1. x \in TaskT /\ r \in Seq(TaskT) /\ agenda = Cons(x, r)
    BY <1>7
  <2>. HIDE DEF x, r
  <2>2. /\ NextDo(agenda) = x.do /\ NextOp(agenda) = x.op /\ Second(agenda) = NextDo(r)
        /\ HeldBy(agenda) = Held(x) \cup HeldBy(r)
        /\ StatementsOf(agenda) = Statements(x) \cup StatementsOf(r)
        /\ Blocked(agenda) <=> x.do \in Blockers \/ Blocked(r)
    BY <2>1, ConsViews
  <2>. QED BY <2>2 DEF x, r
<1>9. Len(agenda) = Len(Rest) + 1
  BY <1>6 DEF Rest
<1>10. /\ \A i \in DOMAIN agenda : agenda[i].n \in 0 .. Len(tree.nodes)
                                   /\ agenda[i].m \in 0 .. Len(tree.nodes)
       /\ HeldBy(agenda) \subseteq Free(tree.nodes)
  BY <1>6 DEF Safe, Fits
<1>11. Me = agenda[1] /\ 1 \in DOMAIN agenda
  BY <1>6 DEF Me
<1>12. Ready(tree, Rest)
  <2>1. \A i \in DOMAIN Rest : Rest[i] = agenda[i + 1] /\ i + 1 \in DOMAIN agenda
    BY <1>6 DEF Rest
  <2>2. Fits(Rest, tree.nodes)
    BY <1>8, <1>10, <2>1 DEF Fits
  <2>3. GlobalsOf(Rest) \subseteq GlobalsOf(agenda)
    <3>. DEFINE x == Me
                r == Rest
    <3>1. x \in TaskT /\ r \in Seq(TaskT) /\ agenda = Cons(x, r)
      BY <1>7
    <3>. HIDE DEF x, r
    <3>2. GlobalsOf(r) \subseteq GlobalsOf(agenda)
      BY <3>1, GlobalsCons
    <3>. QED BY <3>2 DEF r
  <2>. QED BY <1>6, <1>7, <2>2, <2>3 DEF Ready, Safe
<1>. QED
  BY <1>1, <1>4, <1>5, <1>6, <1>7, <1>8, <1>9, <1>10, <1>11, <1>12 DEF Shape

(* A task that looks at no value goes first: only the error has to be      *)
(* waited for.                                                             *)
Cool == Cold \cup {"Get"}

(* So an agenda that begins with one can always go on.                     *)
LEMMA Cooled ==
  ASSUME NEW c, NEW e, NEW t, NEW v, NEW a, Ready(t, a), NextDo(a) \in Cool, e => Blocked(a)
  PROVE  Going(c, e, t, v, a)
<1>1. NextDo(a) \notin {"Adopt", "AdoptAny", "Operators", "Combine", "Check", "Link", "Value",
                        "Comma", "Require", "Loop", "end"}
  BY DEF Cool, Cold
<1>2. ~Hot(a) /\ ~RequireThen(a, Warm)
  BY <1>1 DEF Hot, RequireThen
<1>3. a # <<>>
  BY <1>1 DEF NextDo
<1>. QED BY <1>1, <1>2, <1>3 DEF Going, Placed, Why, Pending, ErrorSeen

(* A loop begins.                                                          *)
LEMMA LoopBegun ==
  ASSUME NEW c, NEW e, NEW t, NEW v, NEW a, Ready(t, a), NextDo(a) = "Loop", e => Blocked(a),
         NextOp(a) = "A" => BraceBefore(c)
  PROVE  Going(c, e, t, v, a)
<1>2. ~Hot(a) /\ ~RequireThen(a, Warm)
  BY DEF Hot, RequireThen
<1>3. a # <<>>
  BY DEF NextDo
<1>. QED BY <1>2, <1>3 DEF Going, Placed, Why, Pending, ErrorSeen

(* An error that was seen is waited for, unless the agenda is at its end.  *)
LEMMA StillBlocked ==
  ASSUME ParserInv, Running, agenda # <<>>, Me.do \notin Blockers \cup {"Loop", "Link"}
  PROVE  parserError => Blocked(Rest)
<1>1. ErrorSeen(curToken, parserError, tree, val, agenda)
  BY Start DEF Going
<1>2. NextDo(agenda) = Me.do /\ (Blocked(agenda) <=> Me.do \in Blockers \/ Blocked(Rest))
  BY Start
<1>. QED BY <1>1, <1>2 DEF ErrorSeen

-----------------------------------------------------------------------------
(* The statement that is an expression, the first call of its levels.      *)
LEMMA ExpressionKeeps ==
  ASSUME ParserInv, Expression
  PROVE  ParserInv'
<1>1. /\ Running /\ agenda # <<>> /\ Me.do = "Get" /\ Me.op = "If"
      /\ agenda' = <<Get("Bool")>> \o Rest
      /\ UNCHANGED <<input, curToken, parserError, tree, val, status>>
  BY DEF Expression, Getting, Doing, Me, Go, Rest
<1>2. /\ status = "parsing" /\ Sound(Me, Rest) /\ Ready(tree, Rest) /\ Rest \in Seq(TaskT)
      /\ SoundTree(tree)
  BY <1>1, Start
<1>3. Len(tree.nodes) \in Nat
  BY <1>2, NodesOf
<1>4. NextDo(Rest) = "Check"
  BY <1>1, <1>2 DEF Sound, Follows
<1>5. agenda' = Cons(Get("Bool"), Rest)
  <2>1. Get("Bool") \in TaskT
    BY DEF Get, Task, TaskT, Dos, Ops, Null
  <2>. QED BY <1>1, <1>2, <2>1, GoOne
<1>6. On(tree, agenda', "Get", "Bool", Rest, {}, {})
  BY <1>2, <1>3, <1>4, <1>5, PushGet
<1>7. parserError => Blocked(agenda')
  BY <1>1, <1>6, StillBlocked DEF On, Blockers
<1>8. Going(curToken, parserError, tree, val, agenda')
  BY <1>6, <1>7, Cooled DEF On, Cool
<1>9. Shape(curToken, parserError, tree, val)
  BY DEF ParserInv
<1>. QED BY <1>1, <1>2, <1>8, <1>9, GoesOn

(* A statement that is neither an assignment nor an element of an array.   *)
LEMMA OtherStatementKeeps ==
  ASSUME ParserInv, OtherStatement
  PROVE  ParserInv'
<1>1. /\ Running /\ agenda # <<>> /\ Me.do = "Loop" /\ Me.op = "A"
      /\ agenda' = <<Get("If"), Check, Link(Me.n, "A")>> \o Rest
      /\ UNCHANGED <<input, curToken, parserError, tree, val, status>>
  BY DEF OtherStatement, InBlock, Looping, Doing, Me, Go, Rest
<1>2. /\ status = "parsing" /\ Sound(Me, Rest) /\ Ready(tree, Rest) /\ Rest \in Seq(TaskT)
      /\ SoundTree(tree) /\ Me.n \in 0 .. Len(tree.nodes)
      /\ HeldBy(agenda) \subseteq Free(tree.nodes) /\ HeldBy(agenda) = Held(Me) \cup HeldBy(Rest)
  BY <1>1, Start
<1>3. Len(tree.nodes) \in Nat /\ Me.n \in Nat
  BY <1>2, NodesOf
<1>4. NextDo(Rest) \in Adopts /\ Held(Me) \cap HeldBy(Rest) = {} /\ Held(Me) = {Me.n} \ {Null}
  BY <1>1, <1>2 DEF Sound, Follows, Held, Holders
<1>. DEFINE a1 == Cons(Link(Me.n, "A"), Rest)
            a2 == Cons(Check, a1)
            a3 == Cons(Get("If"), a2)
<1>5. agenda' = a3
  <2>1. Get("If") \in TaskT /\ Check \in TaskT /\ Link(Me.n, "A") \in TaskT
    BY <1>3 DEF Get, Check, Link, Task, TaskT, Dos, Ops, Null
  <2>. QED BY <1>1, <1>2, <2>1, GoThree
<1>6. On(tree, a1, "Link", "A", Rest, {Me.n} \ {Null}, {})
  BY <1>2, <1>3, <1>4, PushLoop DEF Link
<1>. HIDE DEF a1
<1>7. On(tree, a2, "Check", "", a1, {}, {})
  BY <1>3, <1>6, PushCheck DEF On, Warm
<1>. HIDE DEF a2
<1>8. On(tree, a3, "Get", "If", a2, {}, {})
  BY <1>3, <1>7, PushGet DEF On
<1>. HIDE DEF a3
<1>9. Blocked(a3)
  BY <1>7, <1>8 DEF On, Blockers
<1>10. Going(curToken, parserError, tree, val, a3)
  BY <1>8, <1>9, Cooled DEF On, Cool
<1>11. Shape(curToken, parserError, tree, val)
  BY DEF ParserInv
<1>. QED BY <1>1, <1>2, <1>5, <1>10, <1>11, GoesOn

(* A level begins with an operand of the tighter one.                      *)
LEMMA FirstOperandKeeps ==
  ASSUME ParserInv, FirstOperand
  PROVE  ParserInv'
<1>1. /\ Running /\ agenda # <<>> /\ Me.do = "Get" /\ Me.op \in Levels
      /\ agenda' = <<Get(Tighter[Me.op]), Task("Operators", Null, Null, Me.op)>> \o Rest
      /\ UNCHANGED <<input, curToken, parserError, tree, val, status>>
  BY DEF FirstOperand, Doing, Me, Go, Rest
<1>2. /\ status = "parsing" /\ Sound(Me, Rest) /\ Ready(tree, Rest) /\ Rest \in Seq(TaskT)
      /\ SoundTree(tree)
  BY <1>1, Start
<1>3. Len(tree.nodes) \in Nat
  BY <1>2, NodesOf
<1>. DEFINE level == Me.op
            tighter == Tighter[level]
            a1 == Cons(Task("Operators", Null, Null, level), Rest)
            a2 == Cons(Get(tighter), a1)
<1>4. /\ level \in Levels
      /\ level = "Bool" => NextDo(Rest) \in {"Adopt", "Check", "Value"}
      /\ level # "Bool" => NextDo(Rest) \in {"Operators", "Combine"}
      /\ tighter \in {"E", "T", "Pow", "P"}
  BY <1>1, <1>2 DEF Sound, Follows, Levels, Tighter
<1>. HIDE DEF level, tighter
<1>5. agenda' = a2
  <2>1. Get(tighter) \in TaskT /\ Task("Operators", Null, Null, level) \in TaskT
    BY <1>4 DEF Get, Task, TaskT, Dos, Ops, Null, Levels
  <2>. QED BY <1>1, <1>2, <2>1, GoTwo DEF level, tighter
<1>6. On(tree, a1, "Operators", level, Rest, {}, {})
  BY <1>2, <1>3, <1>4, PushOperators
<1>. HIDE DEF a1
<1>7. On(tree, a2, "Get", tighter, a1, {}, {})
  <2>1. Ready(tree, a1) /\ NextDo(a1) = "Operators"
    BY <1>6 DEF On
  <2>. QED BY <1>3, <1>4, <2>1, PushGet
<1>. HIDE DEF a2
<1>8. Blocked(a2)
  BY <1>6, <1>7 DEF On, Blockers
<1>9. Going(curToken, parserError, tree, val, a2)
  BY <1>7, <1>8, Cooled DEF On, Cool
<1>10. Shape(curToken, parserError, tree, val)
  BY DEF ParserInv
<1>. QED BY <1>1, <1>2, <1>5, <1>9, <1>10, GoesOn

(* A bracket begins an expression, which is looked at before the bracket   *)
(* that closes it.                                                         *)
LEMMA ParenthesisKeeps ==
  ASSUME ParserInv, Parenthesis
  PROVE  ParserInv'
<1>1. /\ Running /\ agenda # <<>> /\ Me.do = "Get" /\ Me.op = "P"
      /\ agenda' = <<Get("Bool"), Check, Require("RB")>> \o Rest
      /\ curToken' = curToken + 1
      /\ UNCHANGED <<input, parserError, tree, val, status>>
  BY DEF Parenthesis, Getting, Doing, Me, Go, Rest, Eat
<1>2. /\ status = "parsing" /\ Sound(Me, Rest) /\ Ready(tree, Rest) /\ Rest \in Seq(TaskT)
      /\ SoundTree(tree) /\ curToken + 1 \in 0 .. Len(tokens) + MaxBeyond + 2
  BY <1>1, Start
<1>3. Len(tree.nodes) \in Nat
  BY <1>2, NodesOf
<1>4. NextDo(Rest) \in {"Operators", "Combine"}
  BY <1>1, <1>2 DEF Sound, Follows
<1>5. Blocked(Rest)
  BY <1>2, <1>4, Blocks DEF Blockers
<1>. DEFINE a1 == Cons(Require("RB"), Rest)
            a2 == Cons(Check, a1)
            a3 == Cons(Get("Bool"), a2)
<1>6. agenda' = a3
  <2>1. Get("Bool") \in TaskT /\ Check \in TaskT /\ Require("RB") \in TaskT
    BY DEF Get, Check, Require, Task, TaskT, Dos, Ops, Null
  <2>. QED BY <1>1, <1>2, <2>1, GoThree
<1>7. On(tree, a1, "Require", "RB", Rest, {}, {})
  <2>1. NextDo(Rest) \in Cold \cup Warm
    BY <1>4 DEF Warm
  <2>. QED BY <1>2, <1>3, <1>5, <2>1, PushRequire
<1>. HIDE DEF a1
<1>8. On(tree, a2, "Check", "", a1, {}, {})
  <2>1. RequireThen(a1, {"Operators", "Combine"}) /\ NextOp(a1) = "RB"
    BY <1>4, <1>7 DEF On, RequireThen
  <2>. QED BY <1>3, <1>7, <2>1, PushCheck DEF On
<1>. HIDE DEF a2
<1>9. On(tree, a3, "Get", "Bool", a2, {}, {})
  BY <1>3, <1>8, PushGet DEF On
<1>. HIDE DEF a3
<1>10. Blocked(a3)
  BY <1>8, <1>9 DEF On, Blockers
<1>11. Going(curToken', parserError, tree, val, a3)
  BY <1>9, <1>10, Cooled DEF On, Cool
<1>12. Shape(curToken', parserError, tree, val)
  BY <1>1, <1>2 DEF ParserInv, Shape
<1>. QED BY <1>1, <1>2, <1>6, <1>11, <1>12, GoesOn

(* The statements of a block, and what is required behind them.            *)
LEMMA BlockBegun ==
  ASSUME NEW c, NEW e, NEW t, NEW v, NEW a, Ready(t, a), SoundTree(t), NEW do \in Adopts,
         NEW m \in DOMAIN t.nodes, m \notin StatementsOf(a), NEW side \in Sides,
         NextDo(a) \in Cold, Blocked(a), BraceBefore(c)
  PROVE  Going(c, e, t, v,
               Cons(Loop("A", Null), Cons(Task(do, m, Null, side), Cons(Require("RSB"), a))))
<1>. DEFINE a1 == Cons(Require("RSB"), a)
            a2 == Cons(Task(do, m, Null, side), a1)
            a3 == Cons(Loop("A", Null), a2)
<1>1. Len(t.nodes) \in Nat
  BY NodesOf
<1>2. On(t, a1, "Require", "RSB", a, {}, {})
  BY <1>1, PushRequire
<1>. HIDE DEF a1
<1>3. On(t, a2, do, side, a1, {}, {})
  <2>1. RequireThen(a1, Cold) /\ m \notin StatementsOf(a1)
    BY <1>2 DEF On, RequireThen
  <2>. QED BY <1>2, <2>1, PushAdopt DEF On
<1>. HIDE DEF a2
<1>4. On(t, a3, "Loop", "A", a2, {}, {})
  <2>1. Null \in Nat /\ {Null} \ {Null} = {}
    BY DEF Null
  <2>2. On(t, a3, "Loop", "A", a2, {Null} \ {Null}, {})
    BY <1>3, <2>1, PushLoop DEF On, Loop
  <2>. QED BY <2>1, <2>2
<1>. HIDE DEF a3
<1>5. Going(c, e, t, v, a3)
  BY <1>3, <1>4, LoopBegun DEF On, Adopts, Blockers
<1>. QED BY <1>5 DEF a3, a2, a1

(* The node a branch holds is finished behind the statements of its block, *)
(* or at once where there is no block.                                     *)
LEMMA BranchKeeps ==
  ASSUME ParserInv, Running, agenda # <<>>, Me.do \in Branches,
         NEW do \in Adopts, NEW side \in Sides,
         UNCHANGED <<input, parserError, tree, val, status>>,
         \/ /\ agenda' = <<Finish(Me.n, "STATEMENT")>> \o Rest
            /\ curToken' = curToken
         \/ /\ agenda' = <<Loop("A", Null), Task(do, Me.m, Null, side), Require("RSB"),
                           Finish(Me.n, "STATEMENT")>> \o Rest
            /\ curToken' \in {curToken + 1, curToken + 2} /\ BraceBefore(curToken')
  PROVE  ParserInv'
<1>2. /\ status = "parsing" /\ Sound(Me, Rest) /\ Ready(tree, Rest) /\ Rest \in Seq(TaskT)
      /\ SoundTree(tree) /\ Me.n \in 0 .. Len(tree.nodes) /\ Me.m \in 0 .. Len(tree.nodes)
      /\ HeldBy(agenda) \subseteq Free(tree.nodes) /\ HeldBy(agenda) = Held(Me) \cup HeldBy(Rest)
      /\ {curToken, curToken + 1, curToken + 2} \subseteq 0 .. Len(tokens) + MaxBeyond + 2
  BY Start
<1>3. Len(tree.nodes) \in Nat /\ Me.n \in Nat /\ Me.m \in Nat /\ DOMAIN tree.nodes = 1 .. Len(tree.nodes)
  BY <1>2, NodesOf
<1>. DEFINE n == Me.n
            m == Me.m
            a1 == Cons(Finish(n, "STATEMENT"), Rest)
<1>4. /\ NextDo(Rest) = "Check" /\ Held(Me) \cap HeldBy(Rest) = {} /\ n # 0 /\ m # 0 /\ m # n
      /\ Targets(Me) = {m} /\ m \notin StatementsOf(Rest) /\ Held(Me) = {n}
  BY <1>2 DEF Sound, Follows, Held, Holders, Targets, Adopts, Branches, Null
<1>5. n \in Free(tree.nodes) \ HeldBy(Rest) /\ m \in DOMAIN tree.nodes /\ n \in Nat
  BY <1>2, <1>3, <1>4
<1>6. Finish(n, "STATEMENT") \in TaskT
  BY <1>3 DEF Finish, Task, TaskT, Dos, Ops, Null
<1>. HIDE DEF n, m
<1>7. On(tree, a1, "Finish", "STATEMENT", Rest, {n}, {n})
  BY <1>2, <1>4, <1>5, PushFinish
<1>8. Blocked(Rest)
  BY <1>2, <1>4, Blocks DEF Blockers
<1>9. Shape(curToken', parserError, tree, val)
  BY <1>2 DEF ParserInv, Shape
<1>10. CASE agenda' = <<Finish(Me.n, "STATEMENT")>> \o Rest
  <2>1. agenda' = a1
    BY <1>2, <1>6, <1>10, GoOne DEF n
  <2>. HIDE DEF a1
  <2>2. Going(curToken', parserError, tree, val, a1)
    BY <1>7, <1>8, Cooled DEF On, Cool, Cold
  <2>. QED BY <1>2, <1>9, <2>1, <2>2, GoesOn
<1>11. CASE /\ agenda' = <<Loop("A", Null), Task(do, Me.m, Null, side), Require("RSB"),
                           Finish(Me.n, "STATEMENT")>> \o Rest
            /\ BraceBefore(curToken')
  <2>. DEFINE a4 == Cons(Loop("A", Null), Cons(Task(do, m, Null, side), Cons(Require("RSB"), a1)))
  <2>1. agenda' = a4
    <3>1. /\ Loop("A", Null) \in TaskT /\ Require("RSB") \in TaskT
          /\ Task(do, m, Null, side) \in TaskT
      BY <1>3 DEF m, Loop, Require, Task, TaskT, Dos, Ops, Null, Adopts, Sides
    <3>. DEFINE b1 == Loop("A", Null)
                b2 == Task(do, m, Null, side)
                b3 == Require("RSB")
                b4 == Finish(n, "STATEMENT")
    <3>2. agenda' = <<b1, b2, b3, b4>> \o Rest
      BY <1>11 DEF n, m
    <3>3. b1 \in TaskT /\ b2 \in TaskT /\ b3 \in TaskT /\ b4 \in TaskT
      BY <3>1, <1>6
    <3>. HIDE DEF b1, b2, b3, b4
    <3>4. Rest \in Seq(TaskT)
      BY <1>2
    <3>5. <<b1, b2, b3, b4>> \o Rest = Cons(b1, Cons(b2, Cons(b3, Cons(b4, Rest))))
      BY <3>3, <3>4, GoFour
    <3>. QED BY <3>2, <3>5 DEF b1, b2, b3, b4
  <2>. HIDE DEF a1
  <2>2. Going(curToken', parserError, tree, val, a4)
    <3>1. Ready(tree, a1) /\ m \notin StatementsOf(a1) /\ NextDo(a1) \in Cold /\ Blocked(a1)
      BY <1>4, <1>7, <1>8 DEF On, Cold
    <3>. QED BY <1>2, <1>5, <1>11, <3>1, BlockBegun
  <2>. HIDE DEF a4
  <2>. QED BY <1>2, <1>9, <2>1, <2>2, GoesOn
<1>. QED BY <1>10, <1>11

(* The body of a function, which may be left out.                          *)
LEMMA FunctionBodyKeeps ==
  ASSUME ParserInv, FunctionBody
  PROVE  ParserInv'
<1>1. /\ Running /\ agenda # <<>> /\ Me.do = "Body"
      /\ UNCHANGED <<input, parserError, tree, val, status>>
  BY DEF FunctionBody, Doing, Me
<1>2. \/ /\ agenda' = <<Finish(Me.n, "STATEMENT")>> \o Rest
         /\ curToken' = curToken
      \/ /\ agenda' = <<Loop("A", Null), Task("AdoptAny", Me.m, Null, "rightChild"),
                        Require("RSB"), Finish(Me.n, "STATEMENT")>> \o Rest
         /\ curToken' = curToken + 1 /\ This.kw = "LSB"
  BY DEF FunctionBody, Go, Eat, AdoptAny, Rest
<1>3. curToken \in Nat
  BY <1>1, Start
<1>4. curToken' = curToken + 1 /\ This.kw = "LSB" => BraceBefore(curToken')
  BY <1>3 DEF BraceBefore, This
<1>5. Me.do \in Branches /\ "AdoptAny" \in Adopts /\ "rightChild" \in Sides
  BY <1>1 DEF Branches, Adopts, Sides
<1>. QED BY <1>1, <1>2, <1>4, <1>5, BranchKeeps

(* The body of a loop, which may be left out.                              *)
LEMMA WhileBodyKeeps ==
  ASSUME ParserInv, WhileBody
  PROVE  ParserInv'
<1>1. /\ Running /\ agenda # <<>> /\ Me.do = "Do"
      /\ UNCHANGED <<input, parserError, tree, val, status>>
  BY DEF WhileBody, Doing, Me
<1>2. \/ /\ agenda' = <<Finish(Me.n, "STATEMENT")>> \o Rest
         /\ curToken' = curToken
      \/ /\ agenda' = <<Loop("A", Null), Task("Adopt", Me.m, Null, "rightChild"),
                        Require("RSB"), Finish(Me.n, "STATEMENT")>> \o Rest
         /\ curToken' = curToken + 1 /\ This.kw = "LSB"
  BY DEF WhileBody, Go, Eat, Adopt, Rest
<1>3. curToken \in Nat
  BY <1>1, Start
<1>4. curToken' = curToken + 1 /\ This.kw = "LSB" => BraceBefore(curToken')
  BY <1>3 DEF BraceBefore, This
<1>5. Me.do \in Branches /\ "Adopt" \in Adopts /\ "rightChild" \in Sides
  BY <1>1 DEF Branches, Adopts, Sides
<1>. QED BY <1>1, <1>2, <1>4, <1>5, BranchKeeps

(* The else of an if, which may be left out.                               *)
LEMMA ElseKeeps ==
  ASSUME ParserInv, Else
  PROVE  ParserInv'
<1>1. /\ Running /\ agenda # <<>> /\ Me.do = "Else"
      /\ UNCHANGED <<input, parserError, tree, val, status>>
  BY DEF Else, Doing, Me
<1>2. \/ /\ agenda' = <<Finish(Me.n, "STATEMENT")>> \o Rest
         /\ curToken' = curToken
      \/ /\ agenda' = <<Loop("A", Null), Task("Adopt", Me.m, Null, "rightChild"),
                        Require("RSB"), Finish(Me.n, "STATEMENT")>> \o Rest
         /\ curToken' = curToken + 2 /\ Ahead.kw = "LSB"
  BY DEF Else, Go, Eat, Adopt, Rest
<1>3. curToken \in Nat
  BY <1>1, Start
<1>4. curToken' = curToken + 2 /\ Ahead.kw = "LSB" => BraceBefore(curToken')
  <2>1. curToken + 2 > 0 /\ (curToken + 2) - 1 = curToken + 1
    BY <1>3
  <2>. QED BY <2>1 DEF BraceBefore, Ahead
<1>5. Me.do \in Branches /\ "Adopt" \in Adopts /\ "rightChild" \in Sides
  BY <1>1 DEF Branches, Adopts, Sides
<1>. QED BY <1>1, <1>2, <1>4, <1>5, BranchKeeps

-----------------------------------------------------------------------------
(* The token after an index is stepped over.                               *)
LEMMA SkipTokenKeeps ==
  ASSUME ParserInv, SkipToken
  PROVE  ParserInv'
<1>1. /\ Running /\ agenda # <<>> /\ Me.do = "Skip"
      /\ agenda' = <<>> \o Rest /\ curToken' = curToken + 1
      /\ UNCHANGED <<input, parserError, tree, val, status>>
  BY DEF SkipToken, Doing, Me, Go, Rest, Eat
<1>2. /\ status = "parsing" /\ Sound(Me, Rest) /\ Ready(tree, Rest) /\ Rest \in Seq(TaskT)
      /\ curToken + 1 \in 0 .. Len(tokens) + MaxBeyond + 2
  BY <1>1, Start
<1>3. agenda' = Rest
  BY <1>1, <1>2
<1>4. NextDo(Rest) = "Get"
  BY <1>1, <1>2 DEF Sound, Follows
<1>5. parserError => Blocked(Rest)
  BY <1>1, StillBlocked DEF Blockers
<1>6. Going(curToken', parserError, tree, val, Rest)
  BY <1>2, <1>4, <1>5, Cooled DEF Cool
<1>7. Shape(curToken', parserError, tree, val)
  BY <1>1, <1>2 DEF ParserInv, Shape
<1>. QED BY <1>1, <1>2, <1>3, <1>6, <1>7, GoesOn

(* A comma is stepped over, the parameter still to be linked.              *)
LEMMA CommaKeeps ==
  ASSUME ParserInv, Comma
  PROVE  ParserInv'
<1>1. /\ Running /\ agenda # <<>> /\ Me.do = "Comma"
      /\ agenda' = <<>> \o Rest /\ curToken' \in {curToken, curToken + 1}
      /\ UNCHANGED <<input, parserError, tree, val, status>>
  BY DEF Comma, Doing, Me, Go, Rest
<1>2. /\ status = "parsing" /\ Sound(Me, Rest) /\ Ready(tree, Rest) /\ Rest \in Seq(TaskT)
      /\ {curToken, curToken + 1} \subseteq 0 .. Len(tokens) + MaxBeyond + 2
      /\ NextDo(agenda) = "Comma" /\ HeldBy(Rest) \subseteq HeldBy(agenda)
      /\ Going(curToken, parserError, tree, val, agenda)
  BY <1>1, Start
<1>3. agenda' = Rest
  BY <1>1, <1>2
<1>4. NextDo(Rest) = "Link" /\ NextOp(Rest) = "Par"
  BY <1>1, <1>2 DEF Sound, Follows
<1>5. parserError => Blocked(Rest)
  BY <1>1, StillBlocked DEF Blockers
<1>6. val # Null /\ Hot(agenda)
  BY <1>2 DEF Going, Why, Hot
<1>7. val \in Free(tree.nodes) \ HeldBy(Rest)
  BY <1>2, <1>6 DEF Going, Placed
<1>8. Rest # <<>>
  BY <1>4 DEF NextDo
<1>9. Going(curToken', parserError, tree, val, Rest)
  BY <1>2, <1>4, <1>5, <1>6, <1>7, <1>8 DEF Going, Placed, Why, Pending, ErrorSeen
<1>10. Shape(curToken', parserError, tree, val)
  BY <1>1, <1>2 DEF ParserInv, Shape
<1>. QED BY <1>1, <1>2, <1>3, <1>9, <1>10, GoesOn

(* A loop returns its list, which is empty only after a brace or a         *)
(* semicolon.                                                              *)
LEMMA EndOfListKeeps ==
  ASSUME ParserInv, EndOfList
  PROVE  ParserInv'
<1>1. /\ Running /\ agenda # <<>> /\ Me.do = "Loop"
      /\ \/ Me.op = "Par"
         \/ Me.op = "A" /\ This.kw = "RSB"
      /\ agenda' = <<>> \o Rest /\ val' = Me.n
      /\ UNCHANGED <<input, curToken, parserError, tree, status>>
  <2>1. <<Me.op, This.kw>> \in {<<"Par", "RB">>, <<"A", "RSB">>}
    BY DEF EndOfList, Me
  <2>2. Me.op = "Par" \/ (Me.op = "A" /\ This.kw = "RSB")
    BY <2>1
  <2>. QED BY <2>2 DEF EndOfList, Doing, Me, Go, Rest
<1>2. /\ status = "parsing" /\ Sound(Me, Rest) /\ Ready(tree, Rest) /\ Rest \in Seq(TaskT)
      /\ NextDo(agenda) = "Loop" /\ NextOp(agenda) = Me.op /\ Me.n \in 0 .. Len(tree.nodes)
      /\ HeldBy(agenda) = Held(Me) \cup HeldBy(Rest) /\ HeldBy(agenda) \subseteq Free(tree.nodes)
      /\ Going(curToken, parserError, tree, val, agenda)
  BY <1>1, Start
<1>3. agenda' = Rest
  BY <1>1, <1>2
<1>4. /\ Me.op = "Par" => NextDo(Rest) = "AdoptAny"
      /\ Me.op = "A" => NextDo(Rest) \in Adopts
      /\ Held(Me) = {Me.n} \ {Null} /\ Held(Me) \cap HeldBy(Rest) = {}
  BY <1>1, <1>2 DEF Sound, Follows, Held, Holders
<1>5. NextDo(Rest) \in Adopts
  BY <1>1, <1>4 DEF Adopts
<1>6. Blocked(Rest) /\ Rest # <<>>
  BY <1>2, <1>5, Blocks DEF Blockers, Adopts, NextDo
<1>7. Placed(tree, Me.n, Rest)
  BY <1>2, <1>4 DEF Placed
<1>8. ~RequireThen(Rest, Warm) /\ NextDo(Rest) # "Loop" /\ NextDo(Rest) # "Require"
      /\ NextDo(Rest) # "Comma"
  BY <1>5 DEF RequireThen, Adopts
<1>9. Why(curToken, Me.n, Rest)
  <2>1. NextDo(Rest) = "Adopt" => Me.op = "A" /\ This.kw = "RSB"
    BY <1>1, <1>4
  <2>2. Me.op = "A" /\ Me.n = Null => BraceBefore(curToken) \/ SemicolonBefore(curToken)
    BY <1>2 DEF Going, Why, Me
  <2>3. NextDo(Rest) = "Adopt" /\ Me.n = Null => SemicolonBefore(curToken) \/ EmptyAt(curToken)
    BY <2>1, <2>2 DEF EmptyAt, This
  <2>. QED BY <1>5, <1>8, <2>3 DEF Why, Adopts
<1>10. Going(curToken, parserError, tree, Me.n, Rest)
  BY <1>2, <1>6, <1>7, <1>8, <1>9 DEF Going, Pending, ErrorSeen
<1>11. Shape(curToken, parserError, tree, Me.n)
  BY <1>2 DEF ParserInv, Shape
<1>. QED BY <1>1, <1>2, <1>3, <1>10, <1>11, GoesOn

(* IS_PARSER_ERROR finds none: the node goes on to the next task.          *)
LEMMA NoErrorHereKeeps ==
  ASSUME ParserInv, NoErrorHere
  PROVE  ParserInv'
<1>1. /\ Running /\ agenda # <<>> /\ Me.do = "Check" /\ ~parserError
      /\ agenda' = <<>> \o Rest
      /\ UNCHANGED <<input, curToken, parserError, tree, val, status>>
  BY DEF NoErrorHere, After, Doing, Me, Go, Rest
<1>2. /\ status = "parsing" /\ Sound(Me, Rest) /\ Ready(tree, Rest) /\ Rest \in Seq(TaskT)
      /\ NextDo(agenda) = "Check" /\ HeldBy(Rest) \subseteq HeldBy(agenda)
      /\ Going(curToken, parserError, tree, val, agenda)
  BY <1>1, Start
<1>3. agenda' = Rest
  BY <1>1, <1>2
<1>4. \/ NextDo(Rest) \in Warm
      \/ RequireThen(Rest, {"Operators", "Combine"}) /\ NextOp(Rest) = "RB"
  BY <1>1, <1>2 DEF Sound, Follows
<1>5. Rest # <<>> /\ NextDo(Rest) \notin {"Loop", "Comma", "Adopt"}
  BY <1>4 DEF NextDo, RequireThen, Warm
<1>6. Placed(tree, val, Rest)
  <2>1. Hot(agenda)
    BY <1>2 DEF Hot
  <2>. QED BY <1>2, <2>1 DEF Placed, Going
<1>7. Why(curToken, val, Rest)
  <2>1. val = Null => SemicolonBefore(curToken)
    BY <1>2 DEF Going, Why
  <2>2. RequireThen(Rest, Warm) => NextOp(Rest) = "RB"
    BY <1>4 DEF RequireThen, Warm
  <2>. QED BY <1>5, <2>1, <2>2 DEF Why
<1>8. Pending(tree, val, Rest)
  <2>. SUFFICES ASSUME NextDo(Rest) = "Require", Len(Rest) = 2 PROVE FALSE
    BY DEF Pending
  <2>1. Agenda(Rest) /\ Second(Rest) \in {"Operators", "Combine"}
    BY <1>2, <1>4 DEF Ready, RequireThen, Warm
  <2>. QED BY <2>1, LastOfTwo
<1>9. Going(curToken, parserError, tree, val, Rest)
  BY <1>1, <1>2, <1>5, <1>6, <1>7, <1>8 DEF Going, ErrorSeen
<1>10. Shape(curToken, parserError, tree, val)
  BY DEF ParserInv
<1>. QED BY <1>1, <1>2, <1>3, <1>9, <1>10, GoesOn

(* An operator keeps its left operand while the right one is parsed;       *)
(* without one the operand is returned.                                    *)
LEMMA OperatorKeeps ==
  ASSUME ParserInv, Operator
  PROVE  ParserInv'
<1>1. /\ Running /\ agenda # <<>> /\ Me.do = "Operators" /\ ~parserError
      /\ \/ /\ This.kw \in OperatorsOf(Me.op) /\ curToken' = curToken + 1
            /\ agenda' = <<Get(Tighter[Me.op]), Task("Combine", val, Null, This.kw), Me>> \o Rest
         \/ agenda' = <<>> \o Rest /\ curToken' = curToken
      /\ UNCHANGED <<input, parserError, tree, val, status>>
  BY DEF Operator, After, Doing, Me, Go, Rest, Eat
<1>2. /\ status = "parsing" /\ Sound(Me, Rest) /\ Ready(tree, Rest) /\ Rest \in Seq(TaskT)
      /\ Ready(tree, agenda) /\ agenda = Cons(Me, Rest) /\ Me \in TaskT /\ val \in 0 .. Len(tree.nodes)
      /\ NextDo(agenda) = "Operators" /\ HeldBy(Rest) \subseteq HeldBy(agenda) /\ SoundTree(tree)
      /\ {curToken, curToken + 1} \subseteq 0 .. Len(tokens) + MaxBeyond + 2
      /\ Going(curToken, parserError, tree, val, agenda)
  BY <1>1, Start
<1>3. Len(tree.nodes) \in Nat /\ val \in Nat
  BY <1>2, NodesOf
<1>4. /\ Me.op \in Levels
      /\ Me.op = "Bool" => NextDo(Rest) \in {"Adopt", "Check", "Value"}
      /\ Me.op # "Bool" => NextDo(Rest) \in {"Operators", "Combine"}
  BY <1>1, <1>2 DEF Sound, Follows, Levels
<1>5. Hot(agenda)
  BY <1>2 DEF Hot
<1>6. val = Null \/ val \in Free(tree.nodes) \ HeldBy(agenda)
  BY <1>2, <1>5 DEF Going, Placed
<1>7. Shape(curToken', parserError, tree, val)
  BY <1>1, <1>2 DEF ParserInv, Shape
<1>8. CASE agenda' = <<>> \o Rest /\ curToken' = curToken
  <2>1. agenda' = Rest
    BY <1>2, <1>8
  <2>2. NextDo(Rest) \in {"Adopt", "Check", "Value", "Operators", "Combine"}
    BY <1>4
  <2>3. Rest # <<>> /\ ~RequireThen(Rest, Warm)
    BY <2>2 DEF NextDo, RequireThen
  <2>4. val = Null => SemicolonBefore(curToken)
    BY <1>2 DEF Going, Why
  <2>5. Why(curToken, val, Rest)
    BY <2>2, <2>3, <2>4 DEF Why
  <2>6. Placed(tree, val, Rest)
    BY <1>2, <1>6 DEF Placed
  <2>7. Going(curToken', parserError, tree, val, Rest)
    BY <1>1, <1>2, <1>8, <2>2, <2>3, <2>5, <2>6 DEF Going, Pending, ErrorSeen
  <2>. QED BY <1>1, <1>2, <1>7, <2>1, <2>7, GoesOn
<1>9. CASE /\ This.kw \in OperatorsOf(Me.op) /\ curToken' = curToken + 1
           /\ agenda' = <<Get(Tighter[Me.op]), Task("Combine", val, Null, This.kw), Me>> \o Rest
  <2>. DEFINE tighter == Tighter[Me.op]
              kw == This.kw
              a2 == Cons(Task("Combine", val, Null, kw), agenda)
              a3 == Cons(Get(tighter), a2)
  <2>1. tighter \in {"E", "T", "Pow", "P"} /\ kw \in Kinds
    BY <1>4, <1>9 DEF Levels, Tighter, Kinds
  <2>. HIDE DEF tighter, kw
  <2>2. agenda' = a3
    <3>. DEFINE b1 == Get(tighter)
                b2 == Task("Combine", val, Null, kw)
                x == Me
    <3>1. b1 \in TaskT /\ b2 \in TaskT /\ x \in TaskT
      BY <1>2, <1>3, <2>1 DEF Get, Task, TaskT, Dos, Ops, Null
    <3>2. agenda' = <<b1, b2, x>> \o Rest
      BY <1>9 DEF tighter, kw
    <3>. HIDE DEF b1, b2, x
    <3>3. Rest \in Seq(TaskT)
      BY <1>2
    <3>4. <<b1, b2, x>> \o Rest = Cons(b1, Cons(b2, Cons(x, Rest)))
      BY <3>1, <3>3, GoThree
    <3>. QED BY <1>2, <3>2, <3>4 DEF b1, b2, x
  <2>3. On(tree, a2, "Combine", kw, agenda, {val} \ {Null}, {})
    BY <1>2, <1>3, <1>6, <2>1, PushCombine
  <2>. HIDE DEF a2
  <2>4. On(tree, a3, "Get", tighter, a2, {}, {})
    <3>1. Ready(tree, a2) /\ NextDo(a2) = "Combine"
      BY <2>3 DEF On
    <3>. QED BY <1>3, <2>1, <3>1, PushGet
  <2>. HIDE DEF a3
  <2>5. Going(curToken', parserError, tree, val, a3)
    BY <1>1, <2>4, Cooled DEF On, Cool
  <2>. QED BY <1>1, <1>2, <1>7, <2>2, <2>5, GoesOn
<1>. QED BY <1>1, <1>8, <1>9

(* Require takes its token or notes an error, which a task to come asks    *)
(* for, but for the semicolon of a global variable.                        *)
LEMMA RequireTokenKeeps ==
  ASSUME ParserInv, RequireToken
  PROVE  ParserInv'
<1>1. /\ Running /\ agenda # <<>> /\ Me.do = "Require"
      /\ agenda' = <<>> \o Rest
      /\ \/ This.kw = Me.op /\ curToken' = curToken + 1 /\ parserError' = parserError
         \/ This.kw # Me.op /\ curToken' = curToken /\ parserError' = TRUE
      /\ UNCHANGED <<input, tree, val, status>>
  BY DEF RequireToken, Doing, Me, Go, Rest, Eat
<1>2. /\ status = "parsing" /\ Sound(Me, Rest) /\ Ready(tree, Rest) /\ Rest \in Seq(TaskT)
      /\ NextDo(agenda) = "Require" /\ NextOp(agenda) = Me.op /\ Second(agenda) = NextDo(Rest)
      /\ HeldBy(Rest) \subseteq HeldBy(agenda) /\ Len(agenda) = Len(Rest) + 1
      /\ {curToken, curToken + 1} \subseteq 0 .. Len(tokens) + MaxBeyond + 2
      /\ parserError \in BOOLEAN /\ curToken \in Nat
      /\ Going(curToken, parserError, tree, val, agenda)
  BY <1>1, Start
<1>3. agenda' = Rest
  BY <1>1, <1>2
<1>4. /\ NextDo(Rest) \in Cold \cup Warm
      /\ Blocked(Rest) \/ (Len(Rest) = 1 /\ Me.op = "SEMICOLON")
  BY <1>1, <1>2 DEF Sound, Follows
<1>5. parserError => Blocked(Rest)
  BY <1>1, StillBlocked DEF Blockers
<1>6. Shape(curToken', parserError', tree, val)
  BY <1>1, <1>2 DEF ParserInv, Shape
<1>7. Rest # <<>> /\ NextDo(Rest) \notin {"Loop", "Comma", "Adopt", "Require", "AdoptAny", "Value"}
  BY <1>4 DEF NextDo, Cold, Warm
<1>8. ~RequireThen(Rest, Warm)
  BY <1>7 DEF RequireThen
<1>9. Len(Rest) = 1 => NextDo(Rest) = "Link" /\ Global(val, tree.nodes)
  <2>. SUFFICES ASSUME Len(Rest) = 1 PROVE NextDo(Rest) = "Link" /\ Global(val, tree.nodes)
    OBVIOUS
  <2>1. NextDo(Rest) = "Link"
    BY <1>2, <1>7, LastTask DEF Ready
  <2>2. Len(agenda) = 2
    BY <1>2
  <2>. QED BY <1>2, <2>1, <2>2 DEF Going, Pending
<1>10. ErrorSeen(curToken', parserError', tree, val, Rest)
  BY <1>1, <1>4, <1>5, <1>9 DEF ErrorSeen, This
<1>11. Hot(Rest) => NextDo(Rest) \in Warm
  BY <1>7, <1>8 DEF Hot, Warm
<1>12. NextDo(Rest) \in Warm => Hot(agenda) /\ RequireThen(agenda, Warm)
  BY <1>2 DEF Hot, RequireThen
<1>13. Placed(tree, val, Rest)
  BY <1>2, <1>11, <1>12 DEF Placed, Going
<1>14. Why(curToken', val, Rest)
  <2>. SUFFICES ASSUME val = Null, NextDo(Rest) \in Warm PROVE SemicolonBefore(curToken')
    BY <1>7, <1>8 DEF Why, Warm
  <2>1. SemicolonBefore(curToken) /\ Me.op = "RB"
    BY <1>2, <1>12 DEF Going, Why
  <2>2. PICK i \in 0 .. curToken - 1 :
          Cell(i).kw = "SEMICOLON" /\ \A j \in i + 1 .. curToken - 1 : Cell(j).kw = "RB"
    BY <2>1 DEF SemicolonBefore
  <2>3. CASE curToken' = curToken
    BY <2>1, <2>3
  <2>4. CASE curToken' = curToken + 1 /\ This.kw = "RB"
    <3>1. i \in 0 .. (curToken + 1) - 1
      BY <1>2
    <3>2. \A j \in i + 1 .. (curToken + 1) - 1 : Cell(j).kw = "RB"
      <4>. TAKE j \in i + 1 .. (curToken + 1) - 1
      <4>1. j = curToken \/ j \in i + 1 .. curToken - 1
        BY <1>2
      <4>. QED BY <2>2, <2>4, <4>1 DEF This
    <3>. QED BY <2>2, <2>4, <3>1, <3>2 DEF SemicolonBefore
  <2>. QED BY <1>1, <2>1, <2>3, <2>4
<1>15. Going(curToken', parserError', tree, val, Rest)
  BY <1>2, <1>7, <1>10, <1>13, <1>14 DEF Going, Pending
<1>. QED BY <1>1, <1>2, <1>3, <1>6, <1>15, GoesOn

-----------------------------------------------------------------------------
(* With nothing left to do there is nothing to fit.                        *)
LEMMA NothingLeft ==
  ASSUME NEW nodes
  PROVE  Fits(<<>>, nodes)
<1>1. DOMAIN <<>> = {}
  OBVIOUS
<1>2. HeldBy(<<>>) = {}
  BY <1>1 DEF HeldBy
<1>. QED BY <1>1, <1>2 DEF Fits

(* The root is set and the nodes stay.                                     *)
LEMMA Rooted ==
  ASSUME SoundTree(tree), NEW n \in 0 .. Len(tree.nodes), tree' = [tree EXCEPT !.root = n]
  PROVE  SoundTree(tree') /\ tree'.nodes = tree.nodes /\ tree'.root = n
<1>1. tree \in TreeT /\ Tied(tree.nodes) /\ Len(tree.nodes) \in Nat
  BY NodesOf
<1>2. n \in Nat
  BY <1>1
<1>3. tree' \in TreeT /\ tree'.nodes = tree.nodes /\ tree'.root = n
  BY <1>1, <1>2 DEF TreeT
<1>. QED BY <1>1, <1>3 DEF SoundTree

(* The end of the program leaves what was linked as the tree.              *)
LEMMA EndOfProgramKeeps ==
  ASSUME ParserInv, EndOfProgram
  PROVE  ParserInv'
<1>1. /\ Running /\ agenda # <<>> /\ Me.do = "Loop" /\ Me.op = "G"
      /\ tree' = [tree EXCEPT !.root = Me.n] /\ status' = "done"
      /\ agenda' = <<>> \o Rest
      /\ UNCHANGED <<input, curToken, parserError, val>>
  BY DEF EndOfProgram, Looping, Doing, Me, Go, Rest
<1>2. /\ Sound(Me, Rest) /\ Rest \in Seq(TaskT) /\ SoundTree(tree) /\ Me.n \in 0 .. Len(tree.nodes)
      /\ HeldBy(agenda) = Held(Me) \cup HeldBy(Rest) /\ HeldBy(agenda) \subseteq Free(tree.nodes)
      /\ NextDo(agenda) = "Loop"
      /\ Blocked(agenda) <=> Me.do \in Blockers \/ Blocked(Rest)
      /\ Going(curToken, parserError, tree, val, agenda)
  BY <1>1, Start
<1>3. Rest = <<>>
  BY <1>1, <1>2 DEF Sound, Follows
<1>4. agenda' = <<>> /\ ~Blocked(<<>>)
  BY <1>1, <1>3 DEF Blocked
<1>5. SoundTree(tree') /\ tree'.nodes = tree.nodes /\ tree'.root = Me.n
  BY <1>1, <1>2, Rooted
<1>6. parserError => Global(Me.n, tree.nodes) /\ This.kw # "SEMICOLON"
  <2>1. ErrorSeen(curToken, parserError, tree, val, agenda)
    BY <1>2 DEF Going
  <2>. QED BY <1>1, <1>2, <1>3, <1>4, <2>1 DEF ErrorSeen, Blockers, Me, This
<1>7. Me.n # Null => Me.n \in DOMAIN tree.nodes
  BY <1>1, <1>2 DEF Held, Holders, Free
<1>8. /\ tokens' = tokens /\ beyond' = beyond /\ curToken' = curToken
      /\ parserError' = parserError /\ val' = val
  BY <1>1 DEF input
<1>9. Finished'
  BY <1>5, <1>6, <1>7, <1>8 DEF Finished, This, Cell
<1>10. Shape(curToken, parserError, tree, val)'
  BY <1>5, <1>8 DEF ParserInv, Shape
<1>11. Fits(agenda, tree.nodes)'
  BY <1>4, NothingLeft
<1>. QED BY <1>1, <1>8, <1>9, <1>10, <1>11 DEF ParserInv

(* An error that is asked for leaves no tree.                              *)
LEMMA UnwindKeeps ==
  ASSUME ParserInv, Unwind
  PROVE  ParserInv'
<1>1. /\ tree' = [tree EXCEPT !.root = Null] /\ status' = "done" /\ agenda' = <<>>
      /\ tokens' = tokens /\ beyond' = beyond /\ curToken' = curToken
      /\ parserError' = parserError /\ val' = val
  BY DEF Unwind, input
<1>2. SoundTree(tree) /\ Null \in 0 .. Len(tree.nodes)
  <2>1. SoundTree(tree)
    BY DEF ParserInv, Shape
  <2>2. Len(tree.nodes) \in Nat
    BY <2>1, NodesOf
  <2>. QED BY <2>1, <2>2 DEF Null
<1>3. SoundTree(tree') /\ tree'.nodes = tree.nodes /\ tree'.root = Null
  BY <1>1, <1>2, Rooted
<1>4. Finished'
  BY <1>3 DEF Finished
<1>5. Shape(curToken, parserError, tree, val)'
  BY <1>1, <1>3 DEF ParserInv, Shape
<1>6. Fits(agenda, tree.nodes)'
  BY <1>1, NothingLeft
<1>. QED BY <1>1, <1>4, <1>5, <1>6 DEF ParserInv

(* A parser that has left the memory leaves everything.                    *)
LEMMA LeaveMemoryKeeps ==
  ASSUME ParserInv, LeaveMemory
  PROVE  ParserInv'
<1>1. /\ status' = "undefined" /\ agenda' = agenda /\ tree' = tree
      /\ tokens' = tokens /\ beyond' = beyond /\ curToken' = curToken
      /\ parserError' = parserError /\ val' = val
  BY DEF LeaveMemory, input
<1>. QED BY <1>1 DEF ParserInv, Shape

(* A call returns the node it has made.                                    *)
LEMMA Returned ==
  ASSUME ParserInv, Running, agenda # <<>>, NEW c \in {curToken, curToken + 1, curToken + 2},
         NEW t, SoundTree(t), Ready(t, Rest), NEW v \in Free(t.nodes), v \notin HeldBy(Rest),
         NextDo(Rest) \in {"Operators", "Combine"} \/ Me.do = "Finish",
         Me.do \in {"Get", "Finish", "Combine"},
         Me.do = "Combine" => ~parserError,
         NextDo(Rest) = "Require" /\ Len(Rest) = 2 => Global(v, t.nodes),
         UNCHANGED <<input, parserError, status>>,
         curToken' = c, tree' = t, val' = v, agenda' = <<>> \o Rest
  PROVE  ParserInv'
<1>1. /\ status = "parsing" /\ Sound(Me, Rest) /\ Rest \in Seq(TaskT)
      /\ {curToken, curToken + 1, curToken + 2} \subseteq 0 .. Len(tokens) + MaxBeyond + 2
  BY Start
<1>2. agenda' = Rest
  BY <1>1
<1>3. DOMAIN t.nodes = 1 .. Len(t.nodes) /\ Len(t.nodes) \in Nat
  BY NodesOf
<1>4. v \in 0 .. Len(t.nodes) /\ v # Null
  BY <1>3 DEF Free, Null
<1>5. NextDo(Rest) \in {"Operators", "Combine", "Check", "Comma", "Require"}
  BY <1>1 DEF Sound, Follows, RequireThen
<1>6. Rest # <<>>
  BY <1>5 DEF NextDo
<1>7. parserError => Blocked(Rest)
  <2>1. CASE Me.do = "Combine"
    BY <2>1
  <2>2. CASE Me.do # "Combine"
    <3>1. Me.do \notin Blockers \cup {"Loop", "Link"}
      BY <2>2 DEF Blockers
    <3>. QED BY <3>1, StillBlocked
  <2>. QED BY <2>1, <2>2
<1>8. Going(c, parserError, t, v, Rest)
  BY <1>4, <1>5, <1>6, <1>7 DEF Going, Placed, Why, Pending, ErrorSeen
<1>9. Shape(c, parserError, t, v)
  BY <1>1, <1>4 DEF ParserInv, Shape
<1>. QED BY <1>1, <1>2, <1>8, <1>9, GoesOn

(* The node a constructor has just made is free and no task's.             *)
LEMMA NewIsFree ==
  ASSUME NEW t, SoundTree(t), NEW a, Ready(t, a), NEW u, NEW left, NEW right,
         Constructed(t, u, left, right)
  PROVE  NewNode(t) \in Free(u.nodes) /\ NewNode(t) \notin HeldBy(a) /\ SoundTree(u)
<1>1. Grown(t, u, 1) /\ u.nodes[NewNode(t)].parent = Null
  BY DEF Constructed
<1>2. /\ SoundTree(u) /\ NewNode(t) \in DOMAIN u.nodes /\ ~(NewNode(t) <= Len(t.nodes))
  <2>1. /\ SoundTree(u) /\ DOMAIN u.nodes = 1 .. Len(t.nodes) + 1
        /\ NewNode(t) = Len(t.nodes) + 1 /\ Len(t.nodes) \in Nat
    BY <1>1, GrownIs
  <2>. QED BY <2>1
<1>3. NewNode(t) \notin HeldBy(a)
  BY <1>2, HeldIn
<1>. QED BY <1>1, <1>2, <1>3 DEF Free

(* No task keeps a null pointer.                                           *)
LEMMA NullHeldByNone ==
  ASSUME NEW t, SoundTree(t), NEW a, Ready(t, a)
  PROVE  Null \notin HeldBy(a)
<1>1. DOMAIN t.nodes = 1 .. Len(t.nodes) /\ Len(t.nodes) \in Nat
  BY NodesOf
<1>. QED BY <1>1, HeldIn DEF Null

(* A number becomes a node.                                                *)
LEMMA NumberKeeps ==
  ASSUME ParserInv, Number
  PROVE  ParserInv'
<1>1. /\ Running /\ agenda # <<>> /\ Me.do = "Get" /\ Me.op = "P"
      /\ tree' = NodeCtor(tree, Null, Null, "CONST", This.value, "")
      /\ val' = NewNode(tree) /\ curToken' = curToken + 1 /\ agenda' = <<>> \o Rest
      /\ UNCHANGED <<input, parserError, status>>
  BY DEF Number, Getting, Doing, Me, Go, Rest, Eat
<1>2. /\ Sound(Me, Rest) /\ Ready(tree, Rest) /\ SoundTree(tree) /\ This \in Cells
  BY <1>1, Start
<1>3. NextDo(Rest) \in {"Operators", "Combine"}
  BY <1>1, <1>2 DEF Sound, Follows
<1>4. Constructed(tree, tree', Null, Null)
  <2>1. "CONST" \in Kinds /\ This.value \in Values /\ "" \in Strs
    BY <1>2 DEF Kinds, Values, Strs
  <2>. QED BY <1>1, <1>2, <2>1, NodeCtorSound
<1>5. Ready(tree', Rest)
  <2>1. Null \notin HeldBy(Rest)
    BY <1>2, NullHeldByNone
  <2>. QED BY <1>2, <1>4, <2>1, CtorSpares
<1>6. NewNode(tree) \in Free(tree'.nodes) /\ NewNode(tree) \notin HeldBy(Rest) /\ SoundTree(tree')
  BY <1>2, <1>4, NewIsFree
<1>. QED BY <1>1, <1>3, <1>5, <1>6, Returned

(* An operation is put above its operands, either of which may be missing. *)
LEMMA CombineKeeps ==
  ASSUME ParserInv, Combine
  PROVE  ParserInv'
<1>1. /\ Running /\ agenda # <<>> /\ Me.do = "Combine" /\ ~parserError
      /\ tree' = NodeCtor(tree, Me.n, val, Me.op, NO_VALUE, "")
      /\ val' = NewNode(tree) /\ curToken' = curToken /\ agenda' = <<>> \o Rest
      /\ UNCHANGED <<input, parserError, status>>
  BY DEF Combine, After, Doing, Me, Go, Rest
<1>2. /\ Sound(Me, Rest) /\ Ready(tree, Rest) /\ SoundTree(tree) /\ NextDo(agenda) = "Combine"
      /\ HeldBy(agenda) = Held(Me) \cup HeldBy(Rest) /\ HeldBy(agenda) \subseteq Free(tree.nodes)
      /\ Going(curToken, parserError, tree, val, agenda)
  BY <1>1, Start
<1>3. /\ NextDo(Rest) = "Operators" /\ Me.op \in Kinds /\ Held(Me) = {Me.n} \ {Null}
      /\ Held(Me) \cap HeldBy(Rest) = {}
  BY <1>1, <1>2 DEF Sound, Follows, Held, Holders
<1>4. val # Null => val \in Free(tree.nodes) \ HeldBy(agenda)
  BY <1>2 DEF Going, Placed, Hot
<1>5. /\ Me.n \in Free(tree.nodes) \cup {Null} /\ val \in Free(tree.nodes) \cup {Null}
      /\ Me.n # Null => Me.n # val
  BY <1>2, <1>3, <1>4
<1>6. Constructed(tree, tree', Me.n, val)
  <2>1. NO_VALUE \in Values /\ "" \in Strs
    BY DEF Values, Strs
  <2>. QED BY <1>1, <1>2, <1>3, <1>5, <2>1, NodeCtorSound
<1>7. Ready(tree', Rest)
  <2>1. Null \notin HeldBy(Rest)
    BY <1>2, NullHeldByNone
  <2>2. Me.n \notin HeldBy(Rest) /\ val \notin HeldBy(Rest)
    BY <1>2, <1>3, <1>4, <2>1
  <2>. QED BY <1>2, <1>6, <2>2, CtorSpares
<1>8. NewNode(tree) \in Free(tree'.nodes) /\ NewNode(tree) \notin HeldBy(Rest) /\ SoundTree(tree')
  BY <1>2, <1>6, NewIsFree
<1>. QED BY <1>1, <1>3, <1>7, <1>8, Returned

(* A name becomes a node, a semicolon none.                                *)
LEMMA IdentifierKeeps ==
  ASSUME ParserInv, Identifier
  PROVE  ParserInv'
<1>1. /\ Running /\ agenda # <<>> /\ Me.do = "Get" /\ Me.op = "P"
      /\ \/ This.kw = "SEMICOLON" /\ val' = Null /\ tree' = tree
         \/ tree' = Variable(tree, This) /\ val' = NewNode(tree)
      /\ curToken' = curToken + 1 /\ agenda' = <<>> \o Rest
      /\ UNCHANGED <<input, parserError, status>>
  BY DEF Identifier, Getting, Doing, Me, Go, Rest, Eat
<1>2. /\ Sound(Me, Rest) /\ Ready(tree, Rest) /\ SoundTree(tree) /\ This \in Cells
      /\ status = "parsing" /\ Rest \in Seq(TaskT) /\ curToken \in Nat
      /\ curToken + 1 \in 0 .. Len(tokens) + MaxBeyond + 2
  BY <1>1, Start
<1>3. NextDo(Rest) \in {"Operators", "Combine"}
  BY <1>1, <1>2 DEF Sound, Follows
<1>4. CASE tree' = Variable(tree, This) /\ val' = NewNode(tree)
  <2>1. Constructed(tree, tree', Null, Null)
    BY <1>2, <1>4, VariableSound
  <2>2. Ready(tree', Rest)
    <3>1. Null \notin HeldBy(Rest)
      BY <1>2, NullHeldByNone
    <3>. QED BY <1>2, <2>1, <3>1, CtorSpares
  <2>3. NewNode(tree) \in Free(tree'.nodes) /\ NewNode(tree) \notin HeldBy(Rest) /\ SoundTree(tree')
    BY <1>2, <2>1, NewIsFree
  <2>. QED BY <1>1, <1>3, <1>4, <2>2, <2>3, Returned
<1>5. CASE This.kw = "SEMICOLON" /\ val' = Null /\ tree' = tree
  <2>1. agenda' = Rest
    BY <1>1, <1>2
  <2>2. SemicolonBefore(curToken + 1)
    <3>1. /\ curToken \in 0 .. (curToken + 1) - 1
          /\ \A j \in curToken + 1 .. (curToken + 1) - 1 : Cell(j).kw = "RB"
      BY <1>2
    <3>. QED BY <1>5, <3>1 DEF SemicolonBefore, This
  <2>3. parserError => Blocked(Rest)
    BY <1>2, <1>3, Blocks DEF Blockers
  <2>4. Rest # <<>> /\ ~RequireThen(Rest, Warm)
    BY <1>3 DEF NextDo, RequireThen
  <2>5. Blocked(Rest)
    BY <1>2, <1>3, Blocks DEF Blockers
  <2>6. Going(curToken + 1, parserError, tree, Null, Rest)
    BY <1>2, <1>3, <2>2, <2>4, <2>5 DEF Going, Placed, Why, Pending, ErrorSeen
  <2>7. Shape(curToken + 1, parserError, tree, Null)
    <3>1. Null \in 0 .. Len(tree.nodes)
      <4>1. Len(tree.nodes) \in Nat
        BY <1>2, NodesOf
      <4>. QED BY <4>1 DEF Null
    <3>. QED BY <1>2, <3>1 DEF ParserInv, Shape
  <2>. QED BY <1>1, <1>2, <1>5, <2>1, <2>6, <2>7, GoesOn
<1>. QED BY <1>1, <1>4, <1>5

(* A node that is finished is returned.                                    *)
LEMMA FinishNodeKeeps ==
  ASSUME ParserInv, FinishNode
  PROVE  ParserInv'
<1>1. /\ Running /\ agenda # <<>> /\ Me.do = "Finish"
      /\ tree' = SetNodeType(tree, Me.n, Me.op)
      /\ val' = Me.n /\ curToken' = curToken /\ agenda' = <<>> \o Rest
      /\ UNCHANGED <<input, parserError, status>>
  BY DEF FinishNode, Doing, Me, Go, Rest
<1>2. /\ Sound(Me, Rest) /\ Ready(tree, Rest) /\ Ready(tree, agenda) /\ SoundTree(tree)
      /\ HeldBy(agenda) = Held(Me) \cup HeldBy(Rest) /\ HeldBy(agenda) \subseteq Free(tree.nodes)
      /\ agenda = Cons(Me, Rest) /\ Rest \in Seq(TaskT) /\ Me \in TaskT
  BY <1>1, Start
<1>3. /\ Me.op \in Kinds /\ Held(Me) = {Me.n} /\ Held(Me) \cap HeldBy(Rest) = {}
  BY <1>1, <1>2 DEF Sound, Follows, Held, Holders
<1>4. Me.n \in Free(tree.nodes) /\ Me.n \notin HeldBy(Rest) /\ Me.n \in DOMAIN tree.nodes
  BY <1>2, <1>3 DEF Free
<1>5. Retyped(tree, tree', Me.n, Me.op)
  BY <1>1, <1>2, <1>3, <1>4, TypeSound
<1>6. Ready(tree', Rest) /\ Ready(tree', agenda)
  BY <1>2, <1>4, <1>5, TypeSpares
<1>7. SoundTree(tree') /\ Me.n \in Free(tree'.nodes)
  <2>1. SoundTree(tree') /\ DOMAIN tree.nodes \subseteq DOMAIN tree'.nodes
    BY <1>2, <1>5, GrownIs DEF Retyped
  <2>. QED BY <1>4, <1>5, <2>1 DEF Retyped, Free
<1>8. NextDo(Rest) = "Require" /\ Len(Rest) = 2 => Global(Me.n, tree'.nodes)
  <2>. DEFINE x == Me
              r == Rest
  <2>1. x \in TaskT /\ r \in Seq(TaskT) /\ agenda = Cons(x, r) /\ x.do = "Finish"
    BY <1>1, <1>2
  <2>. HIDE DEF x, r
  <2>2. NextDo(r) = "Require" /\ Len(r) = 2 => x.n \in GlobalsOf(agenda)
    BY <2>1, GlobalsCons
  <2>3. NextDo(Rest) = "Require" /\ Len(Rest) = 2 => Me.n \in GlobalsOf(agenda)
    BY <2>2 DEF x, r
  <2>. QED BY <1>6, <2>3 DEF Ready, Safe
<1>. QED BY <1>1, <1>4, <1>6, <1>7, <1>8, Returned

-----------------------------------------------------------------------------
(* The nodes after one was hung: all that were free still are, but for     *)
(* that one.                                                               *)
LEMMA HungIs ==
  ASSUME NEW t, SoundTree(t), NEW u, NEW p, NEW side, NEW b, Hung(t, u, p, side, b)
  PROVE  SoundTree(u) /\ Len(u.nodes) = Len(t.nodes) /\ DOMAIN u.nodes = DOMAIN t.nodes
         /\ \A n \in Free(t.nodes) : n # b => n \in Free(u.nodes)
<1>1. Grown(t, u, 0) /\ 0 \in Nat
  BY DEF Hung
<1>2. /\ SoundTree(u) /\ DOMAIN t.nodes = 1 .. Len(t.nodes) /\ Len(u.nodes) = Len(t.nodes) + 0
      /\ DOMAIN u.nodes = 1 .. Len(t.nodes) + 0 /\ Len(t.nodes) \in Nat
  BY <1>1, GrownIs
<1>3. Len(u.nodes) = Len(t.nodes) /\ DOMAIN u.nodes = DOMAIN t.nodes
  BY <1>2
<1>. QED BY <1>2, <1>3 DEF Hung, Free

(* The returned node is hung; without one the parser crashes, after a      *)
(* semicolon or in an empty block, or there was no need for one.           *)
LEMMA AdoptNodeKeeps ==
  ASSUME ParserInv, AdoptNode
  PROVE  ParserInv'
<1>1. /\ Running /\ agenda # <<>> /\ Me.do \in Adopts /\ ~parserError
      /\ \/ /\ val # Null /\ tree' = Linked(tree, Me.n, Me.op, val) /\ agenda' = <<>> \o Rest
            /\ UNCHANGED <<input, curToken, parserError, val, status>>
         \/ val = Null /\ Me.do = "Adopt" /\ Crash
         \/ /\ val = Null /\ Me.do = "AdoptAny" /\ agenda' = <<>> \o Rest
            /\ UNCHANGED <<input, curToken, parserError, tree, val, status>>
  BY DEF AdoptNode, After, Doing, Me, Go, Rest, Adopts
<1>2. /\ Sound(Me, Rest) /\ Ready(tree, Rest) /\ SoundTree(tree) /\ Rest \in Seq(TaskT)
      /\ HeldBy(agenda) = Held(Me) \cup HeldBy(Rest) /\ NextDo(agenda) = Me.do
      /\ Me.n \in 0 .. Len(tree.nodes) /\ val \in 0 .. Len(tree.nodes) /\ curToken \in Nat
      /\ status = "parsing" /\ Going(curToken, parserError, tree, val, agenda)
  BY <1>1, Start
<1>3. /\ Me.n # Null /\ Me.op \in Sides /\ Me.n \notin StatementsOf(Rest)
      /\ NextDo(Rest) = "Finish" \/ RequireThen(Rest, Cold)
  BY <1>1, <1>2 DEF Sound, Follows, Targets
<1>4. DOMAIN tree.nodes = 1 .. Len(tree.nodes) /\ Len(tree.nodes) \in Nat
  BY <1>2, NodesOf
<1>5. Me.n \in DOMAIN tree.nodes
  BY <1>2, <1>3, <1>4 DEF Null
<1>6. /\ NextDo(Rest) \in {"Finish", "Require"} /\ Rest # <<>>
      /\ ~RequireThen(Rest, Warm) /\ ~(NextDo(Rest) = "Require" /\ Len(Rest) = 2)
  <2>1. NextDo(Rest) \in {"Finish", "Require"} /\ Rest # <<>> /\ ~RequireThen(Rest, Warm)
    BY <1>3 DEF RequireThen, NextDo, Cold, Warm
  <2>2. ~(NextDo(Rest) = "Require" /\ Len(Rest) = 2)
    <3>. SUFFICES ASSUME NextDo(Rest) = "Require", Len(Rest) = 2 PROVE FALSE
      OBVIOUS
    <3>1. Second(Rest) \in Cold /\ Agenda(Rest)
      BY <1>2, <1>3 DEF RequireThen, Ready
    <3>. QED BY <3>1, LastOfTwo DEF Cold
  <2>. QED BY <2>1, <2>2
<1>7. \A t : Ready(t, Rest) => Going(curToken, parserError, t, val, Rest)
  BY <1>1, <1>6 DEF Going, Placed, Why, Pending, ErrorSeen, Hot
<1>8. CASE /\ val # Null /\ tree' = Linked(tree, Me.n, Me.op, val) /\ agenda' = <<>> \o Rest
           /\ UNCHANGED <<input, curToken, parserError, val, status>>
  <2>1. val \in Free(tree.nodes) \ HeldBy(agenda)
    <3>1. Hot(agenda)
      BY <1>1, <1>2 DEF Hot, Adopts
    <3>. QED BY <1>2, <1>8, <3>1 DEF Going, Placed
  <2>2. Hung(tree, tree', Me.n, Me.op, val)
    BY <1>2, <1>3, <1>5, <1>8, <2>1, LinkedSound
  <2>3. Ready(tree', Rest)
    BY <1>2, <1>3, <2>1, <2>2, HungSpares
  <2>4. agenda' = Rest
    BY <1>2, <1>8
  <2>5. Shape(curToken, parserError, tree', val)
    <3>1. SoundTree(tree') /\ Len(tree'.nodes) = Len(tree.nodes)
      BY <1>2, <2>2, HungIs
    <3>. QED BY <1>2, <3>1 DEF ParserInv, Shape
  <2>. QED BY <1>2, <1>7, <1>8, <2>3, <2>4, <2>5, GoesOn
<1>9. CASE val = Null /\ Me.do = "Adopt" /\ Crash
  <2>1. SemicolonBefore(curToken) \/ EmptyAt(curToken)
    BY <1>2, <1>9 DEF Going, Why
  <2>2. SemicolonBefore(curToken) => SemicolonInstead
    <3>1. \A i \in 0 .. curToken - 1 : i \in 0 .. curToken
      BY <1>2
    <3>. QED BY <3>1 DEF SemicolonBefore, SemicolonInstead
  <2>3. EmptyAt(curToken) => EmptyBlock
    BY DEF EmptyAt, BraceBefore, EmptyBlock, This
  <2>. QED BY <1>2, <1>9, <2>1, <2>2, <2>3, Crashes
<1>10. CASE /\ val = Null /\ Me.do = "AdoptAny" /\ agenda' = <<>> \o Rest
            /\ UNCHANGED <<input, curToken, parserError, tree, val, status>>
  <2>1. agenda' = Rest
    BY <1>2, <1>10
  <2>2. Shape(curToken, parserError, tree, val)
    BY DEF ParserInv
  <2>. QED BY <1>2, <1>7, <1>10, <2>1, <2>2, GoesOn
<1>. QED BY <1>1, <1>8, <1>9, <1>10

(* The statements before hang below the new one: no node of theirs is kept *)
(* by another task.                                                        *)
LEMMA LinkStatementKeeps ==
  ASSUME ParserInv, LinkStatement
  PROVE  ParserInv'
<1>1. /\ Running /\ agenda # <<>> /\ Me.do = "Link"
      /\ \/ val = Null /\ agenda' = <<Loop(Me.op, Me.n)>> \o Rest /\ tree' = tree
         \/ /\ val # Null /\ agenda' = <<Loop(Me.op, val)>> \o Rest
            /\ tree' = LinkedBelow(val, Me.n)
      /\ UNCHANGED <<input, curToken, parserError, val, status>>
  BY DEF LinkStatement, Doing, Me, Go, Rest
<1>2. /\ Sound(Me, Rest) /\ Ready(tree, Rest) /\ SoundTree(tree) /\ Rest \in Seq(TaskT)
      /\ HeldBy(agenda) = Held(Me) \cup HeldBy(Rest) /\ HeldBy(agenda) \subseteq Free(tree.nodes)
      /\ NextDo(agenda) = Me.do /\ Len(agenda) = Len(Rest) + 1
      /\ Blocked(agenda) <=> Me.do \in Blockers \/ Blocked(Rest)
      /\ Me.n \in 0 .. Len(tree.nodes) /\ val \in 0 .. Len(tree.nodes)
      /\ status = "parsing" /\ Going(curToken, parserError, tree, val, agenda)
  BY <1>1, Start
<1>3. /\ Held(Me) = {Me.n} \ {Null} /\ Held(Me) \cap HeldBy(Rest) = {}
      /\ Me.op \in {"G", "Par", "A"}
      /\ Me.op = "G" => Rest = <<>>
      /\ Me.op = "Par" => NextDo(Rest) = "AdoptAny"
      /\ Me.op = "A" => NextDo(Rest) \in Adopts
  BY <1>1, <1>2 DEF Sound, Follows, Held, Holders
<1>. DEFINE op == Me.op
            x == IF val = Null THEN Me.n ELSE val
            b == Cons(Loop(op, x), Rest)
<1>4. DOMAIN tree.nodes = 1 .. Len(tree.nodes) /\ Len(tree.nodes) \in Nat /\ x \in Nat
  BY <1>2, NodesOf
<1>5. agenda' = b
  <2>1. Loop(op, x) \in TaskT
    BY <1>3, <1>4 DEF Loop, Task, TaskT, Dos, Ops, Null
  <2>2. agenda' = <<Loop(op, x)>> \o Rest
    BY <1>1
  <2>. HIDE DEF op, x
  <2>. QED BY <1>2, <2>1, <2>2, GoOne
<1>6. val # Null => val \in Free(tree.nodes) \ HeldBy(agenda)
  BY <1>1, <1>2 DEF Going, Placed, Hot
<1>7. /\ SoundTree(tree') /\ Len(tree'.nodes) = Len(tree.nodes) /\ Ready(tree', Rest)
      /\ x = Null \/ x \in Free(tree'.nodes) \ HeldBy(Rest)
      /\ \A n \in DOMAIN tree.nodes : /\ tree'.nodes[n].rightChild = tree.nodes[n].rightChild
                                     /\ tree'.nodes[n].nodeType = tree.nodes[n].nodeType
      /\ DOMAIN tree'.nodes = DOMAIN tree.nodes
  <2>1. CASE val = Null \/ Me.n = Null
    <3>1. tree' = tree
      BY <1>1, <2>1 DEF LinkedBelow
    <3>. QED BY <1>2, <1>3, <1>6, <3>1
  <2>2. CASE val # Null /\ Me.n # Null
    <3>1. tree' = Linked(tree, val, "leftChild", Me.n)
      BY <1>1, <2>2 DEF LinkedBelow
    <3>2. /\ Me.n \in Free(tree.nodes) /\ Me.n \notin HeldBy(Rest) /\ val # Me.n
          /\ val \in Free(tree.nodes) /\ val \in DOMAIN tree.nodes
      BY <1>2, <1>3, <1>6, <2>2 DEF Free
    <3>3. Hung(tree, tree', val, "leftChild", Me.n)
      BY <1>2, <3>1, <3>2, LinkedSound DEF Sides
    <3>4. Ready(tree', Rest)
      BY <1>2, <3>2, <3>3, HungSpares
    <3>5. /\ SoundTree(tree') /\ Len(tree'.nodes) = Len(tree.nodes)
          /\ DOMAIN tree'.nodes = DOMAIN tree.nodes
          /\ \A n \in Free(tree.nodes) : n # Me.n => n \in Free(tree'.nodes)
      BY <1>2, <3>3, HungIs
    <3>6. \A n \in DOMAIN tree.nodes : /\ tree'.nodes[n].rightChild = tree.nodes[n].rightChild
                                       /\ tree'.nodes[n].nodeType = tree.nodes[n].nodeType
      BY <3>3 DEF Hung
    <3>. QED BY <1>2, <1>6, <2>2, <3>2, <3>4, <3>5, <3>6
  <2>. QED BY <2>1, <2>2
<1>. HIDE DEF op, x
<1>8. On(tree', b, "Loop", op, Rest, {x} \ {Null}, {})
  BY <1>3, <1>4, <1>7, PushLoop DEF Loop, op
<1>9. /\ b # <<>> /\ Ready(tree', b) /\ NextDo(b) = "Loop" /\ NextOp(b) = op /\ Len(b) = Len(Rest) + 1
      /\ Blocked(b) <=> Blocked(Rest)
  BY <1>8 DEF On, Blockers
<1>10. Head(b).n = x
  <2>1. Loop(op, x) \in TaskT
    BY <1>3, <1>4 DEF op, Loop, Task, TaskT, Dos, Ops, Null
  <2>2. Head(b) = Loop(op, x)
    BY <1>2, <2>1, ConsIs
  <2>. QED BY <2>2 DEF Loop, Task
<1>11. Placed(tree', val, b) /\ Pending(tree', val, b)
  BY <1>9 DEF Placed, Pending, Hot, RequireThen
<1>12. Why(curToken, val, b)
  <2>1. x = Null => val = Null
    BY DEF x
  <2>2. val = Null => SemicolonBefore(curToken)
    BY <1>1, <1>2 DEF Going, Why
  <2>. QED BY <1>9, <1>10, <2>1, <2>2 DEF Why, RequireThen
<1>13. ErrorSeen(curToken, parserError, tree', val, b)
  <2>. SUFFICES ASSUME parserError, ~Blocked(Rest)
       PROVE  Len(b) = 1 /\ Cell(curToken).kw # "SEMICOLON" /\ Global(x, tree'.nodes)
    BY <1>9, <1>10 DEF ErrorSeen
  <2>1. Len(agenda) = 1 /\ Cell(curToken).kw # "SEMICOLON" /\ Global(val, tree.nodes)
    <3>1. ErrorSeen(curToken, parserError, tree, val, agenda)
      BY <1>2 DEF Going
    <3>. QED BY <1>1, <1>2, <3>1 DEF ErrorSeen, Blockers
  <2>2. val # Null
    BY <1>4, <2>1 DEF Global, Null
  <2>3. Global(val, tree'.nodes)
    BY <1>7, <2>1 DEF Global
  <2>. QED BY <1>2, <1>9, <2>1, <2>2, <2>3 DEF x
<1>14. Going(curToken, parserError, tree', val, b)
  BY <1>9, <1>11, <1>12, <1>13 DEF Going
<1>15. Shape(curToken, parserError, tree', val)
  BY <1>2, <1>7 DEF ParserInv, Shape
<1>. HIDE DEF b
<1>. QED BY <1>1, <1>2, <1>5, <1>14, <1>15, GoesOn

(* A return hangs its value or gives the semicolon back, which it has      *)
(* taken before.                                                           *)
LEMMA ReturnValueKeeps ==
  ASSUME ParserInv, ReturnValue
  PROVE  ParserInv'
<1>1. /\ Running /\ agenda # <<>> /\ Me.do = "Value" /\ ~parserError
      /\ agenda' = <<Finish(Me.n, "STATEMENT"), Require("SEMICOLON")>> \o Rest
      /\ \/ val # Null /\ tree' = Linked(tree, Me.m, "rightChild", val) /\ curToken' = curToken
         \/ val = Null /\ curToken' = curToken - 1 /\ tree' = tree
      /\ UNCHANGED <<input, parserError, val, status>>
  BY DEF ReturnValue, After, Doing, Me, Go, Rest
<1>2. /\ Sound(Me, Rest) /\ Ready(tree, Rest) /\ SoundTree(tree) /\ Rest \in Seq(TaskT)
      /\ HeldBy(agenda) = Held(Me) \cup HeldBy(Rest) /\ HeldBy(agenda) \subseteq Free(tree.nodes)
      /\ NextDo(agenda) = Me.do /\ Me.m \in 0 .. Len(tree.nodes) /\ val \in 0 .. Len(tree.nodes)
      /\ curToken \in Nat /\ curToken \in 0 .. Len(tokens) + MaxBeyond + 2
      /\ status = "parsing" /\ Going(curToken, parserError, tree, val, agenda)
  BY <1>1, Start
<1>3. /\ NextDo(Rest) = "Check" /\ Me.n # Null /\ Me.m # Null /\ Held(Me) = {Me.n}
      /\ Held(Me) \cap HeldBy(Rest) = {} /\ Me.m \notin StatementsOf(Rest)
  BY <1>1, <1>2 DEF Sound, Follows, Held, Holders, Targets, Branches, Adopts
<1>4. DOMAIN tree.nodes = 1 .. Len(tree.nodes) /\ Len(tree.nodes) \in Nat
  BY <1>2, NodesOf
<1>5. /\ Me.m \in DOMAIN tree.nodes /\ Me.n \in Free(tree.nodes) \ HeldBy(Rest)
      /\ Me.n \in DOMAIN tree.nodes
  BY <1>2, <1>3, <1>4 DEF Null, Free
<1>6. val # Null => val \in Free(tree.nodes) \ HeldBy(agenda)
  BY <1>1, <1>2 DEF Going, Placed, Hot
<1>. DEFINE n == Me.n
            a1 == Cons(Require("SEMICOLON"), Rest)
            a2 == Cons(Finish(n, "STATEMENT"), a1)
<1>7. agenda' = a2
  <2>. DEFINE b1 == Finish(n, "STATEMENT")
              b2 == Require("SEMICOLON")
  <2>1. b1 \in TaskT /\ b2 \in TaskT
    <3>1. n \in Nat
      BY <1>4, <1>5
    <3>. QED BY <3>1 DEF Finish, Require, Task, TaskT, Dos, Ops, Null
  <2>2. agenda' = <<b1, b2>> \o Rest
    BY <1>1
  <2>. HIDE DEF b1, b2
  <2>3. <<b1, b2>> \o Rest = Cons(b1, Cons(b2, Rest))
    BY <1>2, <2>1, GoTwo
  <2>. QED BY <2>2, <2>3 DEF b1, b2
<1>8. /\ SoundTree(tree') /\ Len(tree'.nodes) = Len(tree.nodes) /\ Ready(tree', Rest)
      /\ n \in Free(tree'.nodes) \ HeldBy(Rest)
  <2>1. CASE val = Null /\ tree' = tree
    BY <1>2, <1>5, <2>1
  <2>2. CASE val # Null /\ tree' = Linked(tree, Me.m, "rightChild", val)
    <3>1. Hung(tree, tree', Me.m, "rightChild", val)
      BY <1>2, <1>5, <1>6, <2>2, LinkedSound DEF Sides
    <3>2. Ready(tree', Rest)
      BY <1>2, <1>3, <1>6, <2>2, <3>1, HungSpares
    <3>3. /\ SoundTree(tree') /\ Len(tree'.nodes) = Len(tree.nodes)
          /\ \A i \in Free(tree.nodes) : i # val => i \in Free(tree'.nodes)
      BY <1>2, <3>1, HungIs
    <3>. QED BY <1>2, <1>3, <1>5, <1>6, <2>2, <3>2, <3>3
  <2>. QED BY <1>1, <2>1, <2>2
<1>. HIDE DEF n
<1>9. Blocked(Rest) /\ Len(tree'.nodes) \in Nat
  BY <1>2, <1>3, <1>4, <1>8, Blocks DEF Blockers
<1>10. On(tree', a1, "Require", "SEMICOLON", Rest, {}, {})
  <2>1. NextDo(Rest) \in Cold \cup Warm
    BY <1>3 DEF Warm
  <2>. QED BY <1>8, <1>9, <2>1, PushRequire
<1>11. Len(a1) # 2
  <2>1. Len(a1) = Len(Rest) + 1 /\ Rest # <<>> /\ Agenda(Rest) /\ Len(Rest) \in Nat
    BY <1>2, <1>3, <1>10 DEF On, NextDo, Ready
  <2>2. Len(Rest) # 1
    BY <1>3, <2>1, LastTask
  <2>. HIDE DEF a1, a2
  <2>3. \A p, q \in Nat : p = q + 1 /\ q # 1 => p # 2
    OBVIOUS
  <2>4. Len(a1) \in Nat
    BY <1>10 DEF On
  <2>. QED BY <2>1, <2>2, <2>3, <2>4
<1>. HIDE DEF a1
<1>12. On(tree', a2, "Finish", "STATEMENT", a1, {n}, {n})
  <2>1. /\ Ready(tree', a1) /\ RequireThen(a1, {"Link", "Check"})
        /\ n \in Free(tree'.nodes) \ HeldBy(a1)
    BY <1>3, <1>8, <1>10 DEF On, RequireThen
  <2>. QED BY <1>8, <1>11, <2>1, PushFinish
<1>. HIDE DEF a2
<1>13. Blocked(a2)
  BY <1>9, <1>10, <1>12 DEF On
<1>14. Going(curToken', parserError, tree', val, a2)
  BY <1>12, <1>13, Cooled DEF On, Cool, Cold
<1>15. Shape(curToken', parserError, tree', val)
  <2>1. curToken' \in 0 .. Len(tokens) + MaxBeyond + 2
    <3>1. CASE curToken' = curToken
      BY <1>2, <3>1
    <3>2. CASE val = Null /\ curToken' = curToken - 1
      <4>1. SemicolonBefore(curToken)
        BY <1>1, <1>2, <3>2 DEF Going, Why
      <4>2. PICK i \in 0 .. curToken - 1 : TRUE
        BY <4>1 DEF SemicolonBefore
      <4>3. curToken - 1 \in 0 .. curToken
        BY <1>2, <4>2
      <4>4. curToken \in Nat /\ curToken <= Len(tokens) + MaxBeyond + 2
        BY <1>2
      <4>5. Len(tokens) + MaxBeyond + 2 \in Nat
        <5>1. Len(tokens) \in Nat
          BY CellsAre, <4>4 DEF ParserInv
        <5>. QED BY <5>1, BoundsAssumption
      <4>. QED BY <3>2, <4>3, <4>4, <4>5
    <3>. QED BY <1>1, <3>1, <3>2
  <2>. QED BY <1>2, <1>8, <2>1 DEF ParserInv, Shape
<1>. QED BY <1>1, <1>2, <1>7, <1>14, <1>15, GoesOn

(* The nodes after one was inserted.                                       *)
LEMMA InsertedIs ==
  ASSUME NEW t, SoundTree(t), NEW u, NEW p, NEW side, NEW type, Inserted(t, u, p, side, type)
  PROVE  /\ SoundTree(u) /\ Len(u.nodes) = Len(t.nodes) + 1 /\ DOMAIN t.nodes \subseteq DOMAIN u.nodes
         /\ Free(t.nodes) \subseteq Free(u.nodes) /\ 0 .. Len(t.nodes) \subseteq 0 .. Len(u.nodes)
         /\ NewNode(t) \in DOMAIN u.nodes /\ NewNode(t) \notin DOMAIN t.nodes
         /\ NewNode(t) = Len(t.nodes) + 1
<1>1. Grown(t, u, 1) /\ 1 \in Nat
  BY DEF Inserted
<1>2. /\ SoundTree(u) /\ DOMAIN t.nodes = 1 .. Len(t.nodes) /\ Len(u.nodes) = Len(t.nodes) + 1
      /\ DOMAIN u.nodes = 1 .. Len(t.nodes) + 1 /\ Len(t.nodes) \in Nat
      /\ NewNode(t) = Len(t.nodes) + 1
  BY <1>1, GrownIs
<1>3. DOMAIN t.nodes \subseteq DOMAIN u.nodes
  BY <1>2
<1>4. Free(t.nodes) \subseteq Free(u.nodes)
  BY <1>3 DEF Inserted, Free
<1>. QED BY <1>2, <1>3, <1>4

(* The branches of an if begin.                                            *)
LEMMA ThenKeeps ==
  ASSUME ParserInv, Then
  PROVE  ParserInv'
<1>1. /\ Running /\ agenda # <<>> /\ Me.do = "Then"
      /\ tree' = TreeInsert(tree, Me.m, "rightChild", "DECISION", "")
      /\ \/ /\ curToken' = curToken + 1 /\ This.kw = "LSB"
            /\ agenda' = <<Loop("A", Null), Adopt(NewNode(tree), "leftChild"), Require("RSB"),
                           Task("Else", Me.n, NewNode(tree), "")>> \o Rest
         \/ /\ curToken' = curToken
            /\ agenda' = <<Task("Else", Me.n, NewNode(tree), "")>> \o Rest
      /\ UNCHANGED <<input, parserError, val, status>>
  BY DEF Then, Doing, Me, Go, Rest, Eat
<1>2. /\ Sound(Me, Rest) /\ Ready(tree, Rest) /\ SoundTree(tree) /\ Rest \in Seq(TaskT)
      /\ HeldBy(agenda) = Held(Me) \cup HeldBy(Rest) /\ HeldBy(agenda) \subseteq Free(tree.nodes)
      /\ Me.m \in 0 .. Len(tree.nodes) /\ val \in 0 .. Len(tree.nodes)
      /\ {curToken, curToken + 1} \subseteq 0 .. Len(tokens) + MaxBeyond + 2 /\ curToken \in Nat
      /\ status = "parsing"
  BY <1>1, Start
<1>3. /\ NextDo(Rest) = "Check" /\ Me.n # Null /\ Me.m # Null /\ Held(Me) = {Me.n}
      /\ Held(Me) \cap HeldBy(Rest) = {} /\ Me.m \notin StatementsOf(Rest)
  BY <1>1, <1>2 DEF Sound, Follows, Held, Holders, Targets, Branches, Adopts
<1>4. DOMAIN tree.nodes = 1 .. Len(tree.nodes) /\ Len(tree.nodes) \in Nat
  BY <1>2, NodesOf
<1>5. /\ Me.m \in DOMAIN tree.nodes /\ Me.n \in Free(tree.nodes) \ HeldBy(Rest)
      /\ Me.n \in DOMAIN tree.nodes
  BY <1>2, <1>3, <1>4 DEF Null, Free
<1>6. Inserted(tree, tree', Me.m, "rightChild", "DECISION")
  <2>1. "DECISION" \in Kinds /\ "" \in Strs /\ "rightChild" \in Sides
    BY DEF Kinds, Strs, Sides
  <2>. QED BY <1>1, <1>2, <1>5, <2>1, TreeInsertSound
<1>7. Ready(tree', Rest)
  BY <1>2, <1>3, <1>6, InsertSpares
<1>. DEFINE n == Me.n
            d == NewNode(tree)
            a1 == Cons(Task("Else", n, d, ""), Rest)
<1>8. /\ SoundTree(tree') /\ Len(tree'.nodes) = Len(tree.nodes) + 1
      /\ n \in Free(tree'.nodes) \ HeldBy(Rest) /\ d \in DOMAIN tree'.nodes
      /\ d \notin HeldBy(Rest) /\ d # n /\ d \in Nat /\ n \in Nat
      /\ 0 .. Len(tree.nodes) \subseteq 0 .. Len(tree'.nodes)
  <2>1. /\ SoundTree(tree') /\ Len(tree'.nodes) = Len(tree.nodes) + 1
        /\ DOMAIN tree.nodes \subseteq DOMAIN tree'.nodes /\ Free(tree.nodes) \subseteq Free(tree'.nodes)
        /\ d \in DOMAIN tree'.nodes /\ d \notin DOMAIN tree.nodes /\ d = Len(tree.nodes) + 1
        /\ 0 .. Len(tree.nodes) \subseteq 0 .. Len(tree'.nodes)
    BY <1>2, <1>6, InsertedIs
  <2>2. HeldBy(Rest) \subseteq DOMAIN tree.nodes
    BY <1>2, HeldIn
  <2>3. d \in Nat /\ n \in Nat
    BY <1>4, <1>5, <2>1
  <2>. QED BY <1>5, <2>1, <2>2, <2>3
<1>9. Task("Else", n, d, "") \in TaskT
  BY <1>8 DEF Task, TaskT, Dos, Ops
<1>. HIDE DEF n, d
<1>10. StatementsOf(Rest) \subseteq HeldBy(Rest) /\ Blocked(Rest)
  BY <1>2, <1>3, <1>7, <1>8, HeldIn, Blocks DEF Blockers
<1>11. On(tree', a1, "Else", "", Rest, {n}, {})
  BY <1>3, <1>7, <1>8, <1>10, PushBranch DEF Branches
<1>12. Shape(curToken', parserError, tree', val)
  BY <1>1, <1>2, <1>8 DEF ParserInv, Shape
<1>13. CASE /\ curToken' = curToken
            /\ agenda' = <<Task("Else", Me.n, NewNode(tree), "")>> \o Rest
  <2>1. agenda' = a1
    BY <1>2, <1>9, <1>13, GoOne DEF n, d
  <2>. HIDE DEF a1
  <2>2. Going(curToken', parserError, tree', val, a1)
    BY <1>10, <1>11, Cooled DEF On, Cool, Cold
  <2>. QED BY <1>1, <1>2, <1>12, <2>1, <2>2, GoesOn
<1>14. CASE /\ curToken' = curToken + 1 /\ This.kw = "LSB"
            /\ agenda' = <<Loop("A", Null), Adopt(NewNode(tree), "leftChild"), Require("RSB"),
                           Task("Else", Me.n, NewNode(tree), "")>> \o Rest
  <2>. DEFINE a4 == Cons(Loop("A", Null),
                         Cons(Task("Adopt", d, Null, "leftChild"), Cons(Require("RSB"), a1)))
  <2>1. agenda' = a4
    <3>. DEFINE b1 == Loop("A", Null)
                b2 == Task("Adopt", d, Null, "leftChild")
                b3 == Require("RSB")
                b4 == Task("Else", n, d, "")
    <3>1. agenda' = <<b1, b2, b3, b4>> \o Rest
      BY <1>14 DEF n, d, Adopt
    <3>2. b1 \in TaskT /\ b2 \in TaskT /\ b3 \in TaskT
      BY <1>8 DEF Loop, Require, Task, TaskT, Dos, Ops, Null
    <3>3. b4 \in TaskT /\ Rest \in Seq(TaskT)
      BY <1>2, <1>9
    <3>. HIDE DEF b1, b2, b3, b4
    <3>4. <<b1, b2, b3, b4>> \o Rest = Cons(b1, Cons(b2, Cons(b3, Cons(b4, Rest))))
      BY <3>2, <3>3, GoFour
    <3>. QED BY <3>1, <3>4 DEF b1, b2, b3, b4
  <2>. HIDE DEF a1
  <2>2. BraceBefore(curToken')
    <3>1. curToken + 1 > 0 /\ (curToken + 1) - 1 = curToken
      BY <1>2
    <3>. QED BY <1>14, <3>1 DEF BraceBefore, This
  <2>3. Going(curToken', parserError, tree', val, a4)
    <3>1. Ready(tree', a1) /\ d \notin StatementsOf(a1) /\ NextDo(a1) \in Cold /\ Blocked(a1)
      BY <1>8, <1>10, <1>11 DEF On, Cold
    <3>2. "Adopt" \in Adopts /\ "leftChild" \in Sides
      BY DEF Adopts, Sides
    <3>. QED BY <1>8, <2>2, <3>1, <3>2, BlockBegun
  <2>. HIDE DEF a4
  <2>. QED BY <1>1, <1>2, <1>12, <2>1, <2>3, GoesOn
<1>. QED BY <1>1, <1>13, <1>14

-----------------------------------------------------------------------------
(* A statement that has begun, u being t with its first nodes and maybe    *)
(* more: the outer one is free and holds the one of the type to its right. *)
Opened(t, u, a, type) ==
  /\ SoundTree(u) /\ Ready(u, a)
  /\ NewNode(t) \in Free(u.nodes) \ HeldBy(a)
  /\ NewNode(t) + 1 \in DOMAIN u.nodes
  /\ u.nodes[NewNode(t)].rightChild = NewNode(t) + 1
  /\ u.nodes[NewNode(t) + 1].nodeType = type
  /\ Free(t.nodes) \subseteq Free(u.nodes)
  /\ Len(t.nodes) + 2 <= Len(u.nodes)

(* The next three nodes calloc returns are new to the tree and to every    *)
(* task.                                                                   *)
LEMMA NewNodes ==
  ASSUME NEW t, SoundTree(t), NEW a, Ready(t, a)
  PROVE  /\ NewNode(t) = Len(t.nodes) + 1 /\ Len(t.nodes) \in Nat /\ DOMAIN t.nodes = 1 .. Len(t.nodes)
         /\ \A k \in {NewNode(t), NewNode(t) + 1, NewNode(t) + 2} :
              /\ k \in Nat /\ k # Null
              /\ k \notin DOMAIN t.nodes /\ k \notin Free(t.nodes)
              /\ k \notin HeldBy(a) /\ k \notin StatementsOf(a)
         /\ Null \notin DOMAIN t.nodes /\ Null \notin HeldBy(a)
<1>1. NewNode(t) = Len(t.nodes) + 1 /\ Len(t.nodes) \in Nat /\ DOMAIN t.nodes = 1 .. Len(t.nodes)
  BY NodesOf DEF NewNode
<1>2. HeldBy(a) \subseteq DOMAIN t.nodes /\ StatementsOf(a) \subseteq HeldBy(a)
  BY HeldIn
<1>3. \A k \in {NewNode(t), NewNode(t) + 1, NewNode(t) + 2} :
        k \in Nat /\ k # Null /\ k \notin DOMAIN t.nodes
  BY <1>1 DEF Null
<1>4. Null \notin DOMAIN t.nodes
  BY <1>1 DEF Null
<1>. QED BY <1>1, <1>2, <1>3, <1>4 DEF Free

(* A statement that has just begun.                                        *)
LEMMA BegunOpens ==
  ASSUME NEW t, SoundTree(t), NEW a, Ready(t, a), NEW type, NEW u, Begun(t, u, type)
  PROVE  Opened(t, u, a, type) /\ NewNode(u) = NewNode(t) + 2
<1>1. Ready(u, a)
  BY BegunSpares
<1>2. Grown(t, u, 2) /\ 2 \in Nat
  BY DEF Begun
<1>3. /\ SoundTree(u) /\ DOMAIN u.nodes = 1 .. Len(t.nodes) + 2 /\ Len(u.nodes) = Len(t.nodes) + 2
      /\ DOMAIN t.nodes \subseteq DOMAIN u.nodes
  BY <1>2, GrownIs
<1>4. /\ NewNode(t) = Len(t.nodes) + 1 /\ Len(t.nodes) \in Nat /\ NewNode(t) \notin HeldBy(a)
  BY NewNodes
<1>5. NewNode(t) \in DOMAIN u.nodes /\ NewNode(t) + 1 \in DOMAIN u.nodes
  BY <1>3, <1>4
<1>6. Free(t.nodes) \subseteq Free(u.nodes)
  BY <1>3 DEF Begun, Kept, Free
<1>7. Len(t.nodes) + 2 <= Len(u.nodes) /\ NewNode(u) = NewNode(t) + 2
  BY <1>3, <1>4 DEF NewNode
<1>. QED BY <1>1, <1>3, <1>4, <1>5, <1>6, <1>7 DEF Opened, Begun, Free

(* Below a statement that has begun a node may be inserted to the left.    *)
LEMMA OpenedInserts ==
  ASSUME NEW t, SoundTree(t), NEW a, NEW type, NEW u, Opened(t, u, a, type),
         NEW v, NEW p, NEW kind, Inserted(u, v, p, "leftChild", kind)
  PROVE  Opened(t, v, a, type) /\ NewNode(v) = NewNode(u) + 1 /\ NewNode(u) \in DOMAIN v.nodes
<1>1. SoundTree(u) /\ Ready(u, a) /\ Len(t.nodes) + 2 <= Len(u.nodes)
  BY DEF Opened
<1>2. Ready(v, a)
  BY <1>1, InsertSpares
<1>3. /\ SoundTree(v) /\ Len(v.nodes) = Len(u.nodes) + 1 /\ DOMAIN u.nodes \subseteq DOMAIN v.nodes
      /\ Free(u.nodes) \subseteq Free(v.nodes) /\ NewNode(u) \in DOMAIN v.nodes
  BY <1>1, InsertedIs
<1>4. Len(u.nodes) \in Nat /\ Len(t.nodes) \in Nat
  BY <1>1, NodesOf
<1>5. Len(t.nodes) + 2 <= Len(v.nodes) /\ NewNode(v) = NewNode(u) + 1
  BY <1>1, <1>3, <1>4 DEF NewNode
<1>6. /\ v.nodes[NewNode(t)].rightChild = NewNode(t) + 1
      /\ v.nodes[NewNode(t) + 1].nodeType = type
  BY DEF Opened, Inserted, Free
<1>. QED BY <1>1, <1>2, <1>3, <1>5, <1>6 DEF Opened

(* A name may be made while a statement has begun.                         *)
LEMMA OpenedConstructs ==
  ASSUME NEW t, SoundTree(t), NEW a, NEW type, NEW u, Opened(t, u, a, type),
         NEW v, Constructed(u, v, Null, Null)
  PROVE  /\ Opened(t, v, a, type) /\ NewNode(u) \in Free(v.nodes)
         /\ NewNode(u) \notin HeldBy(a) /\ NewNode(u) \notin DOMAIN u.nodes
<1>1. SoundTree(u) /\ Ready(u, a) /\ Len(t.nodes) + 2 <= Len(u.nodes)
  BY DEF Opened
<1>2. /\ Null \notin HeldBy(a) /\ Null \notin DOMAIN u.nodes
      /\ NewNode(u) \notin HeldBy(a) /\ NewNode(u) \notin DOMAIN u.nodes
  BY <1>1, NewNodes
<1>3. Ready(v, a)
  BY <1>1, <1>2, CtorSpares
<1>4. Grown(u, v, 1) /\ 1 \in Nat
  BY DEF Constructed
<1>5. /\ SoundTree(v) /\ DOMAIN v.nodes = 1 .. Len(u.nodes) + 1 /\ Len(v.nodes) = Len(u.nodes) + 1
      /\ DOMAIN u.nodes \subseteq DOMAIN v.nodes /\ NewNode(u) = Len(u.nodes) + 1
      /\ Len(u.nodes) \in Nat
  BY <1>1, <1>4, GrownIs
<1>6. Free(u.nodes) \subseteq Free(v.nodes)
  BY <1>2, <1>5 DEF Constructed, Free
<1>7. NewNode(u) \in Free(v.nodes)
  <2>1. NewNode(u) \in DOMAIN v.nodes
    BY <1>5
  <2>. QED BY <2>1 DEF Constructed, Free
<1>8. Len(t.nodes) + 2 <= Len(v.nodes)
  <2>1. Len(t.nodes) \in Nat
    BY NodesOf
  <2>. QED BY <2>1, <1>1, <1>5
<1>9. /\ v.nodes[NewNode(t)].rightChild = NewNode(t) + 1
      /\ v.nodes[NewNode(t) + 1].nodeType = type
  BY DEF Opened, Constructed, Free
<1>. QED BY <1>2, <1>3, <1>5, <1>6, <1>7, <1>8, <1>9 DEF Opened

(* A name may be hung to the left of a statement that has begun.           *)
LEMMA OpenedHangs ==
  ASSUME NEW t, SoundTree(t), NEW a, NEW type, NEW u, Opened(t, u, a, type),
         NEW v, NEW p, NEW b, Hung(u, v, p, "leftChild", b),
         b \notin HeldBy(a), b # NewNode(t), b \notin Free(t.nodes)
  PROVE  Opened(t, v, a, type) /\ DOMAIN v.nodes = DOMAIN u.nodes
<1>1. SoundTree(u) /\ Ready(u, a) /\ Len(t.nodes) + 2 <= Len(u.nodes)
  BY DEF Opened
<1>2. Ready(v, a)
  BY <1>1, HungSpares
<1>3. /\ SoundTree(v) /\ Len(v.nodes) = Len(u.nodes) /\ DOMAIN v.nodes = DOMAIN u.nodes
      /\ \A n \in Free(u.nodes) : n # b => n \in Free(v.nodes)
  BY <1>1, HungIs
<1>4. /\ v.nodes[NewNode(t)].rightChild = NewNode(t) + 1
      /\ v.nodes[NewNode(t) + 1].nodeType = type
  BY DEF Opened, Hung, Free
<1>. QED BY <1>1, <1>2, <1>3, <1>4 DEF Opened

(* A node may get another type: the statement that has begun stays one.    *)
LEMMA OpenedRetypes ==
  ASSUME NEW t, SoundTree(t), NEW a, NEW type, NEW u, Opened(t, u, a, type),
         NEW v, NEW p \in Free(u.nodes), NEW kind, Retyped(u, v, p, kind), p # NewNode(t) + 1
  PROVE  Opened(t, v, a, type) /\ DOMAIN v.nodes = DOMAIN u.nodes /\ Free(v.nodes) = Free(u.nodes)
<1>1. SoundTree(u) /\ Ready(u, a) /\ Len(t.nodes) + 2 <= Len(u.nodes)
  BY DEF Opened
<1>2. Ready(v, a)
  BY <1>1, TypeSpares
<1>3. Grown(u, v, 0) /\ 0 \in Nat
  BY DEF Retyped
<1>4. /\ SoundTree(v) /\ Len(v.nodes) = Len(u.nodes) + 0 /\ DOMAIN v.nodes = 1 .. Len(u.nodes) + 0
      /\ DOMAIN u.nodes = 1 .. Len(u.nodes) /\ Len(u.nodes) \in Nat
  BY <1>1, <1>3, GrownIs
<1>5. Len(v.nodes) = Len(u.nodes) /\ DOMAIN v.nodes = DOMAIN u.nodes
  BY <1>4
<1>6. Free(v.nodes) = Free(u.nodes)
  BY <1>5 DEF Retyped, Free
<1>7. /\ v.nodes[NewNode(t)].rightChild = NewNode(t) + 1
      /\ v.nodes[NewNode(t) + 1].nodeType = type
  BY DEF Opened, Retyped, Free
<1>. QED BY <1>1, <1>2, <1>4, <1>5, <1>6, <1>7 DEF Opened

-----------------------------------------------------------------------------
(* An assignment with its name to the left.                                *)
LEMMA AssignmentBegins ==
  ASSUME SoundTree(tree), NEW a, Ready(tree, a), This \in Cells, NEW u,
         u = Linked(Variable(Statement("ASSIGN"), This), Inner, "leftChild", Third)
  PROVE  /\ Opened(tree, u, a, "ASSIGN") /\ Third \in DOMAIN u.nodes
         /\ Outer # Null /\ Inner # Null /\ Third # Null
<1>. DEFINE s == Statement("ASSIGN")
            w == Variable(s, This)
<1>1. "ASSIGN" \in Kinds
  BY DEF Kinds
<1>2. Opened(tree, s, a, "ASSIGN") /\ NewNode(s) = Third
  BY <1>1, StatementSound, BegunOpens DEF Third
<1>. HIDE DEF s
<1>3. Constructed(s, w, Null, Null)
  BY <1>2, VariableSound DEF Opened
<1>4. /\ Opened(tree, w, a, "ASSIGN") /\ Third \in Free(w.nodes) /\ Third \notin HeldBy(a)
      /\ Third \notin DOMAIN s.nodes
  BY <1>2, <1>3, OpenedConstructs
<1>. HIDE DEF w
<1>5. /\ Third \notin Free(tree.nodes) /\ Third # Outer /\ Inner # Third
      /\ Outer # Null /\ Inner # Null /\ Third # Null
  BY NewNodes DEF Third, Outer, Inner
<1>6. SoundTree(w) /\ Inner \in DOMAIN w.nodes /\ Third \in Free(w.nodes)
  BY <1>4 DEF Opened, Inner
<1>7. u = Linked(w, Inner, "leftChild", Third)
  BY DEF w, s
<1>8. Hung(w, u, Inner, "leftChild", Third)
  BY <1>5, <1>6, <1>7, LinkedSound DEF Sides
<1>9. Opened(tree, u, a, "ASSIGN") /\ DOMAIN u.nodes = DOMAIN w.nodes
  BY <1>4, <1>5, <1>8, OpenedHangs DEF Outer
<1>. QED BY <1>5, <1>6, <1>9 DEF Free

(* An assignment, at the top level or among statements; without a name the *)
(* parser crashes.                                                         *)
LEMMA AssignKeeps ==
  ASSUME ParserInv, NEW loop \in {"G", "A"}, Looping(loop), Assign(loop)
  PROVE  ParserInv'
<1>1. /\ Running /\ agenda # <<>> /\ Me.do = "Loop" /\ Me.op = loop
      /\ \/ This.kw = "SEMICOLON" /\ Crash
         \/ /\ tree' = Linked(Variable(Statement("ASSIGN"), This), Inner, "leftChild", Third)
            /\ curToken' = curToken + 2
            /\ agenda' = <<Get("Bool"), Adopt(Inner, "rightChild"), Finish(Outer, "STATEMENT"),
                           Require("SEMICOLON"), Link(Me.n, loop)>> \o Rest
            /\ UNCHANGED <<input, parserError, val, status>>
  BY DEF Assign, Looping, Doing, Me, Go, Rest, Eat
<1>2. /\ Sound(Me, Rest) /\ Ready(tree, Rest) /\ SoundTree(tree) /\ Rest \in Seq(TaskT)
      /\ HeldBy(agenda) = Held(Me) \cup HeldBy(Rest) /\ HeldBy(agenda) \subseteq Free(tree.nodes)
      /\ Me.n \in 0 .. Len(tree.nodes) /\ val \in 0 .. Len(tree.nodes)
      /\ curToken + 2 \in 0 .. Len(tokens) + MaxBeyond + 2 /\ curToken \in Nat
      /\ status = "parsing" /\ This \in Cells
  BY <1>1, Start
<1>3. /\ Held(Me) = {Me.n} \ {Null} /\ Held(Me) \cap HeldBy(Rest) = {}
      /\ loop = "G" => Rest = <<>>
      /\ loop = "A" => NextDo(Rest) \in Adopts
  BY <1>1, <1>2 DEF Sound, Follows, Held, Holders
<1>4. CASE This.kw = "SEMICOLON" /\ Crash
  <2>1. SemicolonInstead
    <3>1. curToken \in 0 .. curToken /\ \A j \in curToken + 1 .. curToken - 1 : FALSE
      BY <1>2
    <3>. QED BY <1>4, <3>1 DEF SemicolonInstead, This
  <2>. QED BY <1>2, <1>4, <2>1, Crashes
<1>5. CASE /\ tree' = Linked(Variable(Statement("ASSIGN"), This), Inner, "leftChild", Third)
           /\ curToken' = curToken + 2
           /\ agenda' = <<Get("Bool"), Adopt(Inner, "rightChild"), Finish(Outer, "STATEMENT"),
                          Require("SEMICOLON"), Link(Me.n, loop)>> \o Rest
           /\ UNCHANGED <<input, parserError, val, status>>
  <2>1. Opened(tree, tree', Rest, "ASSIGN")
    BY <1>2, <1>5, AssignmentBegins
  <2>. DEFINE n == Me.n
              o == Outer
              i == Inner
              u == tree'
              a1 == Cons(Task("Link", n, Null, loop), Rest)
              a2 == Cons(Require("SEMICOLON"), a1)
              a3 == Cons(Finish(o, "STATEMENT"), a2)
              a4 == Cons(Task("Adopt", i, Null, "rightChild"), a3)
              a5 == Cons(Get("Bool"), a4)
  <2>2. /\ SoundTree(u) /\ Ready(u, Rest) /\ Len(tree.nodes) + 2 <= Len(u.nodes)
        /\ o \in Free(u.nodes) \ HeldBy(Rest) /\ i \in DOMAIN u.nodes
        /\ u.nodes[o].rightChild = i /\ u.nodes[i].nodeType = "ASSIGN"
        /\ Free(tree.nodes) \subseteq Free(u.nodes)
    BY <2>1 DEF Opened, Outer, Inner
  <2>3. /\ o \in Nat /\ i \in Nat /\ o # Null /\ i # Null /\ o # i
        /\ o \notin Free(tree.nodes) /\ i \notin StatementsOf(Rest)
    <3>1. /\ o \in Nat /\ i \in Nat /\ o # Null /\ i # Null
          /\ o \notin Free(tree.nodes) /\ i \notin StatementsOf(Rest)
      BY <1>2, NewNodes DEF Outer, Inner
    <3>2. i = o + 1
      BY DEF Outer, Inner
    <3>. QED BY <3>1, <3>2
  <2>4. n = Null \/ n \in Free(tree.nodes) \ HeldBy(Rest)
    BY <1>2, <1>3
  <2>5. n \in Nat /\ Len(u.nodes) \in Nat /\ Len(tree.nodes) \in Nat
    BY <1>2, <2>2, NodesOf
  <2>. HIDE DEF n, o, i, u
  <2>6. agenda' = a5
    <3>. DEFINE b1 == Get("Bool")
                b2 == Task("Adopt", i, Null, "rightChild")
                b3 == Finish(o, "STATEMENT")
                b4 == Require("SEMICOLON")
                b5 == Task("Link", n, Null, loop)
    <3>1. agenda' = <<b1, b2, b3, b4, b5>> \o Rest
      BY <1>5 DEF n, o, i, Adopt, Link
    <3>2. b1 \in TaskT /\ b2 \in TaskT /\ b3 \in TaskT /\ b4 \in TaskT /\ b5 \in TaskT
      BY <2>3, <2>5 DEF Get, Finish, Require, Task, TaskT, Dos, Ops, Null
    <3>3. Rest \in Seq(TaskT) /\ <<b1, b2, b3, b4, b5>> \in Seq(TaskT)
      <4>1. Rest \in Seq(TaskT)
        BY <1>2
      <4>. HIDE DEF b1, b2, b3, b4, b5
      <4>. QED BY <3>2, <4>1
    <3>. HIDE DEF b1, b2, b3, b4, b5, a1, a2, a3, a4, a5
    <3>4. <<b1, b2, b3, b4, b5>> \o Rest
            = Cons(b1, Cons(b2, Cons(b3, Cons(b4, Cons(b5, Rest)))))
      BY <3>3, GoFive
    <3>. QED BY <3>1, <3>4 DEF a1, a2, a3, a4, a5, b1, b2, b3, b4, b5
  <2>7. On(u, a1, "Link", loop, Rest, {n} \ {Null}, {})
    BY <1>3, <2>2, <2>4, <2>5, PushLoop
  <2>. HIDE DEF a1
  <2>8. Blocked(a1) \/ Len(a1) = 1
    <3>1. CASE loop = "G"
      <4>1. Len(a1) = Len(Rest) + 1 /\ Len(Rest) = 0
        BY <1>3, <2>7, <3>1 DEF On
      <4>. QED BY <4>1
    <3>2. CASE loop = "A"
      <4>1. Blocked(Rest)
        BY <1>2, <1>3, <3>2, Blocks DEF Adopts, Blockers
      <4>. QED BY <2>7, <4>1 DEF On
    <3>. QED BY <3>1, <3>2
  <2>9. On(u, a2, "Require", "SEMICOLON", a1, {}, {})
    <3>1. NextDo(a1) \in Cold \cup Warm /\ Ready(u, a1)
      BY <2>7 DEF Warm, On
    <3>. QED BY <2>5, <2>8, <3>1, PushRequire
  <2>. HIDE DEF a2
  <2>10. On(u, a3, "Finish", "STATEMENT", a2, {o}, {o})
    <3>1. /\ Ready(u, a2) /\ RequireThen(a2, {"Link", "Check"})
          /\ HeldBy(a2) = ({n} \ {Null}) \cup HeldBy(Rest)
      BY <2>7, <2>9 DEF On, RequireThen
    <3>2. o \in Free(u.nodes) \ HeldBy(a2)
      BY <2>2, <2>3, <2>4, <3>1
    <3>3. Global(o, u.nodes)
      BY <2>2 DEF Global, Free
    <3>. QED BY <2>2, <3>1, <3>2, <3>3, PushFinish
  <2>. HIDE DEF a3
  <2>11. On(u, a4, "Adopt", "rightChild", a3, {}, {})
    <3>1. /\ Ready(u, a3) /\ NextDo(a3) = "Finish"
          /\ StatementsOf(a3) = {o} \cup StatementsOf(Rest)
      BY <2>7, <2>9, <2>10 DEF On
    <3>2. i \notin StatementsOf(a3)
      BY <2>3, <3>1
    <3>. QED BY <2>2, <3>1, <3>2, PushAdopt DEF Adopts, Sides
  <2>. HIDE DEF a4
  <2>12. On(u, a5, "Get", "Bool", a4, {}, {})
    <3>1. Ready(u, a4) /\ NextDo(a4) = "Adopt"
      BY <2>11 DEF On
    <3>. QED BY <2>5, <3>1, PushGet
  <2>. HIDE DEF a5
  <2>13. Blocked(a5)
    BY <2>11, <2>12 DEF On, Blockers
  <2>14. Going(curToken', parserError, u, val, a5)
    BY <2>12, <2>13, Cooled DEF On, Cool
  <2>15. Shape(curToken', parserError, u, val)
    <3>1. val \in 0 .. Len(u.nodes)
      BY <1>2, <2>2, <2>5
    <3>. QED BY <1>2, <1>5, <2>2, <3>1 DEF ParserInv, Shape
  <2>. QED BY <1>2, <1>5, <2>6, <2>14, <2>15, GoesOn DEF u
<1>. QED BY <1>1, <1>4, <1>5

(* An assignment at the top level, a global variable.                      *)
LEMMA GlobalVariableKeeps ==
  ASSUME ParserInv, GlobalVariable
  PROVE  ParserInv'
BY AssignKeeps DEF GlobalVariable

(* An assignment in a block.                                               *)
LEMMA AssignStatementKeeps ==
  ASSUME ParserInv, AssignStatement
  PROVE  ParserInv'
BY AssignKeeps DEF AssignStatement, InBlock

(* What a statement that has begun offers the tasks behind it.             *)
LEMMA OpenedIs ==
  ASSUME SoundTree(tree), NEW a, Ready(tree, a), NEW u, NEW type, Opened(tree, u, a, type)
  PROVE  /\ SoundTree(u) /\ Ready(u, a) /\ Len(u.nodes) \in Nat
         /\ 0 .. Len(tree.nodes) \subseteq 0 .. Len(u.nodes)
         /\ Outer \in Free(u.nodes) \ HeldBy(a) /\ Inner \in DOMAIN u.nodes
         /\ Outer \in Nat /\ Inner \in Nat /\ Outer # Null /\ Inner # Null /\ Outer # Inner
         /\ Outer \notin Free(tree.nodes)
         /\ Outer \notin StatementsOf(a) /\ Inner \notin StatementsOf(a)
         /\ Third \notin StatementsOf(a) /\ Third # Outer /\ Third # Inner
         /\ Third \in Nat /\ Third # Null
         /\ Free(tree.nodes) \subseteq Free(u.nodes)
<1>1. /\ SoundTree(u) /\ Ready(u, a) /\ Len(tree.nodes) + 2 <= Len(u.nodes)
      /\ Outer \in Free(u.nodes) \ HeldBy(a) /\ Inner \in DOMAIN u.nodes
      /\ Free(tree.nodes) \subseteq Free(u.nodes)
  BY DEF Opened, Outer, Inner
<1>2. /\ Outer \in Nat /\ Inner \in Nat /\ Outer # Null /\ Inner # Null
      /\ Outer \notin Free(tree.nodes)
      /\ Outer \notin StatementsOf(a) /\ Inner \notin StatementsOf(a)
      /\ Third \notin StatementsOf(a) /\ Third \in Nat /\ Third # Null
  BY NewNodes DEF Outer, Inner, Third
<1>3. Len(tree.nodes) \in Nat /\ Len(u.nodes) \in Nat
  BY <1>1, NodesOf
<1>4. Outer # Inner /\ Third # Outer /\ Third # Inner
  <2>1. Outer \in Nat /\ Inner = Outer + 1 /\ Third = Outer + 2
    BY <1>2 DEF Outer, Inner, Third
  <2>. QED BY <2>1
<1>5. 0 .. Len(tree.nodes) \subseteq 0 .. Len(u.nodes)
  BY <1>1, <1>3
<1>. QED BY <1>1, <1>2, <1>3, <1>4, <1>5

(* A condition in parentheses and what it decides about.                   *)
Condition(do, type) ==
  /\ Getting("If")
  /\ tree' = Statement(type)
  /\ curToken' = curToken + 2
  /\ agenda' = <<Get("Bool"), Adopt(Inner, "leftChild"), Require("RB"),
                 Task(do, Outer, Inner, "")>> \o Tail(agenda)
  /\ UNCHANGED <<input, parserError, val, status>>

(* The statement waits for its condition, then for its branch.             *)
LEMMA ConditionKeeps ==
  ASSUME ParserInv, NEW do \in {"Then", "Do"}, NEW type \in {"IF", "WHILE"},
         Condition(do, type)
  PROVE  ParserInv'
<1>1. /\ Running /\ agenda # <<>> /\ Me.do = "Get" /\ Me.op = "If"
      /\ tree' = Statement(type) /\ curToken' = curToken + 2
      /\ agenda' = <<Get("Bool"), Adopt(Inner, "leftChild"), Require("RB"),
                     Task(do, Outer, Inner, "")>> \o Rest
      /\ UNCHANGED <<input, parserError, val, status>>
  BY DEF Condition, Getting, Doing, Me, Rest
<1>2. /\ Sound(Me, Rest) /\ Ready(tree, Rest) /\ SoundTree(tree) /\ Rest \in Seq(TaskT)
      /\ val \in 0 .. Len(tree.nodes)
      /\ curToken + 2 \in 0 .. Len(tokens) + MaxBeyond + 2
      /\ status = "parsing"
  BY <1>1, Start
<1>3. NextDo(Rest) = "Check"
  BY <1>1, <1>2 DEF Sound, Follows
<1>4. Opened(tree, tree', Rest, type)
  BY <1>1, <1>2, StatementSound, BegunOpens DEF Kinds
<1>. DEFINE o == Outer
            i == Inner
            u == tree'
            a1 == Cons(Task(do, o, i, ""), Rest)
            a2 == Cons(Require("RB"), a1)
            a3 == Cons(Task("Adopt", i, Null, "leftChild"), a2)
            a4 == Cons(Get("Bool"), a3)
<1>5. /\ SoundTree(u) /\ Ready(u, Rest) /\ Len(u.nodes) \in Nat
      /\ 0 .. Len(tree.nodes) \subseteq 0 .. Len(u.nodes)
      /\ o \in Free(u.nodes) \ HeldBy(Rest) /\ i \in DOMAIN u.nodes
      /\ o \in Nat /\ i \in Nat /\ o # i
      /\ i \notin StatementsOf(Rest)
  BY <1>2, <1>4, OpenedIs
<1>. HIDE DEF o, i, u
<1>6. agenda' = a4
  <2>. DEFINE b1 == Get("Bool")
              b2 == Task("Adopt", i, Null, "leftChild")
              b3 == Require("RB")
              b4 == Task(do, o, i, "")
  <2>1. agenda' = <<b1, b2, b3, b4>> \o Rest
    BY <1>1 DEF o, i, Adopt
  <2>2. b1 \in TaskT /\ b2 \in TaskT /\ b3 \in TaskT
    BY <1>5 DEF Get, Require, Task, TaskT, Dos, Ops, Null
  <2>3. b4 \in TaskT /\ Rest \in Seq(TaskT)
    BY <1>2, <1>5 DEF Task, TaskT, Dos, Ops
  <2>. HIDE DEF b1, b2, b3, b4
  <2>4. <<b1, b2, b3, b4>> \o Rest = Cons(b1, Cons(b2, Cons(b3, Cons(b4, Rest))))
    BY <2>2, <2>3, GoFour
  <2>. QED BY <2>1, <2>4 DEF b1, b2, b3, b4
<1>7. On(u, a1, do, "", Rest, {o}, {})
  <2>1. do \in Branches
    BY DEF Branches
  <2>. QED BY <1>3, <1>5, <2>1, PushBranch
<1>. HIDE DEF a1
<1>8. Blocked(a1)
  <2>1. Blocked(Rest)
    <3>1. NextDo(Rest) \in Blockers /\ Rest \in Seq(TaskT)
      BY <1>2, <1>3 DEF Blockers
    <3>. QED BY <3>1, Blocks
  <2>. QED BY <1>7, <2>1 DEF On
<1>9. On(u, a2, "Require", "RB", a1, {}, {})
  <2>1. NextDo(a1) \in Cold \cup Warm /\ Ready(u, a1)
    BY <1>7 DEF Cold, On
  <2>. QED BY <1>5, <1>8, <2>1, PushRequire
<1>. HIDE DEF a2
<1>10. On(u, a3, "Adopt", "leftChild", a2, {}, {})
  <2>1. Ready(u, a2) /\ RequireThen(a2, Cold) /\ StatementsOf(a2) = StatementsOf(Rest)
    BY <1>7, <1>9 DEF On, RequireThen, Cold
  <2>2. i \notin StatementsOf(a2)
    BY <1>5, <2>1
  <2>. QED BY <1>5, <2>1, <2>2, PushAdopt DEF Adopts, Sides
<1>. HIDE DEF a3
<1>11. On(u, a4, "Get", "Bool", a3, {}, {})
  <2>1. Ready(u, a3) /\ NextDo(a3) = "Adopt"
    BY <1>10 DEF On
  <2>. QED BY <1>5, <2>1, PushGet
<1>. HIDE DEF a4
<1>12. Going(curToken', parserError, u, val, a4)
  <2>1. Blocked(a4)
    BY <1>10, <1>11 DEF On, Blockers
  <2>. QED BY <1>11, <2>1, Cooled DEF On, Cool
<1>13. Shape(curToken', parserError, u, val)
  <2>1. val \in 0 .. Len(u.nodes)
    BY <1>2, <1>5
  <2>. QED BY <1>1, <1>2, <1>5, <2>1 DEF ParserInv, Shape
<1>. QED BY <1>1, <1>2, <1>6, <1>12, <1>13, GoesOn DEF u

(* The condition of an if.                                                 *)
LEMMA IfKeeps ==
  ASSUME ParserInv, If
  PROVE  ParserInv'
BY ConditionKeeps DEF If, Condition, Go, Eat

(* The condition of a loop.                                                *)
LEMMA WhileKeeps ==
  ASSUME ParserInv, While
  PROVE  ParserInv'
BY ConditionKeeps DEF While, Condition, Go, Eat

(* A return waits for its value.                                           *)
LEMMA ReturnKeeps ==
  ASSUME ParserInv, Return
  PROVE  ParserInv'
<1>1. /\ Running /\ agenda # <<>> /\ Me.do = "Get" /\ Me.op = "If"
      /\ tree' = Statement("RETURN") /\ curToken' = curToken + 1
      /\ agenda' = <<Get("Bool"), Task("Value", Outer, Inner, "")>> \o Rest
      /\ UNCHANGED <<input, parserError, val, status>>
  BY DEF Return, Getting, Doing, Me, Go, Eat, Rest
<1>2. /\ Sound(Me, Rest) /\ Ready(tree, Rest) /\ SoundTree(tree) /\ Rest \in Seq(TaskT)
      /\ val \in 0 .. Len(tree.nodes)
      /\ curToken + 1 \in 0 .. Len(tokens) + MaxBeyond + 2
      /\ status = "parsing"
  BY <1>1, Start
<1>3. NextDo(Rest) = "Check"
  BY <1>1, <1>2 DEF Sound, Follows
<1>4. Opened(tree, tree', Rest, "RETURN")
  BY <1>1, <1>2, StatementSound, BegunOpens DEF Kinds
<1>. DEFINE o == Outer
            i == Inner
            u == tree'
            a1 == Cons(Task("Value", o, i, ""), Rest)
            a2 == Cons(Get("Bool"), a1)
<1>5. /\ SoundTree(u) /\ Ready(u, Rest) /\ Len(u.nodes) \in Nat
      /\ 0 .. Len(tree.nodes) \subseteq 0 .. Len(u.nodes)
      /\ o \in Free(u.nodes) \ HeldBy(Rest) /\ i \in DOMAIN u.nodes
      /\ o \in Nat /\ i \in Nat /\ o # i
      /\ i \notin StatementsOf(Rest)
  BY <1>2, <1>4, OpenedIs
<1>. HIDE DEF o, i, u
<1>6. agenda' = a2
  <2>. DEFINE b1 == Get("Bool")
              b2 == Task("Value", o, i, "")
  <2>1. agenda' = <<b1, b2>> \o Rest
    BY <1>1 DEF o, i
  <2>2. b1 \in TaskT /\ b2 \in TaskT /\ Rest \in Seq(TaskT)
    BY <1>2, <1>5 DEF Get, Task, TaskT, Dos, Ops, Null
  <2>. HIDE DEF b1, b2
  <2>3. <<b1, b2>> \o Rest = Cons(b1, Cons(b2, Rest))
    BY <2>2, GoTwo
  <2>. QED BY <2>1, <2>3 DEF b1, b2
<1>7. On(u, a1, "Value", "", Rest, {o}, {})
  BY <1>3, <1>5, PushBranch DEF Branches
<1>. HIDE DEF a1
<1>8. On(u, a2, "Get", "Bool", a1, {}, {})
  <2>1. Ready(u, a1) /\ NextDo(a1) = "Value"
    BY <1>7 DEF On
  <2>. QED BY <1>5, <2>1, PushGet
<1>. HIDE DEF a2
<1>9. Going(curToken', parserError, u, val, a2)
  <2>1. Blocked(a2)
    BY <1>7, <1>8 DEF On, Blockers
  <2>. QED BY <1>8, <2>1, Cooled DEF On, Cool
<1>10. Shape(curToken', parserError, u, val)
  <2>1. val \in 0 .. Len(u.nodes)
    BY <1>2, <1>5
  <2>. QED BY <1>1, <1>2, <1>5, <2>1 DEF ParserInv, Shape
<1>. QED BY <1>1, <1>2, <1>6, <1>9, <1>10, GoesOn DEF u

(* A parameter waits for its expression, the ones before it kept by the    *)
(* statement that links them.                                              *)
LEMMA ParameterKeeps ==
  ASSUME ParserInv, Parameter
  PROVE  ParserInv'
<1>1. /\ Running /\ agenda # <<>> /\ Me.do = "Loop" /\ Me.op = "Par"
      /\ tree' = Calloc(tree) /\ curToken' = curToken
      /\ agenda' = <<Get("Bool"), Adopt(Outer, "rightChild"), Finish(Outer, "PARAMETR"),
                     Task("Comma", Null, Null, ""), Link(Me.n, "Par")>> \o Rest
      /\ UNCHANGED <<input, parserError, val, status>>
  BY DEF Parameter, Looping, Doing, Me, Go, Rest
<1>2. /\ Sound(Me, Rest) /\ Ready(tree, Rest) /\ SoundTree(tree) /\ Rest \in Seq(TaskT)
      /\ HeldBy(agenda) = Held(Me) \cup HeldBy(Rest) /\ HeldBy(agenda) \subseteq Free(tree.nodes)
      /\ Me.n \in 0 .. Len(tree.nodes) /\ val \in 0 .. Len(tree.nodes)
      /\ curToken \in 0 .. Len(tokens) + MaxBeyond + 2
      /\ status = "parsing"
  BY <1>1, Start
<1>3. /\ Held(Me) = {Me.n} \ {Null} /\ Held(Me) \cap HeldBy(Rest) = {}
      /\ NextDo(Rest) = "AdoptAny"
  BY <1>1, <1>2 DEF Sound, Follows, Held, Holders
<1>. DEFINE n == Me.n
            o == Outer
            u == tree'
            a1 == Cons(Task("Link", n, Null, "Par"), Rest)
            a2 == Cons(Task("Comma", Null, Null, ""), a1)
            a3 == Cons(Finish(o, "PARAMETR"), a2)
            a4 == Cons(Task("Adopt", o, Null, "rightChild"), a3)
            a5 == Cons(Get("Bool"), a4)
<1>4. Allocated(tree, u)
  BY <1>1, <1>2, CallocSound
<1>5. /\ SoundTree(u) /\ Ready(u, Rest) /\ Len(u.nodes) \in Nat
      /\ 0 .. Len(tree.nodes) \subseteq 0 .. Len(u.nodes)
      /\ o \in Free(u.nodes) \ HeldBy(Rest) /\ o \in DOMAIN u.nodes /\ o \in Nat
      /\ o \notin Free(tree.nodes) /\ o \notin StatementsOf(Rest)
      /\ Free(tree.nodes) \subseteq Free(u.nodes)
  <2>1. Grown(tree, u, 1) /\ 1 \in Nat
    BY <1>4 DEF Allocated
  <2>2. /\ SoundTree(u) /\ 0 .. Len(tree.nodes) \subseteq 0 .. Len(u.nodes)
        /\ DOMAIN tree.nodes \subseteq DOMAIN u.nodes
        /\ DOMAIN u.nodes = 1 .. Len(tree.nodes) + 1 /\ Len(tree.nodes) \in Nat
        /\ Len(u.nodes) = Len(tree.nodes) + 1 /\ o = Len(tree.nodes) + 1
    BY <1>2, <2>1, GrownIs DEF Outer
  <2>3. Ready(u, Rest)
    BY <1>2, <1>4, AllocSpares
  <2>4. /\ o \in Nat /\ o \notin Free(tree.nodes) /\ o \notin HeldBy(Rest)
        /\ o \notin StatementsOf(Rest)
    BY <1>2, NewNodes DEF Outer
  <2>5. o \in DOMAIN u.nodes /\ Len(u.nodes) \in Nat
    BY <2>2
  <2>6. o \in Free(u.nodes)
    <3>1. u.nodes[o] = Blank
      BY <1>4 DEF Allocated, Outer
    <3>2. Blank.parent = Null
      BY DEF Blank
    <3>. QED BY <2>5, <3>1, <3>2 DEF Free
  <2>7. Free(tree.nodes) \subseteq Free(u.nodes)
    BY <1>4, <2>2 DEF Allocated, Free
  <2>. QED BY <2>2, <2>3, <2>4, <2>5, <2>6, <2>7
<1>6. n \in Nat /\ (n = Null \/ n \in Free(tree.nodes) \ HeldBy(Rest))
  <2>1. Len(tree.nodes) \in Nat
    BY <1>2, NodesOf
  <2>. QED BY <1>2, <1>3, <2>1
<1>. HIDE DEF n, o, u
<1>7. agenda' = a5
  <2>. DEFINE b1 == Get("Bool")
              b2 == Task("Adopt", o, Null, "rightChild")
              b3 == Finish(o, "PARAMETR")
              b4 == Task("Comma", Null, Null, "")
              b5 == Task("Link", n, Null, "Par")
  <2>1. agenda' = <<b1, b2, b3, b4, b5>> \o Rest
    BY <1>1 DEF n, o, Adopt, Link
  <2>2. b1 \in TaskT /\ b2 \in TaskT /\ b3 \in TaskT /\ b4 \in TaskT /\ b5 \in TaskT
    BY <1>5, <1>6 DEF Get, Finish, Task, TaskT, Dos, Ops, Null
  <2>3. Rest \in Seq(TaskT) /\ <<b1, b2, b3, b4, b5>> \in Seq(TaskT)
    <3>1. Rest \in Seq(TaskT)
      BY <1>2
    <3>. HIDE DEF b1, b2, b3, b4, b5
    <3>. QED BY <2>2, <3>1
  <2>. HIDE DEF b1, b2, b3, b4, b5, a1, a2, a3, a4, a5
  <2>4. <<b1, b2, b3, b4, b5>> \o Rest
          = Cons(b1, Cons(b2, Cons(b3, Cons(b4, Cons(b5, Rest)))))
    BY <2>3, GoFive
  <2>. QED BY <2>1, <2>4 DEF a1, a2, a3, a4, a5, b1, b2, b3, b4, b5
<1>8. On(u, a1, "Link", "Par", Rest, {n} \ {Null}, {})
  BY <1>3, <1>5, <1>6, PushLoop
<1>. HIDE DEF a1
<1>9. On(u, a2, "Comma", "", a1, {}, {})
  <2>1. Ready(u, a1) /\ NextDo(a1) = "Link" /\ NextOp(a1) = "Par"
    BY <1>8 DEF On
  <2>. QED BY <1>5, <2>1, PushComma
<1>. HIDE DEF a2
<1>10. On(u, a3, "Finish", "PARAMETR", a2, {o}, {})
  <2>1. Ready(u, a2) /\ NextDo(a2) = "Comma" /\ HeldBy(a2) = ({n} \ {Null}) \cup HeldBy(Rest)
    BY <1>8, <1>9 DEF On
  <2>2. o \in Free(u.nodes) \ HeldBy(a2)
    BY <1>5, <1>6, <2>1
  <2>. QED BY <1>5, <2>1, <2>2, PushFinish
<1>. HIDE DEF a3
<1>11. On(u, a4, "Adopt", "rightChild", a3, {}, {})
  <2>1. /\ Ready(u, a3) /\ NextDo(a3) = "Finish" /\ StatementsOf(a3) = StatementsOf(Rest)
    BY <1>8, <1>9, <1>10 DEF On
  <2>2. o \notin StatementsOf(a3)
    BY <1>5, <2>1
  <2>. QED BY <1>5, <2>1, <2>2, PushAdopt DEF Adopts, Sides
<1>. HIDE DEF a4
<1>12. On(u, a5, "Get", "Bool", a4, {}, {})
  <2>1. Ready(u, a4) /\ NextDo(a4) = "Adopt"
    BY <1>11 DEF On
  <2>. QED BY <1>5, <2>1, PushGet
<1>. HIDE DEF a5
<1>13. Going(curToken, parserError, u, val, a5)
  <2>1. Blocked(a5)
    BY <1>11, <1>12 DEF On, Blockers
  <2>. QED BY <1>12, <2>1, Cooled DEF On, Cool
<1>14. Shape(curToken, parserError, u, val)
  <2>1. val \in 0 .. Len(u.nodes)
    BY <1>2, <1>5
  <2>. QED BY <1>2, <1>5, <2>1 DEF ParserInv, Shape
<1>. QED BY <1>1, <1>2, <1>7, <1>13, <1>14, GoesOn DEF u

(* A call waits for its arguments, of which there may be none.             *)
LEMMA CallKeeps ==
  ASSUME ParserInv, Call
  PROVE  ParserInv'
<1>1. /\ Running /\ agenda # <<>> /\ Me.do = "Get" /\ Me.op = "P" /\ curToken' = curToken + 2
      /\ \E kind \in Builtins \cup {"FUNC"}, str \in {"", This.id} :
           tree' = TreeInsert(Statement("CALL"), Inner, "leftChild", kind, str)
      /\ agenda' = <<Loop("Par", Null), AdoptAny(Inner, "rightChild"), Require("RB"),
                     Finish(Outer, "STATEMENT"), Check>> \o Rest
      /\ UNCHANGED <<input, parserError, val, status>>
  BY DEF Call, Getting, Doing, Me, Go, Eat, Rest
<1>2. /\ Sound(Me, Rest) /\ Ready(tree, Rest) /\ SoundTree(tree) /\ Rest \in Seq(TaskT)
      /\ val \in 0 .. Len(tree.nodes) /\ This \in Cells
      /\ curToken + 2 \in 0 .. Len(tokens) + MaxBeyond + 2
      /\ status = "parsing"
  BY <1>1, Start
<1>3. NextDo(Rest) \in Warm
  BY <1>1, <1>2 DEF Sound, Follows, Warm
<1>4. Opened(tree, tree', Rest, "CALL")
  <2>. DEFINE s == Statement("CALL")
  <2>1. PICK kind \in Builtins \cup {"FUNC"}, str \in {"", This.id} :
          tree' = TreeInsert(s, Inner, "leftChild", kind, str)
    BY <1>1
  <2>2. "CALL" \in Kinds /\ kind \in Kinds /\ str \in Strs
    BY <1>2 DEF Kinds, Strs
  <2>3. Opened(tree, s, Rest, "CALL")
    BY <1>2, <2>2, StatementSound, BegunOpens
  <2>. HIDE DEF s
  <2>4. SoundTree(s) /\ Inner \in DOMAIN s.nodes
    BY <2>3 DEF Opened, Inner
  <2>5. Inserted(s, tree', Inner, "leftChild", kind)
    BY <2>1, <2>2, <2>4, TreeInsertSound DEF Sides
  <2>. QED BY <1>2, <2>3, <2>5, OpenedInserts
<1>. DEFINE o == Outer
            i == Inner
            u == tree'
            a1 == Cons(Check, Rest)
            a2 == Cons(Finish(o, "STATEMENT"), a1)
            a3 == Cons(Require("RB"), a2)
            a4 == Cons(Task("AdoptAny", i, Null, "rightChild"), a3)
            a5 == Cons(Task("Loop", Null, Null, "Par"), a4)
<1>5. /\ SoundTree(u) /\ Ready(u, Rest) /\ Len(u.nodes) \in Nat
      /\ 0 .. Len(tree.nodes) \subseteq 0 .. Len(u.nodes)
      /\ o \in Free(u.nodes) \ HeldBy(Rest) /\ i \in DOMAIN u.nodes
      /\ o \in Nat /\ i \in Nat /\ o # i
      /\ i \notin StatementsOf(Rest)
  BY <1>2, <1>4, OpenedIs
<1>. HIDE DEF o, i, u
<1>6. agenda' = a5
  <2>. DEFINE b1 == Task("Loop", Null, Null, "Par")
              b2 == Task("AdoptAny", i, Null, "rightChild")
              b3 == Require("RB")
              b4 == Finish(o, "STATEMENT")
              b5 == Check
  <2>1. agenda' = <<b1, b2, b3, b4, b5>> \o Rest
    BY <1>1 DEF o, i, AdoptAny, Loop
  <2>2. b1 \in TaskT /\ b2 \in TaskT /\ b3 \in TaskT /\ b4 \in TaskT /\ b5 \in TaskT
    BY <1>5 DEF Finish, Require, Check, Task, TaskT, Dos, Ops, Null
  <2>3. Rest \in Seq(TaskT) /\ <<b1, b2, b3, b4, b5>> \in Seq(TaskT)
    <3>1. Rest \in Seq(TaskT)
      BY <1>2
    <3>. HIDE DEF b1, b2, b3, b4, b5
    <3>. QED BY <2>2, <3>1
  <2>. HIDE DEF b1, b2, b3, b4, b5, a1, a2, a3, a4, a5
  <2>4. <<b1, b2, b3, b4, b5>> \o Rest
          = Cons(b1, Cons(b2, Cons(b3, Cons(b4, Cons(b5, Rest)))))
    BY <2>3, GoFive
  <2>. QED BY <2>1, <2>4 DEF a1, a2, a3, a4, a5, b1, b2, b3, b4, b5
<1>7. On(u, a1, "Check", "", Rest, {}, {})
  BY <1>3, <1>5, PushCheck
<1>. HIDE DEF a1
<1>8. On(u, a2, "Finish", "STATEMENT", a1, {o}, {o})
  <2>1. Ready(u, a1) /\ NextDo(a1) = "Check" /\ HeldBy(a1) = HeldBy(Rest)
    BY <1>7 DEF On
  <2>2. o \in Free(u.nodes) \ HeldBy(a1)
    BY <1>5, <2>1
  <2>. QED BY <1>5, <2>1, <2>2, PushFinish
<1>. HIDE DEF a2
<1>9. On(u, a3, "Require", "RB", a2, {}, {})
  <2>1. Ready(u, a2) /\ NextDo(a2) \in Cold \cup Warm /\ Blocked(a2)
    BY <1>7, <1>8 DEF On, Cold, Blockers
  <2>. QED BY <1>5, <2>1, PushRequire
<1>. HIDE DEF a3
<1>10. On(u, a4, "AdoptAny", "rightChild", a3, {}, {})
  <2>1. /\ Ready(u, a3) /\ RequireThen(a3, Cold) /\ StatementsOf(a3) = {o} \cup StatementsOf(Rest)
    BY <1>7, <1>8, <1>9 DEF On, RequireThen, Cold
  <2>2. i \notin StatementsOf(a3)
    BY <1>5, <2>1
  <2>. QED BY <1>5, <2>1, <2>2, PushAdopt DEF Adopts, Sides
<1>. HIDE DEF a4
<1>11. On(u, a5, "Loop", "Par", a4, {}, {})
  <2>1. Ready(u, a4) /\ NextDo(a4) = "AdoptAny"
    BY <1>10 DEF On
  <2>2. Null \in Nat /\ {Null} \ {Null} = {}
    BY DEF Null
  <2>3. On(u, a5, "Loop", "Par", a4, {Null} \ {Null}, {})
    BY <1>5, <2>1, <2>2, PushLoop
  <2>. QED BY <2>2, <2>3
<1>. HIDE DEF a5
<1>12. Going(curToken', parserError, u, val, a5)
  <2>1. Blocked(a5)
    BY <1>10, <1>11 DEF On, Blockers
  <2>. QED BY <1>11, <2>1, LoopBegun DEF On
<1>13. Shape(curToken', parserError, u, val)
  <2>1. val \in 0 .. Len(u.nodes)
    BY <1>2, <1>5
  <2>. QED BY <1>1, <1>2, <1>5, <2>1 DEF ParserInv, Shape
<1>. QED BY <1>1, <1>2, <1>6, <1>12, <1>13, GoesOn DEF u

(* An element of an array waits for its index and then for its value.      *)
LEMMA ArrayStatementKeeps ==
  ASSUME ParserInv, ArrayStatement
  PROVE  ParserInv'
<1>1. /\ Running /\ agenda # <<>> /\ Me.do = "Loop" /\ Me.op = "A"
      /\ \/ This.kw = "SEMICOLON" /\ Crash
         \/ /\ tree' = Linked(Variable(Statement("ASSIGN"), This), Inner, "leftChild", Third)
            /\ curToken' = curToken + 2
            /\ agenda' = <<Get("Bool"), Adopt(Third, "rightChild"), Require("RAB"), Skip,
                           Get("Bool"), Adopt(Inner, "rightChild"), Require("SEMICOLON"),
                           Finish(Outer, "STATEMENT"), Check, Link(Me.n, "A")>> \o Rest
            /\ UNCHANGED <<input, parserError, val, status>>
  BY DEF ArrayStatement, InBlock, Looping, Doing, Me, Go, Rest, Eat
<1>2. /\ Sound(Me, Rest) /\ Ready(tree, Rest) /\ SoundTree(tree) /\ Rest \in Seq(TaskT)
      /\ HeldBy(agenda) = Held(Me) \cup HeldBy(Rest) /\ HeldBy(agenda) \subseteq Free(tree.nodes)
      /\ Me.n \in 0 .. Len(tree.nodes) /\ val \in 0 .. Len(tree.nodes)
      /\ curToken + 2 \in 0 .. Len(tokens) + MaxBeyond + 2 /\ curToken \in Nat
      /\ status = "parsing" /\ This \in Cells
  BY <1>1, Start
<1>3. /\ Held(Me) = {Me.n} \ {Null} /\ Held(Me) \cap HeldBy(Rest) = {}
      /\ NextDo(Rest) \in Adopts
  BY <1>1, <1>2 DEF Sound, Follows, Held, Holders
<1>4. CASE This.kw = "SEMICOLON" /\ Crash
  <2>1. SemicolonInstead
    <3>1. curToken \in 0 .. curToken /\ \A j \in curToken + 1 .. curToken - 1 : FALSE
      BY <1>2
    <3>. QED BY <1>4, <3>1 DEF SemicolonInstead, This
  <2>. QED BY <1>2, <1>4, <2>1, Crashes
<1>5. CASE /\ tree' = Linked(Variable(Statement("ASSIGN"), This), Inner, "leftChild", Third)
           /\ curToken' = curToken + 2
           /\ agenda' = <<Get("Bool"), Adopt(Third, "rightChild"), Require("RAB"), Skip,
                          Get("Bool"), Adopt(Inner, "rightChild"), Require("SEMICOLON"),
                          Finish(Outer, "STATEMENT"), Check, Link(Me.n, "A")>> \o Rest
           /\ UNCHANGED <<input, parserError, val, status>>
  <2>1. Opened(tree, tree', Rest, "ASSIGN") /\ Third \in DOMAIN tree'.nodes
    BY <1>2, <1>5, AssignmentBegins
  <2>. DEFINE n == Me.n
              o == Outer
              i == Inner
              x == Third
              u == tree'
              a1 == Cons(Task("Link", n, Null, "A"), Rest)
              a2 == Cons(Check, a1)
              a3 == Cons(Finish(o, "STATEMENT"), a2)
              a4 == Cons(Require("SEMICOLON"), a3)
              a5 == Cons(Task("Adopt", i, Null, "rightChild"), a4)
              a6 == Cons(Get("Bool"), a5)
              a7 == Cons(Skip, a6)
              a8 == Cons(Require("RAB"), a7)
              a9 == Cons(Task("Adopt", x, Null, "rightChild"), a8)
              a10 == Cons(Get("Bool"), a9)
  <2>2. /\ SoundTree(u) /\ Ready(u, Rest) /\ Len(u.nodes) \in Nat
        /\ 0 .. Len(tree.nodes) \subseteq 0 .. Len(u.nodes)
        /\ o \in Free(u.nodes) \ HeldBy(Rest) /\ i \in DOMAIN u.nodes /\ x \in DOMAIN u.nodes
        /\ o \in Nat /\ i \in Nat /\ x \in Nat /\ o # i /\ x # o
        /\ o \notin Free(tree.nodes)
        /\ i \notin StatementsOf(Rest) /\ x \notin StatementsOf(Rest)
        /\ Free(tree.nodes) \subseteq Free(u.nodes)
    BY <1>2, <2>1, OpenedIs
  <2>3. n \in Nat /\ (n = Null \/ n \in Free(tree.nodes) \ HeldBy(Rest))
    <3>1. Len(tree.nodes) \in Nat
      BY <1>2, NodesOf
    <3>. QED BY <1>2, <1>3, <3>1
  <2>. HIDE DEF n, o, i, x, u
  <2>4. agenda' = a10
    <3>. DEFINE b1 == Get("Bool")
                b2 == Task("Adopt", x, Null, "rightChild")
                b3 == Require("RAB")
                b4 == Skip
                b5 == Task("Adopt", i, Null, "rightChild")
                b6 == Require("SEMICOLON")
                b7 == Finish(o, "STATEMENT")
                b8 == Check
                b9 == Task("Link", n, Null, "A")
    <3>1. agenda' = <<b1, b2, b3, b4, b1, b5, b6, b7, b8, b9>> \o Rest
      BY <1>5 DEF n, o, i, x, Adopt, Link
    <3>2. b1 \in TaskT /\ b2 \in TaskT /\ b3 \in TaskT /\ b4 \in TaskT /\ b5 \in TaskT
      BY <2>2 DEF Get, Require, Skip, Task, TaskT, Dos, Ops, Null
    <3>3. b6 \in TaskT /\ b7 \in TaskT /\ b8 \in TaskT /\ b9 \in TaskT
      BY <2>2, <2>3 DEF Require, Finish, Check, Task, TaskT, Dos, Ops, Null
    <3>4. Rest \in Seq(TaskT) /\ <<b1, b2, b3, b4, b1, b5, b6, b7, b8, b9>> \in Seq(TaskT)
      <4>1. Rest \in Seq(TaskT)
        BY <1>2
      <4>. HIDE DEF b1, b2, b3, b4, b5, b6, b7, b8, b9
      <4>. QED BY <3>2, <3>3, <4>1
    <3>. HIDE DEF b1, b2, b3, b4, b5, b6, b7, b8, b9, a1, a2, a3, a4, a5, a6, a7, a8, a9, a10
    <3>5. <<b1, b2, b3, b4, b1, b5, b6, b7, b8, b9>> \o Rest
            = Cons(b1, Cons(b2, Cons(b3, Cons(b4, Cons(b1, Cons(b5, Cons(b6, Cons(b7,
              Cons(b8, Cons(b9, Rest))))))))))
      BY <3>4, GoTen
    <3>. QED BY <3>1, <3>5 DEF a1, a2, a3, a4, a5, a6, a7, a8, a9, a10,
                               b1, b2, b3, b4, b5, b6, b7, b8, b9
  <2>5. On(u, a1, "Link", "A", Rest, {n} \ {Null}, {})
    BY <1>3, <2>2, <2>3, PushLoop
  <2>. HIDE DEF a1
  <2>6. On(u, a2, "Check", "", a1, {}, {})
    <3>1. Ready(u, a1) /\ NextDo(a1) \in Warm
      BY <2>5 DEF On, Warm
    <3>. QED BY <2>2, <3>1, PushCheck
  <2>. HIDE DEF a2
  <2>7. On(u, a3, "Finish", "STATEMENT", a2, {o}, {o})
    <3>1. /\ Ready(u, a2) /\ NextDo(a2) = "Check"
          /\ HeldBy(a2) = ({n} \ {Null}) \cup HeldBy(Rest)
      BY <2>5, <2>6 DEF On
    <3>2. o \in Free(u.nodes) \ HeldBy(a2)
      BY <2>2, <2>3, <3>1
    <3>. QED BY <2>2, <3>1, <3>2, PushFinish
  <2>. HIDE DEF a3
  <2>8. On(u, a4, "Require", "SEMICOLON", a3, {}, {})
    <3>1. Ready(u, a3) /\ NextDo(a3) \in Cold \cup Warm /\ Blocked(a3)
      BY <2>6, <2>7 DEF On, Cold, Blockers
    <3>. QED BY <2>2, <3>1, PushRequire
  <2>. HIDE DEF a4
  <2>9. On(u, a5, "Adopt", "rightChild", a4, {}, {})
    <3>1. /\ Ready(u, a4) /\ RequireThen(a4, Cold)
          /\ StatementsOf(a4) = {o} \cup StatementsOf(Rest)
      BY <2>5, <2>6, <2>7, <2>8 DEF On, RequireThen, Cold
    <3>2. i \notin StatementsOf(a4)
      BY <2>2, <3>1
    <3>. QED BY <2>2, <3>1, <3>2, PushAdopt DEF Adopts, Sides
  <2>. HIDE DEF a5
  <2>10. On(u, a6, "Get", "Bool", a5, {}, {})
    <3>1. Ready(u, a5) /\ NextDo(a5) = "Adopt"
      BY <2>9 DEF On
    <3>. QED BY <2>2, <3>1, PushGet
  <2>. HIDE DEF a6
  <2>11. On(u, a7, "Skip", "", a6, {}, {})
    <3>1. Ready(u, a6) /\ NextDo(a6) = "Get"
      BY <2>10 DEF On
    <3>. QED BY <2>2, <3>1, PushSkip
  <2>. HIDE DEF a7
  <2>12. On(u, a8, "Require", "RAB", a7, {}, {})
    <3>1. Ready(u, a7) /\ NextDo(a7) \in Cold \cup Warm /\ Blocked(a7)
      BY <2>9, <2>10, <2>11 DEF On, Cold, Blockers
    <3>. QED BY <2>2, <3>1, PushRequire
  <2>. HIDE DEF a8
  <2>13. On(u, a9, "Adopt", "rightChild", a8, {}, {})
    <3>1. Ready(u, a8) /\ RequireThen(a8, Cold)
      BY <2>11, <2>12 DEF On, RequireThen, Cold
    <3>2. StatementsOf(a8) = {o} \cup StatementsOf(Rest)
      <4>1. StatementsOf(a4) = {o} \cup StatementsOf(Rest)
        BY <2>5, <2>6, <2>7, <2>8 DEF On
      <4>. QED BY <2>9, <2>10, <2>11, <2>12, <4>1 DEF On
    <3>3. x \notin StatementsOf(a8)
      BY <2>2, <3>2
    <3>. QED BY <2>2, <3>1, <3>3, PushAdopt DEF Adopts, Sides
  <2>. HIDE DEF a9
  <2>14. On(u, a10, "Get", "Bool", a9, {}, {})
    <3>1. Ready(u, a9) /\ NextDo(a9) = "Adopt"
      BY <2>13 DEF On
    <3>. QED BY <2>2, <3>1, PushGet
  <2>. HIDE DEF a10
  <2>15. Going(curToken', parserError, u, val, a10)
    <3>1. Blocked(a10)
      BY <2>13, <2>14 DEF On, Blockers
    <3>. QED BY <2>14, <3>1, Cooled DEF On, Cool
  <2>16. Shape(curToken', parserError, u, val)
    <3>1. val \in 0 .. Len(u.nodes)
      BY <1>2, <2>2
    <3>. QED BY <1>2, <1>5, <2>2, <3>1 DEF ParserInv, Shape
  <2>. QED BY <1>2, <1>5, <2>4, <2>15, <2>16, GoesOn DEF u
<1>. QED BY <1>1, <1>4, <1>5

(* A function with its name to the left: main is a node of its own, any    *)
(* other name a variable that is made a function.                          *)
Define == TreeInsert(Statement("DEFINE"), Inner, "leftChild", "FUNCTION", "")

(* The two ways a function begins.                                         *)
Defined(u) ==
  \/ u = TreeInsert(Define, Third, "leftChild", "MAIN", "")
  \/ u = Linked(SetNodeType(Variable(Define, This), NewNode(Define), "FUNC"),
                Third, "leftChild", NewNode(Define))

(* Both leave a definition with its name below it.                         *)
LEMMA DefinitionBegins ==
  ASSUME SoundTree(tree), NEW a, Ready(tree, a), This \in Cells, NEW u, Defined(u)
  PROVE  Opened(tree, u, a, "DEFINE") /\ Third \in DOMAIN u.nodes
<1>. DEFINE s == Statement("DEFINE")
            d == Define
<1>1. "DEFINE" \in Kinds /\ "FUNCTION" \in Kinds /\ "MAIN" \in Kinds /\ "FUNC" \in Kinds /\ "" \in Strs
      /\ "leftChild" \in Sides
  BY DEF Kinds, Strs, Sides
<1>2. Opened(tree, s, a, "DEFINE") /\ NewNode(s) = Third
  BY <1>1, StatementSound, BegunOpens DEF Third
<1>3. d = TreeInsert(s, Inner, "leftChild", "FUNCTION", "")
  BY DEF Define
<1>. HIDE DEF s, d
<1>4. Inserted(s, d, Inner, "leftChild", "FUNCTION")
  <2>1. SoundTree(s) /\ Inner \in DOMAIN s.nodes
    BY <1>2 DEF Opened, Inner
  <2>. QED BY <1>1, <1>3, <2>1, TreeInsertSound
<1>5. Opened(tree, d, a, "DEFINE") /\ NewNode(d) = Third + 1 /\ Third \in DOMAIN d.nodes
  BY <1>2, <1>4, OpenedInserts
<1>6. SoundTree(d)
  BY <1>5 DEF Opened
<1>7. CASE u = TreeInsert(d, Third, "leftChild", "MAIN", "")
  <2>1. Inserted(d, u, Third, "leftChild", "MAIN")
    BY <1>1, <1>5, <1>6, <1>7, TreeInsertSound
  <2>2. Opened(tree, u, a, "DEFINE")
    BY <1>5, <2>1, OpenedInserts
  <2>3. DOMAIN d.nodes \subseteq DOMAIN u.nodes
    BY <1>6, <2>1, InsertedIs
  <2>. QED BY <1>5, <2>2, <2>3
<1>8. CASE u = Linked(SetNodeType(Variable(d, This), NewNode(d), "FUNC"),
                      Third, "leftChild", NewNode(d))
  <2>. DEFINE w == Variable(d, This)
              v == SetNodeType(w, NewNode(d), "FUNC")
  <2>9. u = Linked(v, Third, "leftChild", NewNode(d))
    BY <1>8
  <2>1. Constructed(d, w, Null, Null)
    BY <1>6, VariableSound
  <2>2. /\ Opened(tree, w, a, "DEFINE") /\ NewNode(d) \in Free(w.nodes)
        /\ NewNode(d) \notin HeldBy(a) /\ NewNode(d) \notin DOMAIN d.nodes
    BY <1>5, <2>1, OpenedConstructs
  <2>. HIDE DEF w
  <2>3. SoundTree(w) /\ Third \in DOMAIN w.nodes
    <3>1. Grown(d, w, 1) /\ 1 \in Nat
      BY <2>1 DEF Constructed
    <3>. QED BY <1>5, <1>6, <3>1, GrownIs
  <2>4. Retyped(w, v, NewNode(d), "FUNC")
    BY <1>1, <2>2, <2>3, TypeSound DEF Free
  <2>. HIDE DEF v
  <2>5. /\ NewNode(d) # NewNode(tree) + 1 /\ NewNode(d) # NewNode(tree)
        /\ NewNode(d) \notin Free(tree.nodes)
    <3>1. DOMAIN tree.nodes = 1 .. Len(tree.nodes) /\ NewNode(tree) = Len(tree.nodes) + 1
          /\ Len(tree.nodes) \in Nat
      BY NewNodes
    <3>2. NewNode(d) = Third + 1 /\ Third = NewNode(tree) + 2
      BY <1>5 DEF Third
    <3>3. NewNode(d) = Len(tree.nodes) + 4
      BY <3>1, <3>2
    <3>4. /\ NewNode(d) # NewNode(tree) + 1 /\ NewNode(d) # NewNode(tree)
          /\ NewNode(d) \notin DOMAIN tree.nodes
      BY <3>1, <3>3
    <3>. QED BY <3>4 DEF Free
  <2>6. Opened(tree, v, a, "DEFINE") /\ DOMAIN v.nodes = DOMAIN w.nodes /\ Free(v.nodes) = Free(w.nodes)
    BY <2>2, <2>4, <2>5, OpenedRetypes
  <2>7. Hung(v, u, Third, "leftChild", NewNode(d))
    <3>1. SoundTree(v) /\ Third \in DOMAIN v.nodes /\ NewNode(d) \in Free(v.nodes)
      BY <2>2, <2>3, <2>6 DEF Opened
    <3>. QED BY <1>1, <2>9, <3>1, LinkedSound
  <2>8. Opened(tree, u, a, "DEFINE") /\ DOMAIN u.nodes = DOMAIN v.nodes
    BY <2>2, <2>5, <2>6, <2>7, OpenedHangs
  <2>. QED BY <2>3, <2>6, <2>8
<1>. QED BY <1>7, <1>8 DEF d, Defined

(* A function waits for its parameters, its body and the question for an   *)
(* error.                                                                  *)
LEMMA FunctionKeeps ==
  ASSUME ParserInv, Function
  PROVE  ParserInv'
<1>1. /\ Running /\ agenda # <<>> /\ Me.do = "Loop" /\ Me.op = "G"
      /\ \/ This.kw = "SEMICOLON" /\ Crash
         \/ /\ Defined(tree')
            /\ curToken' = curToken + 2
            /\ agenda' = <<Loop("Par", Null), AdoptAny(Third, "rightChild"), Require("RB"),
                           Task("Body", Outer, Inner, ""), Check, Link(Me.n, "G")>> \o Rest
            /\ UNCHANGED <<input, parserError, val, status>>
  BY DEF Function, Looping, Doing, Me, Go, Rest, Eat, Define, Defined
<1>2. /\ Sound(Me, Rest) /\ Ready(tree, Rest) /\ SoundTree(tree) /\ Rest \in Seq(TaskT)
      /\ HeldBy(agenda) = Held(Me) \cup HeldBy(Rest) /\ HeldBy(agenda) \subseteq Free(tree.nodes)
      /\ Me.n \in 0 .. Len(tree.nodes) /\ val \in 0 .. Len(tree.nodes)
      /\ curToken + 2 \in 0 .. Len(tokens) + MaxBeyond + 2 /\ curToken \in Nat
      /\ status = "parsing" /\ This \in Cells
  BY <1>1, Start
<1>3. /\ Held(Me) = {Me.n} \ {Null} /\ Held(Me) \cap HeldBy(Rest) = {}
      /\ Rest = <<>>
  BY <1>1, <1>2 DEF Sound, Follows, Held, Holders
<1>4. CASE This.kw = "SEMICOLON" /\ Crash
  <2>1. SemicolonInstead
    <3>1. curToken \in 0 .. curToken /\ \A j \in curToken + 1 .. curToken - 1 : FALSE
      BY <1>2
    <3>. QED BY <1>4, <3>1 DEF SemicolonInstead, This
  <2>. QED BY <1>2, <1>4, <2>1, Crashes
<1>5. CASE /\ Defined(tree')
           /\ curToken' = curToken + 2
           /\ agenda' = <<Loop("Par", Null), AdoptAny(Third, "rightChild"), Require("RB"),
                          Task("Body", Outer, Inner, ""), Check, Link(Me.n, "G")>> \o Rest
           /\ UNCHANGED <<input, parserError, val, status>>
  <2>1. Opened(tree, tree', Rest, "DEFINE") /\ Third \in DOMAIN tree'.nodes
    BY <1>2, <1>5, DefinitionBegins
  <2>. DEFINE n == Me.n
              o == Outer
              i == Inner
              x == Third
              u == tree'
              a1 == Cons(Task("Link", n, Null, "G"), Rest)
              a2 == Cons(Check, a1)
              a3 == Cons(Task("Body", o, i, ""), a2)
              a4 == Cons(Require("RB"), a3)
              a5 == Cons(Task("AdoptAny", x, Null, "rightChild"), a4)
              a6 == Cons(Task("Loop", Null, Null, "Par"), a5)
  <2>2. /\ SoundTree(u) /\ Ready(u, Rest) /\ Len(u.nodes) \in Nat
        /\ 0 .. Len(tree.nodes) \subseteq 0 .. Len(u.nodes)
        /\ o \in Free(u.nodes) \ HeldBy(Rest) /\ i \in DOMAIN u.nodes /\ x \in DOMAIN u.nodes
        /\ o \in Nat /\ i \in Nat /\ x \in Nat /\ o # i /\ x # o
        /\ o \notin Free(tree.nodes)
        /\ i \notin StatementsOf(Rest) /\ x \notin StatementsOf(Rest)
        /\ Free(tree.nodes) \subseteq Free(u.nodes)
    BY <1>2, <2>1, OpenedIs
  <2>3. n \in Nat /\ (n = Null \/ n \in Free(tree.nodes) \ HeldBy(Rest))
    <3>1. Len(tree.nodes) \in Nat
      BY <1>2, NodesOf
    <3>. QED BY <1>2, <1>3, <3>1
  <2>. HIDE DEF n, o, i, x, u
  <2>4. agenda' = a6
    <3>. DEFINE b1 == Task("Loop", Null, Null, "Par")
                b2 == Task("AdoptAny", x, Null, "rightChild")
                b3 == Require("RB")
                b4 == Task("Body", o, i, "")
                b5 == Check
                b6 == Task("Link", n, Null, "G")
    <3>1. agenda' = <<b1, b2, b3, b4, b5, b6>> \o Rest
      BY <1>5 DEF n, o, i, x, AdoptAny, Link, Loop
    <3>2. b1 \in TaskT /\ b2 \in TaskT /\ b3 \in TaskT /\ b4 \in TaskT
      BY <2>2 DEF Require, Task, TaskT, Dos, Ops, Null
    <3>3. b5 \in TaskT /\ b6 \in TaskT
      BY <2>2, <2>3 DEF Check, Task, TaskT, Dos, Ops, Null
    <3>4. Rest \in Seq(TaskT) /\ <<b1, b2, b3, b4, b5, b6>> \in Seq(TaskT)
      <4>1. Rest \in Seq(TaskT)
        BY <1>2
      <4>. HIDE DEF b1, b2, b3, b4, b5, b6
      <4>. QED BY <3>2, <3>3, <4>1
    <3>. HIDE DEF b1, b2, b3, b4, b5, b6, a1, a2, a3, a4, a5, a6
    <3>5. <<b1, b2, b3, b4, b5, b6>> \o Rest
            = Cons(b1, Cons(b2, Cons(b3, Cons(b4, Cons(b5, Cons(b6, Rest))))))
      BY <3>4, GoSix
    <3>. QED BY <3>1, <3>5 DEF a1, a2, a3, a4, a5, a6, b1, b2, b3, b4, b5, b6
  <2>5. On(u, a1, "Link", "G", Rest, {n} \ {Null}, {})
    BY <1>3, <2>2, <2>3, PushLoop
  <2>. HIDE DEF a1
  <2>6. On(u, a2, "Check", "", a1, {}, {})
    <3>1. Ready(u, a1) /\ NextDo(a1) \in Warm
      BY <2>5 DEF On, Warm
    <3>. QED BY <2>2, <3>1, PushCheck
  <2>. HIDE DEF a2
  <2>7. On(u, a3, "Body", "", a2, {o}, {})
    <3>1. /\ Ready(u, a2) /\ NextDo(a2) = "Check"
          /\ HeldBy(a2) = ({n} \ {Null}) \cup HeldBy(Rest)
          /\ StatementsOf(a2) = StatementsOf(Rest)
      BY <2>5, <2>6 DEF On
    <3>2. o \in Free(u.nodes) \ HeldBy(a2) /\ i \notin StatementsOf(a2)
      BY <2>2, <2>3, <3>1
    <3>3. "Body" \in Branches
      BY DEF Branches
    <3>. QED BY <2>2, <3>1, <3>2, <3>3, PushBranch
  <2>. HIDE DEF a3
  <2>8. On(u, a4, "Require", "RB", a3, {}, {})
    <3>1. Ready(u, a3) /\ NextDo(a3) \in Cold \cup Warm /\ Blocked(a3)
      BY <2>6, <2>7 DEF On, Cold, Blockers
    <3>. QED BY <2>2, <3>1, PushRequire
  <2>. HIDE DEF a4
  <2>9. On(u, a5, "AdoptAny", "rightChild", a4, {}, {})
    <3>1. /\ Ready(u, a4) /\ RequireThen(a4, Cold)
          /\ StatementsOf(a4) = StatementsOf(Rest)
      BY <2>5, <2>6, <2>7, <2>8 DEF On, RequireThen, Cold
    <3>2. x \notin StatementsOf(a4)
      BY <2>2, <3>1
    <3>. QED BY <2>2, <3>1, <3>2, PushAdopt DEF Adopts, Sides
  <2>. HIDE DEF a5
  <2>10. On(u, a6, "Loop", "Par", a5, {}, {})
    <3>1. Ready(u, a5) /\ NextDo(a5) = "AdoptAny"
      BY <2>9 DEF On
    <3>2. Null \in Nat /\ {Null} \ {Null} = {}
      BY DEF Null
    <3>3. On(u, a6, "Loop", "Par", a5, {Null} \ {Null}, {})
      BY <2>2, <3>1, <3>2, PushLoop
    <3>. QED BY <3>2, <3>3
  <2>. HIDE DEF a6
  <2>11. Going(curToken', parserError, u, val, a6)
    <3>1. Blocked(a6)
      BY <2>9, <2>10 DEF On, Blockers
    <3>. QED BY <2>10, <3>1, LoopBegun DEF On
  <2>12. Shape(curToken', parserError, u, val)
    <3>1. val \in 0 .. Len(u.nodes)
      BY <1>2, <2>2
    <3>. QED BY <1>2, <1>5, <2>2, <3>1 DEF ParserInv, Shape
  <2>. QED BY <1>2, <1>5, <2>4, <2>11, <2>12, GoesOn DEF u
<1>. QED BY <1>1, <1>4, <1>5

-----------------------------------------------------------------------------
(* With nothing left to do any tree will do.                               *)
LEMMA EmptyReady ==
  ASSUME NEW t
  PROVE  Ready(t, <<>>)
<1>1. DOMAIN <<>> = {} /\ <<>> \in Seq(TaskT)
  OBVIOUS
<1>2. Agenda(<<>>)
  BY <1>1 DEF Agenda
<1>3. GlobalsOf(<<>>) = {}
  BY <1>1 DEF GlobalsOf
<1>. QED BY <1>2, <1>3, NothingLeft DEF Ready, Safe

(* TreeCtor makes a sound tree, of one node that stays unused.             *)
LEMMA TreeBegins ==
  SoundTree(TreeCtor(NoTree))
<1>. DEFINE t == TreeCtor(NoTree)
            N == <<Blank>>
<1>1. N \in Seq(NodeT) /\ Len(N) = 1 /\ DOMAIN N = 1 .. 1 /\ N[1] = Blank
  BY BlankT
<1>2. Calloc(NoTree) = [root |-> 0, size |-> 0, status |-> "TREE_NOT_CONSTRUCTED", nodes |-> N]
  <2>1. Append(<<>>, Blank) = N
    OBVIOUS
  <2>. QED BY <2>1 DEF Calloc, NoTree, Null
<1>3. NewNode(NoTree) = 1
  BY DEF NewNode, NoTree
<1>. HIDE DEF N
<1>4. t = [root |-> 1, size |-> 1, status |-> "TREE_CONSTRUCTED", nodes |-> N]
  <2>. DEFINE c == Calloc(NoTree)
              k == NewNode(NoTree)
  <2>1. t = [c EXCEPT !.root = k, !.size = 1, !.status = "TREE_CONSTRUCTED"]
    BY DEF TreeCtor
  <2>2. c = [root |-> 0, size |-> 0, status |-> "TREE_NOT_CONSTRUCTED", nodes |-> N] /\ k = 1
    BY <1>2, <1>3
  <2>. HIDE DEF c, k, t
  <2>. QED BY <2>1, <2>2
<1>5. t \in TreeT
  BY <1>1, <1>4 DEF TreeT
<1>6. /\ t.nodes = N /\ t.root = 1
  BY <1>4
<1>7. Blank.live = TRUE /\ Blank.parent = Null /\ Blank.leftChild = Null /\ Blank.rightChild = Null
  BY DEF Blank
<1>8. Tied(N)
  <2>1. Null \in 0 .. Len(N)
    BY <1>1 DEF Null
  <2>2. \A n \in DOMAIN N : N[n] = Blank
    BY <1>1
  <2>. QED BY <1>7, <2>1, <2>2 DEF Tied
<1>9. t.root \in 0 .. Len(t.nodes)
  <2>. HIDE DEF t
  <2>1. 1 \in 0 .. 1
    OBVIOUS
  <2>. QED BY <1>1, <1>6, <2>1
<1>. QED BY <1>5, <1>6, <1>8, <1>9 DEF SoundTree

(* The invariant holds before the first token.                             *)
LEMMA InvInit ==
  ASSUME Init
  PROVE  ParserInv
<1>1. /\ tokens \in TokenArrays /\ beyond \in BeyondTokens /\ curToken = 0 /\ parserError = FALSE
      /\ val = 0 /\ status = "parsing" /\ tree = TreeCtor(NoTree)
      /\ agenda = <<Loop("G", Null)>>
  BY DEF Init, Idle, Null
<1>2. SoundTree(tree)
  BY <1>1, TreeBegins
<1>3. Len(tokens) \in Nat /\ Len(tree.nodes) \in Nat
  <2>1. 0 \in Nat
    OBVIOUS
  <2>. QED BY <1>1, <1>2, <2>1, CellsAre, NodesOf
<1>4. Shape(curToken, parserError, tree, val)
  <2>1. 0 \in 0 .. Len(tokens) + MaxBeyond + 2
    BY <1>3, BoundsAssumption
  <2>2. 0 \in 0 .. Len(tree.nodes)
    BY <1>3
  <2>. QED BY <1>1, <1>2, <2>1, <2>2 DEF Shape
<1>. DEFINE e == <<>>
            a == Cons(Task("Loop", Null, Null, "G"), e)
<1>5. agenda = a
  <2>. DEFINE b == Task("Loop", Null, Null, "G")
  <2>1. agenda = <<b>>
    BY <1>1 DEF Loop
  <2>. HIDE DEF b
  <2>2. <<b>> \o <<>> = <<b>>
    OBVIOUS
  <2>. QED BY <2>1, <2>2 DEF Cons, b
<1>6. On(tree, a, "Loop", "G", e, {Null} \ {Null}, {})
  <2>1. Ready(tree, e) /\ e = <<>> /\ Null \in Nat
    BY EmptyReady DEF Null
  <2>. HIDE DEF e
  <2>. QED BY <1>2, <2>1, PushLoop
<1>. HIDE DEF a
<1>7. Going(curToken, parserError, tree, val, a)
  BY <1>1, <1>6, LoopBegun DEF On
<1>8. Fits(a, tree.nodes)
  BY <1>7 DEF Going, Ready, Safe
<1>. QED BY <1>1, <1>4, <1>5, <1>7, <1>8 DEF ParserInv

(* The invariant stays while nothing happens.                              *)
LEMMA InvStutters ==
  ASSUME ParserInv, UNCHANGED vars
  PROVE  ParserInv'
<1>1. /\ tokens' = tokens /\ beyond' = beyond /\ status' = status /\ curToken' = curToken
      /\ parserError' = parserError /\ tree' = tree /\ val' = val /\ agenda' = agenda
  BY DEF vars, input
<1>2. CASE status = "parsing"
  <2>1. Shape(curToken', parserError', tree', val') /\ Going(curToken', parserError', tree', val', agenda')
    BY <1>1, <1>2 DEF ParserInv
  <2>. QED BY <1>1, <1>2, <2>1, GoesOn DEF input
<1>3. CASE status # "parsing"
  <2>1. Shape(curToken, parserError, tree, val)'
    BY <1>1 DEF ParserInv, Shape
  <2>2. Fits(agenda, tree.nodes)'
    BY <1>1 DEF ParserInv
  <2>3. status = "done" => Finished'
    BY <1>1 DEF ParserInv, Finished, This, Cell
  <2>4. status = "crash" => (EmptyBlock \/ SemicolonInstead)'
    BY <1>1 DEF ParserInv, EmptyBlock, SemicolonInstead, This, Cell
  <2>. QED BY <1>1, <1>3, <2>1, <2>2, <2>3, <2>4 DEF ParserInv
<1>. QED BY <1>2, <1>3

(* The invariant stays after every step of the parser: one lemma for each. *)
LEMMA InvNext ==
  ASSUME ParserInv, [Next]_vars
  PROVE  ParserInv'
<1>1. CASE Function \/ FunctionBody \/ GlobalVariable \/ EndOfProgram \/ Parameter \/ Comma
  BY <1>1, FunctionKeeps, FunctionBodyKeeps, GlobalVariableKeeps, EndOfProgramKeeps,
     ParameterKeeps, CommaKeeps
<1>2. CASE EndOfList \/ LinkStatement \/ AssignStatement \/ ArrayStatement \/ OtherStatement
  BY <1>2, EndOfListKeeps, LinkStatementKeeps, AssignStatementKeeps, ArrayStatementKeeps,
     OtherStatementKeeps
<1>3. CASE If \/ Then \/ Else \/ While \/ WhileBody \/ Return \/ ReturnValue \/ Expression
  BY <1>3, IfKeeps, ThenKeeps, ElseKeeps, WhileKeeps, WhileBodyKeeps, ReturnKeeps,
     ReturnValueKeeps, ExpressionKeeps
<1>4. CASE FirstOperand \/ Operator \/ Combine \/ Parenthesis \/ Number \/ Call \/ Identifier
  BY <1>4, FirstOperandKeeps, OperatorKeeps, CombineKeeps, ParenthesisKeeps, NumberKeeps,
     CallKeeps, IdentifierKeeps
<1>5. CASE AdoptNode \/ RequireToken \/ SkipToken \/ FinishNode \/ NoErrorHere \/ Unwind
           \/ LeaveMemory
  BY <1>5, AdoptNodeKeeps, RequireTokenKeeps, SkipTokenKeeps, FinishNodeKeeps, NoErrorHereKeeps,
     UnwindKeeps, LeaveMemoryKeeps
<1>6. CASE UNCHANGED vars
  BY <1>6, InvStutters
<1>. QED BY <1>1, <1>2, <1>3, <1>4, <1>5, <1>6 DEF Next

-----------------------------------------------------------------------------
(* Whatever the tokens are, the tasks under way and the tree fit together  *)
(* at every step of the parser.                                            *)
THEOREM ParserInvariant == Spec => []ParserInv
<1>1. Init => ParserInv
  BY InvInit
<1>2. ParserInv /\ [Next]_vars => ParserInv'
  BY InvNext
<1>. QED BY <1>1, <1>2, PTL DEF Spec

(* No pointer of a node and no local variable leads out of the nodes, and  *)
(* no look ahead goes further beyond the tokens than the bound says.       *)
THEOREM TypeCorrect == Spec => []TypeOK
<1>1. ASSUME ParserInv PROVE TypeOK
  <2>1. /\ Shape(curToken, parserError, tree, val) /\ Fits(agenda, tree.nodes)
        /\ status \in {"parsing", "done", "crash", "undefined"}
    BY <1>1 DEF ParserInv
  <2>2. /\ SoundTree(tree) /\ val \in NodeIds /\ parserError \in BOOLEAN
        /\ curToken \in 0 .. Len(tokens) + MaxBeyond + 2
    BY <2>1 DEF Shape, NodeIds
  <2>3. DOMAIN tree.nodes = 1 .. Len(tree.nodes) /\ Len(tree.nodes) \in Nat /\ Tied(tree.nodes)
        /\ tree.root \in NodeIds
    BY <2>2, NodesOf DEF NodeIds
  <2>4. DOMAIN tree.nodes \subseteq NodeIds
    BY <2>3 DEF NodeIds
  <2>5. \A n \in DOMAIN tree.nodes : /\ tree.nodes[n].parent \in NodeIds
                                     /\ Children(tree, n) \subseteq NodeIds
    BY <2>3, <2>4 DEF Tied, Children, NodeIds
  <2>6. \A i \in DOMAIN agenda : agenda[i].n \in NodeIds /\ agenda[i].m \in NodeIds
    BY <2>1 DEF Fits, NodeIds
  <2>. QED BY <2>1, <2>2, <2>3, <2>5, <2>6 DEF TypeOK
<1>. QED BY <1>1, ParserInvariant, PTL

(* The tree that Parser leaves is sound whatever the tokens were: the      *)
(* pointers the grammar functions tie by hand agree from the root down,    *)
(* and a syntax error leaves no tree but that of a global variable with no *)
(* semicolon.                                                              *)
THEOREM TreeIsSound == Spec => []TreeSound
<1>1. ASSUME ParserInv PROVE TreeSound
  <2>. SUFFICES ASSUME status = "done", tree.root # Null
       PROVE  /\ LinksAgree(tree, tree.root)
              /\ parserError => IsGlobal(tree.root) /\ This.kw # "SEMICOLON"
    BY DEF TreeSound
  <2>1. /\ SoundTree(tree) /\ tree.root \in DOMAIN tree.nodes
        /\ parserError => Global(tree.root, tree.nodes) /\ This.kw # "SEMICOLON"
    BY <1>1 DEF ParserInv, Shape, Finished
  <2>2. LinksAgree(tree, tree.root)
    BY <2>1, LinksAgreeBelow
  <2>. QED BY <2>1, <2>2 DEF Global, IsGlobal
<1>. QED BY <1>1, ParserInvariant, PTL

(* A null pointer is looked into only where a block is empty or a          *)
(* semicolon stands instead of a name or an operand.                       *)
THEOREM CrashesAreOnMissing == Spec => []CrashesOnlyOnMissing
<1>1. ASSUME ParserInv PROVE CrashesOnlyOnMissing
  BY <1>1 DEF ParserInv, CrashesOnlyOnMissing
<1>. QED BY <1>1, ParserInvariant, PTL
=============================================================================
