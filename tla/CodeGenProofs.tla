--------------------------- MODULE CodeGenProofs ----------------------------
(***************************************************************************)
(* What module CodeGen promises, for every set of programs made of the     *)
(* trees the parser builds and all sizes of the tables.                    *)
(***************************************************************************)
EXTENDS CodeGen, SequenceTheorems, WellFoundedInduction, TLAPS

(* What the programs are made of.                                          *)
CONSTANTS Expressions, Conditions, Statements

IsSeq(s) == s \in Seq(ToSet(s))

-----------------------------------------------------------------------------
(* A set of naturals that is not empty has a first element.                *)
LEMMA First ==
  ASSUME NEW S \in SUBSET Nat, S # {}
  PROVE  \E i \in S : \A j \in S : i <= j
<1>1. \E i \in S : \A j \in S : ~ (<<j, i>> \in OpToRel(<, Nat))
  BY WFMin, NatLessThanWellFounded
<1>2. \A i, j \in S : i <= j \/ <<j, i>> \in OpToRel(<, Nat)
  BY DEF OpToRel
<1>. QED
  BY <1>1, <1>2

LEMMA SeqIs ==
  ASSUME NEW S, NEW s \in Seq(S)
  PROVE  IsSeq(s) /\ Len(s) \in Nat /\ DOMAIN s = 1 .. Len(s)
BY DEF IsSeq, ToSet

LEMMA SeqOfItsElements ==
  ASSUME NEW s, IsSeq(s)
  PROVE  /\ s \in Seq(ToSet(s)) /\ Len(s) \in Nat /\ DOMAIN s = 1 .. Len(s)
         /\ \A S : (\A i \in DOMAIN s : s[i] \in S) => s \in Seq(S)
BY DEF IsSeq

(* Two sequences one after the other.                                      *)
LEMMA Joined ==
  ASSUME NEW s, IsSeq(s), NEW t, IsSeq(t)
  PROVE  /\ IsSeq(s \o t) /\ Len(s \o t) = Len(s) + Len(t)
         /\ \A i \in 1 .. Len(s) : (s \o t)[i] = s[i]
         /\ \A i \in 1 .. Len(t) : (s \o t)[Len(s) + i] = t[i]
<1>. DEFINE S == ToSet(s) \cup ToSet(t)
<1>1. s \in Seq(S) /\ t \in Seq(S)
  BY DEF IsSeq
<1>. HIDE DEF S
<1>2. s \o t \in Seq(S)
  BY <1>1
<1>3. IsSeq(s \o t)
  BY <1>2, SeqIs
<1>4. Len(s) \in Nat /\ Len(t) \in Nat
  BY SeqOfItsElements
<1>. QED
  BY <1>1, <1>3, <1>4

(* A sequence with one element replaced.                                   *)
LEMMA Changed ==
  ASSUME NEW S, NEW s \in Seq(S), NEW v, NEW i, i \in DOMAIN s => v \in S
  PROVE  /\ [s EXCEPT ![i] = v] \in Seq(S) /\ Len([s EXCEPT ![i] = v]) = Len(s)
         /\ DOMAIN [s EXCEPT ![i] = v] = DOMAIN s
         /\ \A j \in DOMAIN s : [s EXCEPT ![i] = v][j] = IF j = i THEN v ELSE s[j]
<1>. DEFINE new == [s EXCEPT ![i] = v]
<1>1. Len(s) \in Nat /\ DOMAIN s = 1 .. Len(s) /\ \A j \in 1 .. Len(s) : s[j] \in S
  OBVIOUS
<1>2. DOMAIN new = DOMAIN s /\ \A j \in DOMAIN s : new[j] = IF j = i THEN v ELSE s[j]
  OBVIOUS
<1>3. new = [j \in 1 .. Len(s) |-> new[j]]
  BY <1>1
<1>4. \A j \in 1 .. Len(s) : new[j] \in S
  BY <1>1, <1>2
<1>. HIDE DEF new
<1>5. new \in Seq(S) /\ Len(new) = Len(s)
  BY <1>1, <1>3, <1>4
<1>. QED
  BY <1>2, <1>5 DEF new

LEMMA ReversedIndex ==
  ASSUME NEW s, IsSeq(s), NEW i \in 1 .. Len(s)
  PROVE  Len(s) + 1 - i \in 1 .. Len(s) /\ s[Len(s) + 1 - i] \in ToSet(s)
BY DEF IsSeq, ToSet

-----------------------------------------------------------------------------
(* The pieces of a sequence put together, up to the k-th.                  *)
Together(seqs, f, k) ==
  /\ f = [j \in 1 .. k |-> f[j]]
  /\ \A j \in 1 .. k : f[j] = IF j = 1 THEN seqs[1] ELSE f[j-1] \o seqs[j]

LEMMA TogetherExists ==
  ASSUME NEW seqs, NEW k \in Nat
  PROVE  \E f : Together(seqs, f, k)
<1>. DEFINE S == {i \in Nat : ~ \E f : Together(seqs, f, i)}
<1>1. SUFFICES ASSUME S # {} PROVE FALSE
  OBVIOUS
<1>2. PICK i \in S : \A j \in S : i <= j
  <2>1. S \in SUBSET Nat
    OBVIOUS
  <2>. HIDE DEF S
  <2>. QED
    BY <1>1, <2>1, First
<1>3. i # 0
  <2>. DEFINE f == [j \in 1 .. 0 |-> seqs[1]]
  <2>1. Together(seqs, f, 0)
    BY DEF Together
  <2>. QED
    BY <1>2, <2>1
<1>4. i - 1 \in Nat /\ i \in Nat /\ ~ (i <= i - 1)
  BY <1>2, <1>3
<1>5. PICK f : Together(seqs, f, i - 1)
  BY <1>2, <1>4
<1>. DEFINE g == [j \in 1 .. i |-> IF j = 1 THEN seqs[1]
                                   ELSE IF j = i THEN f[j-1] \o seqs[j] ELSE f[j]]
<1>6. g = [j \in 1 .. i |-> g[j]]
  OBVIOUS
<1>7. \A j \in 1 .. i : g[j] = IF j = 1 THEN seqs[1] ELSE g[j-1] \o seqs[j]
  <2>. SUFFICES ASSUME NEW j \in 1 .. i, j # 1 PROVE g[j] = g[j-1] \o seqs[j]
    OBVIOUS
  <2>1. j - 1 \in 1 .. i - 1 /\ j - 1 \in 1 .. i /\ j - 1 # i
    BY <1>4
  <2>2. g[j-1] = f[j-1]
    BY <1>5, <2>1 DEF Together
  <2>3. CASE j = i
    BY <2>2, <2>3
  <2>4. CASE j # i
    <3>1. j \in 1 .. i - 1
      BY <1>4, <2>4
    <3>. QED
      BY <1>5, <2>2, <2>4, <3>1 DEF Together
  <2>. QED
    BY <2>3, <2>4
<1>. HIDE DEF g
<1>8. Together(seqs, g, i)
  BY <1>6, <1>7 DEF Together
<1>. QED
  BY <1>2, <1>8

(* What holds for every piece and is kept when two are joined holds for    *)
(* the whole.                                                              *)
LEMMA FlattenedIn ==
  ASSUME NEW Q, <<>> \in Q, \A s, t \in Q : s \o t \in Q, NEW seqs \in Seq(Q)
  PROVE  FlattenSeq(seqs) \in Q
<1>. DEFINE n == Len(seqs)
            flat == CHOOSE f : f = [i \in 1 .. Len(seqs) |->
                      IF i = 1 THEN seqs[i] ELSE f[i-1] \o seqs[i]]
<1>1. n \in Nat /\ \A i \in 1 .. n : seqs[i] \in Q
  OBVIOUS
<1>2. CASE n = 0
  <2>1. FlattenSeq(seqs) = seqs /\ seqs = <<>>
    BY <1>2 DEF FlattenSeq
  <2>. QED
    BY <2>1
<1>3. CASE n # 0
  <2>1. FlattenSeq(seqs) = flat[n]
    BY <1>3 DEF FlattenSeq
  <2>2. PICK h : Together(seqs, h, n)
    BY <1>1, TogetherExists
  <2>3. flat = [i \in 1 .. Len(seqs) |-> IF i = 1 THEN seqs[i] ELSE flat[i-1] \o seqs[i]]
    <3>1. h = [i \in 1 .. Len(seqs) |-> IF i = 1 THEN seqs[i] ELSE h[i-1] \o seqs[i]]
      <4>1. \A i \in 1 .. n : h[i] = IF i = 1 THEN seqs[i] ELSE h[i-1] \o seqs[i]
        BY <2>2 DEF Together
      <4>2. h = [i \in 1 .. n |-> h[i]]
        BY <2>2 DEF Together
      <4>. QED
        BY <4>1, <4>2
    <3>. QED
      BY <3>1
  <2>. HIDE DEF flat
  <2>. DEFINE S == {i \in 1 .. n : flat[i] \notin Q}
  <2>4. SUFFICES ASSUME S # {} PROVE FALSE
    BY <1>1, <1>3, <2>1
  <2>5. PICK i \in S : \A j \in S : i <= j
    <3>1. S \in SUBSET Nat
      BY <1>1
    <3>. HIDE DEF S
    <3>. QED
      BY <2>4, <3>1, First
  <2>6. i # 1
    BY <1>1, <2>3, <2>5
  <2>7. i - 1 \in 1 .. n /\ ~ (i <= i - 1)
    BY <1>1, <2>5, <2>6
  <2>8. flat[i-1] \in Q /\ flat[i] = flat[i-1] \o seqs[i]
    BY <2>3, <2>5, <2>6, <2>7
  <2>. QED
    BY <1>1, <2>5, <2>8
<1>. QED
  BY <1>2, <1>3

-----------------------------------------------------------------------------
(* The tables of names.                                                    *)
Table(t) == IsSeq(t) /\ Len(t) <= NUMBERS_VARIABLE

LEMMA NameEntered ==
  ASSUME NEW t, Table(t), NEW str
  PROVE  Table(WithName(t, str)) /\ Len(t) <= Len(WithName(t, str))
<1>1. t \in Seq(ToSet(t)) /\ Len(t) \in Nat
  BY SeqOfItsElements DEF Table
<1>2. CASE WithName(t, str) = t
  BY <1>1, <1>2
<1>3. CASE Len(t) < NUMBERS_VARIABLE /\ WithName(t, str) = Append(t, str)
  <2>1. Append(t, str) \in Seq(ToSet(t) \cup {str}) /\ Len(Append(t, str)) = Len(t) + 1
    BY <1>1
  <2>2. IsSeq(Append(t, str))
    BY <2>1, SeqIs
  <2>. QED
    BY <1>1, <1>3, <2>1, <2>2, TablesAssumption DEF Table
<1>. QED
  BY <1>1, <1>2, <1>3, TablesAssumption DEF WithName

(* An offset lies in the table, or is that of no name.                     *)
LEMMA OffsetInTable ==
  ASSUME NEW t, IsSeq(t), NEW str
  PROVE  LocalOffset(t, str) \in Int /\ LocalOffset(t, str) < Len(t)
<1>1. Len(t) \in Nat /\ DOMAIN t = 1 .. Len(t)
  BY SeqOfItsElements
<1>2. CASE Contains(t, str)
  <2>. DEFINE S == {i \in DOMAIN t : t[i] = str}
              P(i) == t[i] = str /\ \A j \in 1 .. i - 1 : t[j] # str
  <2>1. PICK i \in S : \A j \in S : i <= j
    <3>1. S \in SUBSET Nat /\ S # {}
      BY <1>1, <1>2 DEF Contains
    <3>. HIDE DEF S
    <3>. QED
      BY <3>1, First
  <2>2. i \in DOMAIN t /\ P(i)
    <3>1. \A j \in 1 .. i - 1 : j \in DOMAIN t /\ ~ (i <= j)
      BY <1>1, <2>1
    <3>. QED
      BY <2>1, <3>1
  <2>. DEFINE c == CHOOSE k \in DOMAIN t : P(k)
  <2>3. c \in DOMAIN t
    BY <2>2
  <2>4. LocalOffset(t, str) = c - 1
    BY <1>2 DEF LocalOffset
  <2>. HIDE DEF c
  <2>. QED
    BY <1>1, <2>3, <2>4
<1>3. CASE ~ Contains(t, str)
  BY <1>1, <1>3 DEF LocalOffset, NoVariable
<1>. QED
  BY <1>2, <1>3

(* The tables while the parameters are entered, up to the k-th.            *)
Entering(params, f, k) ==
  /\ f = [i \in 0 .. k |-> f[i]]
  /\ f[0] = <<>>
  /\ \A i \in 1 .. k : f[i] = WithName(f[i - 1], params[Len(params) + 1 - i])

LEMMA EnteringExists ==
  ASSUME NEW params, NEW k \in Nat
  PROVE  \E f : Entering(params, f, k)
<1>. DEFINE S == {i \in Nat : ~ \E f : Entering(params, f, i)}
<1>1. SUFFICES ASSUME S # {} PROVE FALSE
  OBVIOUS
<1>2. PICK i \in S : \A j \in S : i <= j
  <2>1. S \in SUBSET Nat
    OBVIOUS
  <2>. HIDE DEF S
  <2>. QED
    BY <1>1, <2>1, First
<1>3. i # 0
  <2>. DEFINE f == [j \in 0 .. 0 |-> <<>>]
  <2>1. Entering(params, f, 0)
    BY DEF Entering
  <2>. QED
    BY <1>2, <2>1
<1>4. i - 1 \in Nat /\ i \in Nat /\ ~ (i <= i - 1)
  BY <1>2, <1>3
<1>5. PICK f : Entering(params, f, i - 1)
  BY <1>2, <1>4
<1>. DEFINE new == WithName(f[i - 1], params[Len(params) + 1 - i])
            g == [j \in 0 .. i |-> IF j = i THEN new ELSE f[j]]
<1>6. g = [j \in 0 .. i |-> g[j]] /\ g[0] = <<>>
  BY <1>3, <1>4, <1>5 DEF Entering
<1>7. \A j \in 1 .. i : g[j] = WithName(g[j - 1], params[Len(params) + 1 - j])
  <2>. SUFFICES ASSUME NEW j \in 1 .. i
                PROVE  g[j] = WithName(g[j - 1], params[Len(params) + 1 - j])
    OBVIOUS
  <2>1. j - 1 \in 0 .. i /\ j - 1 # i /\ j \in 0 .. i
    BY <1>4
  <2>2. g[j-1] = f[j-1]
    BY <2>1
  <2>3. CASE j = i
    BY <2>1, <2>2, <2>3
  <2>4. CASE j # i
    <3>1. j \in 1 .. i - 1 /\ g[j] = f[j]
      BY <1>4, <2>1, <2>4
    <3>. QED
      BY <1>5, <2>2, <3>1 DEF Entering
  <2>. QED
    BY <2>3, <2>4
<1>. HIDE DEF g
<1>8. Entering(params, g, i)
  BY <1>6, <1>7 DEF Entering
<1>. QED
  BY <1>2, <1>8

LEMMA ParametersFit ==
  ASSUME NEW params, IsSeq(params)
  PROVE  Table(ParameterTable(params))
<1>. DEFINE n == Len(params)
            entered == CHOOSE f : f = [i \in 0 .. Len(params) |->
              IF i = 0 THEN <<>> ELSE WithName(f[i - 1], params[Len(params) + 1 - i])]
<1>1. n \in Nat
  BY SeqOfItsElements
<1>2. PICK h : Entering(params, h, n)
  BY <1>1, EnteringExists
<1>3. entered = [i \in 0 .. Len(params) |->
        IF i = 0 THEN <<>> ELSE WithName(entered[i - 1], params[Len(params) + 1 - i])]
  <2>1. h = [i \in 0 .. Len(params) |->
          IF i = 0 THEN <<>> ELSE WithName(h[i - 1], params[Len(params) + 1 - i])]
    <3>1. \A i \in 0 .. n : h[i] =
            IF i = 0 THEN <<>> ELSE WithName(h[i - 1], params[Len(params) + 1 - i])
      <4>1. \A i \in 0 .. n : i = 0 \/ i \in 1 .. n
        BY <1>1
      <4>. QED
        BY <1>1, <1>2, <4>1 DEF Entering
    <3>2. h = [i \in 0 .. n |-> h[i]]
      BY <1>2 DEF Entering
    <3>. QED
      BY <3>1, <3>2
  <2>. QED
    BY <2>1
<1>4. ParameterTable(params) = entered[n]
  BY DEF ParameterTable
<1>. HIDE DEF entered
<1>. DEFINE S == {i \in 0 .. n : ~ Table(entered[i])}
<1>5. SUFFICES ASSUME S # {} PROVE FALSE
  BY <1>1, <1>4
<1>6. PICK i \in S : \A j \in S : i <= j
  <2>1. S \in SUBSET Nat
    BY <1>1
  <2>. HIDE DEF S
  <2>. QED
    BY <1>5, <2>1, First
<1>7. i # 0
  <2>1. Table(<<>>)
    <3>1. IsSeq(<<>>) /\ Len(<<>>) = 0
      BY DEF IsSeq
    <3>. QED
      BY <3>1, TablesAssumption DEF Table
  <2>. QED
    BY <1>1, <1>3, <1>6, <2>1
<1>8. i - 1 \in 0 .. n /\ ~ (i <= i - 1)
  BY <1>1, <1>6, <1>7
<1>9. Table(entered[i - 1])
  BY <1>6, <1>8
<1>. QED
  BY <1>3, <1>6, <1>7, <1>9, NameEntered

-----------------------------------------------------------------------------
(***************************************************************************)
(* The agenda.  Within a function it holds what is left of the function,   *)
(* the task that leaves it, and the items not yet begun; between functions *)
(* the items alone.  There is a table of names for the function and one    *)
(* for the call of main.                                                   *)
(***************************************************************************)
TreesGiven == Trees(Expressions, Conditions, Statements)

LoadsDx  == CmdName("POP", "dx")
Plain(l) == l.text # "CALL" /\ l # LoadsDx /\ ~IsNamedMark(l)
PlainSeq(ls) == IsSeq(ls) /\ \A i \in DOMAIN ls : Plain(ls[i])

Inner(t) ==
  \/ t.do = "convert" /\ t.node \in Expressions \cup Conditions \cup Statements
  \/ t.do = "operate" /\ t.node.type \in BinaryOps
  \/ t.do = "argument" /\ t.node.type \in {"ax", "bx"}
  \/ t.do = "print" /\ PlainSeq(t.lines)
  \/ t.do = "decide" /\ t.node.then \in Seq(Statements) /\ t.node.else \in Seq(Statements)
  \/ t.do = "loop" /\ t.node.body \in Seq(Statements)
  \/ t.do \in {"store", "frame", "abort"}

InnerSeq(ts) == IsSeq(ts) /\ \A i \in DOMAIN ts : Inner(ts[i])

Outer(t) == t.do = "convert" /\ t.node \in ToSet(items)

(* The first n tasks are those of the function, the items follow the m-th. *)
Divided(n, m) ==
  /\ n \in Nat /\ m \in {n, n + 1} /\ m <= Len(agenda)
  /\ \A i \in 1 .. n : Inner(agenda[i])
  /\ m = n + 1 => agenda[m].do = "leave"
  /\ \A i \in m + 1 .. Len(agenda) : Outer(agenda[i])
  /\ Len(tables) = 1 + m - n
  /\ OnlyFunctions /\ n > 0 => m = n + 1

Registers == {"ax", "bx"}
Passes(p) == IsSeq(p) /\ \A i \in DOMAIN p : p[i] \in Seq(Registers)

TypedInv ==
  /\ IsSeq(items) /\ at \in 0 .. Len(items)
  /\ \A i \in DOMAIN items : TopLevel(items[i], Expressions, Statements)
  /\ DOMAIN globalNames = 0 .. NUMBERS_VARIABLE - 1
  /\ curGlobal \in 1 .. NUMBERS_VARIABLE /\ curLabel \in Nat
  /\ IsSeq(tables) /\ \A i \in DOMAIN tables : Table(tables[i])
  /\ Passes(passing) /\ IsSeq(agenda) /\ IsSeq(code)
  /\ status \in {"start", "no main", "trailing", "visiting", "calling", "converting",
                 "done", "abort", "undefined"}
  /\ status = "start" => code = <<>>
  /\ status = "trailing" => at > 0 /\ (at = 1 => items[1].type # "ASSIGN")
  /\ status = "visiting" => at > 0
  /\ status = "converting" => \E n, m : Divided(n, m)
  /\ status = "done" => agenda = <<>>

-----------------------------------------------------------------------------
LEMMA PlainLine ==
  ASSUME NEW l, l.text # "CALL", ~ (l.colon /\ l.kind = "none"), l # LoadsDx
  PROVE  Plain(l)
BY DEF Plain, IsNamedMark

LEMMA TupleIsSeq ==
  /\ IsSeq(<<>>) /\ Len(<<>>) = 0
  /\ \A a : IsSeq(<<a>>) /\ Len(<<a>>) = 1
  /\ \A a, b : IsSeq(<<a, b>>) /\ Len(<<a, b>>) = 2
  /\ \A a, b, c : IsSeq(<<a, b, c>>) /\ Len(<<a, b, c>>) = 3
<1>1. IsSeq(<<>>) /\ Len(<<>>) = 0
  BY DEF IsSeq
<1>2. ASSUME NEW a PROVE IsSeq(<<a>>) /\ Len(<<a>>) = 1
  <2>1. <<a>> \in Seq({a})
    OBVIOUS
  <2>. QED
    BY <2>1, SeqIs
<1>3. ASSUME NEW a, NEW b PROVE IsSeq(<<a, b>>) /\ Len(<<a, b>>) = 2
  <2>1. <<a, b>> \in Seq({a, b})
    OBVIOUS
  <2>. QED
    BY <2>1, SeqIs
<1>4. ASSUME NEW a, NEW b, NEW c PROVE IsSeq(<<a, b, c>>) /\ Len(<<a, b, c>>) = 3
  <2>1. <<a, b, c>> \in Seq({a, b, c})
    OBVIOUS
  <2>. QED
    BY <2>1, SeqIs
<1>. QED
  BY <1>1, <1>2, <1>3, <1>4

LEMMA InnerTuple ==
  /\ InnerSeq(<<>>)
  /\ \A a : Inner(a) => InnerSeq(<<a>>)
  /\ \A a, b : Inner(a) /\ Inner(b) => InnerSeq(<<a, b>>)
  /\ \A a, b, c : Inner(a) /\ Inner(b) /\ Inner(c) => InnerSeq(<<a, b, c>>)
BY TupleIsSeq DEF InnerSeq

LEMMA PlainTuple ==
  /\ PlainSeq(<<>>)
  /\ \A a : Plain(a) => PlainSeq(<<a>>)
  /\ \A a, b : Plain(a) /\ Plain(b) => PlainSeq(<<a, b>>)
  /\ \A a, b, c : Plain(a) /\ Plain(b) /\ Plain(c) => PlainSeq(<<a, b, c>>)
BY TupleIsSeq DEF PlainSeq

(* Where the elements of two sequences go when they are joined.            *)
LEMMA JoinedIndex ==
  ASSUME NEW s, IsSeq(s), NEW t, IsSeq(t), NEW i \in DOMAIN (s \o t)
  PROVE  \/ i \in DOMAIN s /\ (s \o t)[i] = s[i]
         \/ i > Len(s) /\ i - Len(s) \in DOMAIN t /\ (s \o t)[i] = t[i - Len(s)]
<1>1. /\ Len(s) \in Nat /\ Len(t) \in Nat /\ DOMAIN s = 1 .. Len(s) /\ DOMAIN t = 1 .. Len(t)
      /\ i \in 1 .. Len(s) + Len(t)
  BY Joined, SeqOfItsElements
<1>2. CASE i <= Len(s)
  BY <1>1, <1>2, Joined
<1>3. CASE i > Len(s)
  <2>1. i - Len(s) \in 1 .. Len(t) /\ i = Len(s) + (i - Len(s))
    BY <1>1, <1>3
  <2>. QED
    BY <1>1, <1>3, <2>1, Joined
<1>. QED
  BY <1>1, <1>2, <1>3

LEMMA InnerJoined ==
  ASSUME NEW s, InnerSeq(s), NEW t, InnerSeq(t)
  PROVE  InnerSeq(s \o t)
BY Joined, JoinedIndex DEF InnerSeq

LEMMA PlainJoined ==
  ASSUME NEW s, PlainSeq(s), NEW t, PlainSeq(t)
  PROVE  PlainSeq(s \o t)
BY Joined, JoinedIndex DEF PlainSeq

LEMMA ConvertInner ==
  ASSUME NEW n \in Expressions \cup Conditions \cup Statements
  PROVE  Inner(Convert(n))
BY DEF Inner, Convert, Task

LEMMA ConvertAllInner ==
  ASSUME NEW ns \in Seq(Expressions \cup Statements)
  PROVE  InnerSeq(ConvertAll(ns)) /\ InnerSeq(Required(ns))
<1>1. InnerSeq(ConvertAll(ns))
  <2>. DEFINE T == {Convert(n) : n \in Expressions \cup Statements}
  <2>1. ConvertAll(ns) \in Seq(T)
    BY DEF ConvertAll
  <2>2. \A t \in T : Inner(t)
    BY ConvertInner
  <2>3. IsSeq(ConvertAll(ns))
    BY <2>1, SeqIs
  <2>. HIDE DEF T
  <2>. QED
    BY <2>1, <2>2, <2>3 DEF InnerSeq
<1>2. InnerSeq(<<Rest("abort", NoNode)>>)
  <2>1. Inner(Rest("abort", NoNode))
    BY DEF Inner, Rest, Task
  <2>. QED
    BY <2>1, InnerTuple
<1>. QED
  BY <1>1, <1>2 DEF Required

(* What is converted has the parts its function looks at.                  *)
LEMMA HeadTask ==
  ASSUME TypedInv, status = "converting", agenda # <<>>
  PROVE  /\ Task1 = agenda[1] /\ Len(agenda) \in Nat /\ Len(agenda) > 0
         /\ Inner(Task1) \/ Outer(Task1) \/ Task1.do = "leave"
<1>1. agenda \in Seq(ToSet(agenda)) /\ Len(agenda) \in Nat
  BY SeqOfItsElements DEF TypedInv
<1>2. Task1 = agenda[1] /\ Len(agenda) > 0
  BY <1>1 DEF Task1
<1>3. PICK n, m : Divided(n, m)
  BY DEF TypedInv
<1>4. n \in Nat /\ Len(agenda) \in Nat /\ m \in {n, n + 1}
  BY <1>1, <1>3 DEF Divided
<1>5. CASE n > 0
  BY <1>2, <1>3, <1>4, <1>5 DEF Divided
<1>6. CASE n = 0 /\ m = 1
  BY <1>2, <1>3, <1>6 DEF Divided
<1>7. CASE n = 0 /\ m = 0
  BY <1>1, <1>2, <1>3, <1>7 DEF Divided
<1>. QED
  BY <1>1, <1>2, <1>4, <1>5, <1>6, <1>7

LEMMA NodeFits ==
  ASSUME TreesGiven, TypedInv, Doing("convert")
  PROVE  \/ Expression(Node, Expressions) \/ Condition(Node, Expressions)
         \/ Statement(Node, Expressions, Conditions, Statements)
         \/ TopLevel(Node, Expressions, Statements)
<1>1. Inner(Task1) \/ Outer(Task1)
  BY HeadTask DEF Doing
<1>. QED
  BY <1>1 DEF Inner, Outer, Node, Doing, TreesGiven, Trees, TypedInv, ToSet

LEMMA StatementFits ==
  ASSUME TreesGiven, TypedInv, Doing("convert"), Node.type = "STATEMENT"
  PROVE  Node.body \in Seq(Statements)
BY NodeFits DEF Expression, Condition, Statement, TopLevel, BinaryOps, Comparisons

-----------------------------------------------------------------------------
(* Lines that have nothing to do with labels.                              *)
Quiet(s) == IsSeq(s) /\ \A i \in DOMAIN s : s[i].kind # "next"

(* The lines in which every address of a local variable is below n, and no *)
(* function begins or is called.                                           *)
Addressed(s, n) ==
  /\ IsSeq(s)
  /\ \A i \in DOMAIN s :
       /\ s[i].text # "CALL" /\ ~IsNamedMark(s[i]) /\ s[i].kind # "next"
       /\ s[i] = LoadsDx => i > 2 /\ s[i-2].value \in Int /\ s[i-2].value < n

LEMMA PlainAddressed ==
  ASSUME NEW s, PlainSeq(s), Quiet(s), NEW n
  PROVE  Addressed(s, n)
BY DEF Addressed, PlainSeq, Plain, Quiet

LEMMA QuietTuple ==
  /\ Quiet(<<>>)
  /\ \A a : a.kind # "next" => Quiet(<<a>>)
  /\ \A a, b : a.kind # "next" /\ b.kind # "next" => Quiet(<<a, b>>)
  /\ \A a, b, c : a.kind # "next" /\ b.kind # "next" /\ c.kind # "next" => Quiet(<<a, b, c>>)
BY TupleIsSeq DEF Quiet

LEMMA QuietJoined ==
  ASSUME NEW s, Quiet(s), NEW t, Quiet(t)
  PROVE  Quiet(s \o t)
BY Joined, JoinedIndex DEF Quiet

LEMMA KindsOf ==
  /\ \A op : Cmd(op).kind # "next"
  /\ \A op, v : CmdInt(op, v).kind # "next" /\ AtInt(op, v).kind # "next"
  /\ \A op, n : CmdName(op, n).kind # "next" /\ AtReg(op, n).kind # "next"
  /\ \A n : Mark(n).kind # "next"
BY DEF Cmd, CmdInt, AtInt, CmdName, AtReg, Mark, Line

LEMMA AddressedJoined ==
  ASSUME NEW n \in Nat, NEW s, Addressed(s, n), NEW t, Addressed(t, n)
  PROVE  Addressed(s \o t, n)
<1>1. IsSeq(s) /\ IsSeq(t) /\ IsSeq(s \o t) /\ Len(s) \in Nat /\ Len(s \o t) = Len(s) + Len(t)
      /\ Len(t) \in Nat /\ DOMAIN s = 1 .. Len(s) /\ DOMAIN t = 1 .. Len(t)
  BY Joined, SeqOfItsElements DEF Addressed
<1>2. ASSUME NEW i \in DOMAIN s
      PROVE  /\ (s \o t)[i] = s[i]
             /\ i > 2 => (s \o t)[i - 2] = s[i - 2]
  <2>1. i > 2 => i - 2 \in 1 .. Len(s)
    BY <1>1
  <2>. QED
    BY <1>1, <2>1, Joined
<1>3. ASSUME NEW i, i > Len(s), i - Len(s) \in DOMAIN t, i \in Nat
      PROVE  i - Len(s) > 2 => i > 2 /\ (s \o t)[i - 2] = t[i - Len(s) - 2]
  <2>. SUFFICES ASSUME i - Len(s) > 2 PROVE i > 2 /\ (s \o t)[i - 2] = t[i - Len(s) - 2]
    OBVIOUS
  <2>1. i - Len(s) - 2 \in 1 .. Len(t) /\ i - 2 = Len(s) + (i - Len(s) - 2) /\ i > 2
    BY <1>1, <1>3
  <2>. QED
    BY <1>1, <2>1, Joined
<1>4. ASSUME NEW i \in DOMAIN (s \o t)
      PROVE  /\ (s \o t)[i].text # "CALL" /\ ~IsNamedMark((s \o t)[i])
             /\ (s \o t)[i].kind # "next"
             /\ (s \o t)[i] = LoadsDx =>
                  i > 2 /\ (s \o t)[i-2].value \in Int /\ (s \o t)[i-2].value < n
  <2>1. i \in Nat
    BY <1>1, SeqOfItsElements
  <2>2. CASE i \in DOMAIN s /\ (s \o t)[i] = s[i]
    BY <1>2, <2>2 DEF Addressed
  <2>3. CASE i > Len(s) /\ i - Len(s) \in DOMAIN t /\ (s \o t)[i] = t[i - Len(s)]
    BY <1>3, <2>1, <2>3 DEF Addressed
  <2>. QED
    BY <1>1, <2>2, <2>3, JoinedIndex
<1>. QED
  BY <1>1, <1>4 DEF Addressed

(* The address of a local variable, and a line that uses it.               *)
LEMMA LocalAddressIs ==
  ASSUME NEW v
  PROVE  /\ IsSeq(LocalAddress(v)) /\ Len(LocalAddress(v)) = 4
         /\ LocalAddress(v)[1] = CmdName("PUSH", "ex") /\ LocalAddress(v)[2] = CmdInt("PUSH", v)
         /\ LocalAddress(v)[3] = Cmd("ADD") /\ LocalAddress(v)[4] = LoadsDx
<1>. DEFINE S == {CmdName("PUSH", "ex"), CmdInt("PUSH", v), Cmd("ADD"), LoadsDx}
<1>1. LocalAddress(v) \in Seq(S) /\ Len(LocalAddress(v)) = 4
  BY DEF LocalAddress, LoadsDx
<1>2. IsSeq(LocalAddress(v))
  BY <1>1, SeqIs
<1>. QED
  BY <1>1, <1>2 DEF LocalAddress, LoadsDx

LEMMA AccessAddressed ==
  ASSUME NEW v \in Int, NEW n \in Nat, v < n, NEW l, Plain(l), l.kind # "next"
  PROVE  Addressed(LocalAddress(v) \o <<l>>, n)
<1>1. Addressed(LocalAddress(v), n)
  <2>1. /\ IsSeq(LocalAddress(v)) /\ Len(LocalAddress(v)) = 4 /\ DOMAIN LocalAddress(v) = 1 .. 4
        /\ LocalAddress(v)[1] = CmdName("PUSH", "ex") /\ LocalAddress(v)[2] = CmdInt("PUSH", v)
        /\ LocalAddress(v)[3] = Cmd("ADD") /\ LocalAddress(v)[4] = LoadsDx
    BY LocalAddressIs, SeqOfItsElements
  <2>2. Plain(CmdName("PUSH", "ex")) /\ Plain(CmdInt("PUSH", v)) /\ Plain(Cmd("ADD"))
    BY DEF Plain, IsNamedMark, CmdName, CmdInt, Cmd, Line, LoadsDx
  <2>3. /\ LoadsDx.text # "CALL" /\ ~IsNamedMark(LoadsDx) /\ CmdInt("PUSH", v).value = v
        /\ LoadsDx.kind # "next"
    BY DEF IsNamedMark, CmdName, CmdInt, Line, LoadsDx
  <2>4. \A i \in 1 .. 4 : i \in {1, 2, 3, 4}
    OBVIOUS
  <2>. QED
    BY <2>1, <2>2, <2>3, <2>4, KindsOf DEF Addressed, Plain
<1>2. Addressed(<<l>>, n)
  BY PlainTuple, QuietTuple, PlainAddressed
<1>. QED
  BY <1>1, <1>2, AddressedJoined

(* The lines that move the parameters into the frame.                      *)
LEMMA PrologueAddressed ==
  ASSUME NEW params, IsSeq(params), NEW t, Table(t)
  PROVE  Addressed(Prologue(params, t), Len(t))
<1>. DEFINE part(i) == <<CmdName("PUSH", ParameterRegister(Len(params) + 1 - i, Len(params)))>>
                       \o LocalAddress(LocalOffset(t, params[Len(params) + 1 - i]))
                       \o <<AtReg("POP", "dx")>>
            L == UNION {ToSet(part(i)) : i \in DOMAIN params}
            Q == {s \in Seq(L) : Addressed(s, Len(t))}
<1>1. Len(t) \in Nat /\ IsSeq(t) /\ Len(params) \in Nat /\ DOMAIN params = 1 .. Len(params)
  BY SeqOfItsElements DEF Table
<1>2. \A i \in DOMAIN params : part(i) \in Q
  <2>. SUFFICES ASSUME NEW i \in DOMAIN params PROVE part(i) \in Q
    OBVIOUS
  <2>. DEFINE v == LocalOffset(t, params[Len(params) + 1 - i])
              push == CmdName("PUSH", ParameterRegister(Len(params) + 1 - i, Len(params)))
  <2>1. v \in Int /\ v < Len(t)
    BY <1>1, OffsetInTable
  <2>2. Plain(push) /\ Plain(AtReg("POP", "dx"))
    BY DEF Plain, IsNamedMark, CmdName, AtReg, Line, LoadsDx
  <2>3. Addressed(<<push>>, Len(t))
    BY <2>2, PlainTuple, QuietTuple, KindsOf, PlainAddressed
  <2>. HIDE DEF v, push
  <2>4. Addressed(LocalAddress(v) \o <<AtReg("POP", "dx")>>, Len(t))
    BY <1>1, <2>1, <2>2, KindsOf, AccessAddressed
  <2>5. Addressed(<<push>> \o (LocalAddress(v) \o <<AtReg("POP", "dx")>>), Len(t))
    BY <1>1, <2>3, <2>4, AddressedJoined
  <2>6. part(i) = <<push>> \o (LocalAddress(v) \o <<AtReg("POP", "dx")>>)
    <3>1. <<push>> \in Seq({push}) /\ <<AtReg("POP", "dx")>> \in Seq({AtReg("POP", "dx")})
      OBVIOUS
    <3>. QED
      BY <3>1 DEF push, v, LocalAddress
  <2>. HIDE DEF part
  <2>7. part(i) \in Seq(ToSet(part(i))) /\ ToSet(part(i)) \subseteq L
    BY <2>5, <2>6 DEF Addressed, IsSeq
  <2>8. part(i) \in Seq(L)
    <3>. HIDE DEF L
    <3>. QED
      BY <2>7, SeqMonotonic
  <2>. QED
    BY <2>5, <2>6, <2>8
<1>3. <<>> \in Q /\ \A s, u \in Q : s \o u \in Q
  <2>1. Addressed(<<>>, Len(t)) /\ <<>> \in Seq(L)
    BY PlainTuple, QuietTuple, PlainAddressed
  <2>2. \A s, u \in Seq(L) : s \o u \in Seq(L)
    <3>. HIDE DEF L
    <3>. QED
      OBVIOUS
  <2>. HIDE DEF L
  <2>. QED
    BY <1>1, <2>1, <2>2, AddressedJoined
<1>. HIDE DEF part, Q
<1>4. [i \in DOMAIN params |-> part(i)] \in Seq(Q)
  BY <1>1, <1>2
<1>5. Prologue(params, t) = FlattenSeq([i \in DOMAIN params |-> part(i)])
  BY DEF Prologue, part
<1>6. Prologue(params, t) \in Q
  BY <1>3, <1>4, <1>5, FlattenedIn
<1>. QED
  BY <1>6 DEF Q

(***************************************************************************)
(* What the conversion of a statement or an expression does, whatever it   *)
(* is: it puts tasks of its own in the place of the one done, and writes   *)
(* plain lines, the access of a local variable or a call.                  *)
(***************************************************************************)
Replaced(tasks) ==
  /\ status = "converting" /\ agenda # <<>>
  /\ Task1.do # "leave" /\ (Task1.do = "convert" => Node.type # "DEFINE")
  /\ InnerSeq(tasks) /\ Go(tasks)
  /\ UNCHANGED <<tree, names, status>>

Wrote ==
  \E lines : PlainSeq(lines) /\ code' = code \o lines /\ UNCHANGED tables

Accessed ==
  \E v, l, t :
    /\ v \in Int /\ Plain(l) /\ l.kind # "next" /\ Table(t) /\ v < Len(t) /\ Len(LocalNames) <= Len(t)
    /\ code' = code \o (LocalAddress(v) \o <<l>>)
    /\ tables' = [tables EXCEPT ![Len(tables)] = t]

CallLines(f, size) ==
  <<CmdName("PUSH", "ex"), CmdName("PUSH", "ex"), CmdInt("PUSH", size), Cmd("ADD"),
    CmdName("POP", "ex"), CmdName("CALL", f), CmdName("POP", "ex"), CmdName("PUSH", "gx")>>

Called == (\E f : code' = code \o CallLines(f, FrameSize)) /\ UNCHANGED tables

Effect ==
  /\ \E tasks : Replaced(tasks)
  /\ Wrote \/ Accessed \/ Called
  /\ Passes(passing') /\ curLabel' \in Nat

LEMMA LabelIsNumber ==
  ASSUME TypedInv
  PROVE  curLabel \in Nat /\ curLabel + 1 \in Nat
<1>1. curLabel \in Nat
  BY DEF TypedInv
<1>. QED
  BY <1>1

LEMMA WroteNothing ==
  ASSUME TypedInv, UNCHANGED <<code, tables>>
  PROVE  Wrote
<1>1. code' = code \o <<>>
  BY ConcatEmptySeq, SeqOfItsElements DEF TypedInv
<1>. QED
  BY <1>1, PlainTuple DEF Wrote

LEMMA ReturnEffect == ASSUME TreesGiven, TypedInv, ConvertReturn PROVE Effect
<1>1. /\ Doing("convert") /\ Node.type = "RETURN"
      /\ UNCHANGED <<tree, names, curLabel, tables, status, passing>>
  BY DEF ConvertReturn, Converting
<1>2. Node.value \in Seq(Expressions)
  BY <1>1, NodeFits DEF Expression, Condition, Statement, TopLevel, BinaryOps, Comparisons
<1>3. Passes(passing') /\ curLabel' \in Nat
  BY <1>1 DEF TypedInv, Passes
<1>4. CASE Node.value # <<>>
  <2>. DEFINE tasks == ConvertAll(Node.value) \o <<Emit(<<CmdName("POP", "gx"), Cmd("RET")>>)>>
  <2>1. InnerSeq(<<Emit(<<CmdName("POP", "gx"), Cmd("RET")>>)>>)
    <3>1. PlainSeq(<<CmdName("POP", "gx"), Cmd("RET")>>)
      BY PlainTuple DEF Plain, IsNamedMark, CmdName, Cmd, Line, LoadsDx
    <3>2. Inner(Emit(<<CmdName("POP", "gx"), Cmd("RET")>>))
      BY <3>1 DEF Inner, Emit, Task
    <3>. QED
      BY <3>2, InnerTuple
  <2>2. Node.value \in Seq(Expressions \cup Statements)
    BY <1>2, SeqMonotonic
  <2>3. InnerSeq(tasks)
    BY <2>1, <2>2, ConvertAllInner, InnerJoined
  <2>4. Go(tasks) /\ UNCHANGED code
    BY <1>4 DEF ConvertReturn
  <2>5. Wrote
    BY <1>1, <2>4, WroteNothing
  <2>. QED
    BY <1>1, <1>3, <2>3, <2>4, <2>5 DEF Effect, Replaced, Doing
<1>5. CASE Node.value = <<>>
  <2>1. code' = code \o <<Cmd("RET")>> /\ Go(<<>>)
    BY <1>5 DEF ConvertReturn, Write
  <2>2. PlainSeq(<<Cmd("RET")>>)
    BY PlainTuple DEF Plain, IsNamedMark, CmdName, Cmd, Line, LoadsDx
  <2>3. Wrote
    BY <1>1, <2>1, <2>2 DEF Wrote
  <2>. QED
    BY <1>1, <1>3, <2>1, <2>3, InnerTuple DEF Effect, Replaced, Doing
<1>. QED
  BY <1>4, <1>5

LEMMA CallFits ==
  ASSUME TreesGiven, TypedInv, Converting({"CALL"})
  PROVE  Node.func # "CALL" /\ Node.args \in Seq(Expressions)
BY NodeFits DEF Converting, Expression, Condition, Statement, TopLevel, BinaryOps, Comparisons

LEMMA BuiltinEffect == ASSUME TreesGiven, TypedInv, ConvertBuiltin PROVE Effect
<1>1. /\ Doing("convert") /\ Node.type = "CALL"
      /\ UNCHANGED <<tree, names, curLabel, tables, status, passing>>
  BY DEF ConvertBuiltin, Converting
<1>2. Node.args \in Seq(Expressions \cup Statements)
  <2>1. Node.args \in Seq(Expressions)
    BY CallFits DEF ConvertBuiltin
  <2>. QED
    BY <2>1, SeqMonotonic
<1>3. Passes(passing') /\ curLabel' \in Nat
  BY <1>1 DEF TypedInv, Passes
<1>4. CASE /\ Node.func \in {"SCAN", "P_CDOT", "P_SPACE", "NEW_LINE"}
           /\ Write(<<Cmd(CommandOf(Node.func))>>) /\ Go(<<>>)
  <2>1. Plain(Cmd(CommandOf(Node.func)))
    BY <1>4 DEF Plain, IsNamedMark, CmdName, Cmd, Line, LoadsDx, CommandOf
  <2>2. Wrote
    BY <1>1, <1>4, <2>1, PlainTuple DEF Wrote, Write
  <2>. QED
    BY <1>1, <1>3, <1>4, <2>2, InnerTuple DEF Effect, Replaced, Doing
<1>5. ASSUME NEW lines, PlainSeq(lines), Go(Required(Node.args) \o <<Emit(lines)>>),
             UNCHANGED code
      PROVE  Effect
  <2>1. Inner(Emit(lines))
    BY <1>5 DEF Inner, Emit, Task
  <2>2. InnerSeq(Required(Node.args) \o <<Emit(lines)>>)
    BY <1>2, <2>1, ConvertAllInner, InnerJoined, InnerTuple
  <2>3. Wrote
    BY <1>1, <1>5, WroteNothing
  <2>. QED
    BY <1>1, <1>3, <1>5, <2>2, <2>3 DEF Effect, Replaced, Doing
<1>6. CASE Node.func = "PRINT" /\ UNCHANGED code
           /\ Go(Required(Node.args) \o <<Emit(<<Cmd("OUT")>>)>>)
  <2>1. PlainSeq(<<Cmd("OUT")>>)
    BY PlainTuple DEF Plain, IsNamedMark, CmdName, Cmd, Line, LoadsDx
  <2>. QED
    BY <1>5, <1>6, <2>1
<1>7. CASE /\ Node.func = "SQRT" /\ UNCHANGED code
           /\ Go(Required(Node.args) \o
                 <<Emit(<<CmdName("POP", "fx"), CmdName("SQRT", "fx"), CmdName("PUSH", "fx")>>)>>)
  <2>1. PlainSeq(<<CmdName("POP", "fx"), CmdName("SQRT", "fx"), CmdName("PUSH", "fx")>>)
    BY PlainTuple DEF Plain, IsNamedMark, CmdName, Cmd, Line, LoadsDx
  <2>. QED
    BY <1>5, <1>7, <2>1
<1>. QED
  BY <1>4, <1>6, <1>7 DEF ConvertBuiltin

(* The tasks of a call: its arguments and where each of them goes.         *)
LEMMA ArgumentTasks ==
  ASSUME NEW args \in Seq(Expressions)
  PROVE  FlattenSeq([i \in 1 .. Len(args) |->
           <<Convert(args[Len(args) + 1 - i]),
             Rest("argument", [type |-> ParameterRegister(Len(args) + 1 - i, Len(args))])>>])
         \in Seq({Convert(e) : e \in Expressions}
                 \cup {Rest("argument", [type |-> r]) : r \in Registers})
<1>. DEFINE n == Len(args)
            pair(i) == <<Convert(args[n + 1 - i]),
                         Rest("argument", [type |-> ParameterRegister(n + 1 - i, n)])>>
            T == {Convert(e) : e \in Expressions}
                 \cup {Rest("argument", [type |-> r]) : r \in Registers}
<1>1. n \in Nat /\ \A i \in 1 .. n : args[n + 1 - i] \in Expressions
  OBVIOUS
<1>2. \A i \in 1 .. n : pair(i) \in Seq(T)
  <2>. SUFFICES ASSUME NEW i \in 1 .. n PROVE pair(i) \in Seq(T)
    OBVIOUS
  <2>1. Convert(args[n + 1 - i]) \in T
    BY <1>1
  <2>2. Rest("argument", [type |-> ParameterRegister(n + 1 - i, n)]) \in T
    BY DEF ParameterRegister, Registers
  <2>. HIDE DEF T
  <2>. QED
    BY <2>1, <2>2
<1>. HIDE DEF T
<1>3. <<>> \in Seq(T) /\ \A s, t \in Seq(T) : s \o t \in Seq(T)
  OBVIOUS
<1>. HIDE DEF pair
<1>4. [i \in 1 .. n |-> pair(i)] \in Seq(Seq(T))
  BY <1>1, <1>2
<1>5. FlattenSeq([i \in 1 .. n |-> pair(i)]) \in Seq(T)
  BY <1>3, <1>4, FlattenedIn
<1>. QED
  BY <1>5 DEF pair, T

LEMMA CallEffect == ASSUME TreesGiven, TypedInv, ConvertCall PROVE Effect
<1>1. /\ Doing("convert") /\ Node.type = "CALL"
      /\ UNCHANGED <<tree, names, curLabel, tables, code, status>>
  BY DEF ConvertCall, Converting
<1>2. Node.args \in Seq(Expressions)
  BY CallFits DEF ConvertCall
<1>3. Wrote /\ curLabel' \in Nat
  BY <1>1, WroteNothing DEF TypedInv
<1>. DEFINE n == Len(Node.args)
            pair(i) == <<Convert(Node.args[n + 1 - i]),
                         Rest("argument", [type |-> ParameterRegister(n + 1 - i, n)])>>
            arguments == FlattenSeq([i \in 1 .. n |-> pair(i)])
            T == {Convert(e) : e \in Expressions}
                 \cup {Rest("argument", [type |-> r]) : r \in Registers}
<1>4. arguments \in Seq(T)
  BY <1>2, ArgumentTasks
<1>5. InnerSeq(arguments)
  <2>1. \A t \in T : Inner(t)
    BY DEF Inner, Convert, Rest, Task, Registers
  <2>. HIDE DEF T, arguments
  <2>2. IsSeq(arguments) /\ \A i \in DOMAIN arguments : arguments[i] \in T
    BY <1>4, SeqIs
  <2>. QED
    BY <2>1, <2>2 DEF InnerSeq
<1>6. CASE Contains(functions, Node.func)
  <2>1. Go(arguments \o <<Rest("frame", Node)>>) /\ passing' = Append(passing, <<>>)
    BY <1>6 DEF ConvertCall
  <2>2. Inner(Rest("frame", Node))
    BY DEF Inner, Rest, Task
  <2>. HIDE DEF arguments
  <2>3. InnerSeq(arguments \o <<Rest("frame", Node)>>)
    BY <1>5, <2>2, InnerJoined, InnerTuple
  <2>4. Passes(passing')
    <3>1. passing \in Seq(Seq(Registers))
      BY SeqOfItsElements DEF TypedInv, Passes
    <3>2. passing' \in Seq(Seq(Registers))
      <4>1. <<>> \in Seq(Registers)
        OBVIOUS
      <4>. QED
        BY <2>1, <3>1, <4>1, AppendProperties
    <3>. QED
      BY <3>2, SeqIs DEF Passes
  <2>. QED
    BY <1>1, <1>3, <2>1, <2>3, <2>4 DEF Effect, Replaced, Doing
<1>7. CASE ~ Contains(functions, Node.func)
  <2>1. Go(<<>>) /\ UNCHANGED passing
    BY <1>7 DEF ConvertCall
  <2>. QED
    BY <1>1, <1>3, <2>1, InnerTuple DEF Effect, Replaced, Doing, TypedInv, Passes
<1>. QED
  BY <1>6, <1>7

LEMMA ArgumentEffect == ASSUME TreesGiven, TypedInv, PassArgument PROVE Effect
<1>1. /\ Doing("argument") /\ Go(<<>>) /\ code' = code \o <<CmdName("POP", Node.type)>>
      /\ passing' = [passing EXCEPT ![Len(passing)] = Append(@, Node.type)]
      /\ UNCHANGED <<tree, names, curLabel, tables, status>>
  BY DEF PassArgument, Write
<1>2. Node.type \in Registers
  <2>1. Inner(Task1)
    BY <1>1, HeadTask DEF Doing, Outer
  <2>. QED
    BY <1>1, <2>1 DEF Inner, Doing, Node, Registers
<1>3. Wrote
  <2>1. Plain(CmdName("POP", Node.type))
    BY <1>2 DEF Plain, IsNamedMark, CmdName, Line, LoadsDx, Registers
  <2>. QED
    BY <1>1, <2>1, PlainTuple DEF Wrote
<1>4. Passes(passing')
  <2>1. passing \in Seq(Seq(Registers))
    BY SeqOfItsElements DEF TypedInv, Passes
  <2>2. \A p \in Seq(Registers) : Append(p, Node.type) \in Seq(Registers)
    BY <1>2
  <2>. DEFINE new == Append(passing[Len(passing)], Node.type)
  <2>3. passing' = [passing EXCEPT ![Len(passing)] = new]
    BY <1>1
  <2>4. Len(passing) \in DOMAIN passing => new \in Seq(Registers)
    BY <2>1, <2>2
  <2>. HIDE DEF new
  <2>5. passing' \in Seq(Seq(Registers))
    BY <2>1, <2>3, <2>4, Changed
  <2>. QED
    BY <2>5, SeqIs DEF Passes
<1>. QED
  BY <1>1, <1>3, <1>4, InnerTuple DEF Effect, Replaced, Doing, TypedInv

LEMMA FrameEffect == ASSUME TreesGiven, TypedInv, EmitCall PROVE Effect
<1>1. /\ Doing("frame") /\ Go(<<>>) /\ passing' = Front(passing)
      /\ code' = code \o CallLines(Node.func, FrameSize)
      /\ UNCHANGED <<tree, names, curLabel, tables, status>>
  BY DEF EmitCall, Write, CallLines
<1>2. Called
  BY <1>1 DEF Called
<1>3. Passes(passing')
  <2>1. passing \in Seq(Seq(Registers)) /\ Len(passing) \in Nat
    BY SeqOfItsElements DEF TypedInv, Passes
  <2>2. Front(passing) \in Seq(Seq(Registers))
    BY <2>1 DEF Front
  <2>. QED
    BY <1>1, <2>2, SeqIs DEF Passes
<1>. QED
  BY <1>1, <1>2, <1>3, InnerTuple DEF Effect, Replaced, Doing, TypedInv

LEMMA LocalNamesFit ==
  ASSUME TypedInv, status = "converting"
  PROVE  /\ Len(tables) \in Nat /\ Len(tables) > 0 /\ DOMAIN tables = 1 .. Len(tables)
         /\ LocalNames = tables[Len(tables)] /\ Table(LocalNames)
<1>1. /\ tables \in Seq(ToSet(tables)) /\ Len(tables) \in Nat /\ DOMAIN tables = 1 .. Len(tables)
      /\ \A i \in DOMAIN tables : Table(tables[i])
  BY SeqOfItsElements DEF TypedInv
<1>2. PICK n, m : Divided(n, m)
  BY DEF TypedInv
<1>3. Len(tables) > 0
  BY <1>2 DEF Divided
<1>. QED
  BY <1>1, <1>3 DEF LocalNames, Last

LEMMA AccessEffect ==
  ASSUME TypedInv, status = "converting", NEW op \in {"PUSH", "POP"}, NEW str, Access(op, str)
  PROVE  Wrote \/ Accessed
<1>1. CASE GlobalOffset(str) # NoVariable
  <2>1. code' = code \o <<AtInt(op, GlobalOffset(str))>> /\ UNCHANGED tables
    BY <1>1 DEF Access, Write
  <2>2. Plain(AtInt(op, GlobalOffset(str)))
    BY DEF Plain, IsNamedMark, AtInt, CmdName, Line, LoadsDx
  <2>. QED
    BY <2>1, <2>2, PlainTuple DEF Wrote
<1>2. CASE GlobalOffset(str) = NoVariable
  <2>. DEFINE t == WithName(LocalNames, str)
              v == LocalOffset(t, str)
  <2>1. code' = code \o (LocalAddress(v) \o <<AtReg(op, "dx")>>)
    BY <1>2 DEF Access, Write
  <2>2. tables' = [tables EXCEPT ![Len(tables)] = t]
    BY <1>2 DEF Access
  <2>3. Table(t) /\ Len(LocalNames) <= Len(t)
    BY LocalNamesFit, NameEntered
  <2>4. v \in Int /\ v < Len(t)
    BY <2>3, OffsetInTable DEF Table
  <2>5. Plain(AtReg(op, "dx"))
    BY DEF Plain, IsNamedMark, AtReg, CmdName, Line, LoadsDx
  <2>. HIDE DEF t, v
  <2>. QED
    BY <2>1, <2>2, <2>3, <2>4, <2>5, KindsOf DEF Accessed
<1>. QED
  BY <1>1, <1>2

(* The actions that put parts of the node on the agenda and write nothing. *)
LEMMA PartsEffect ==
  ASSUME TypedInv, NEW tasks, Replaced(tasks), UNCHANGED <<code, tables, curLabel, passing>>
  PROVE  Effect
<1>1. Passes(passing') /\ curLabel' \in Nat
  BY DEF TypedInv, Passes
<1>. QED
  BY <1>1, WroteNothing DEF Effect

LEMMA IfEffect == ASSUME TreesGiven, TypedInv, ConvertIf PROVE Effect
<1>1. /\ Doing("convert") /\ Node.type = "IF" /\ Go(<<Convert(Node.cond), Rest("decide", Node)>>)
      /\ UNCHANGED <<tree, names, curLabel, tables, code, status, passing>>
  BY DEF ConvertIf, Converting
<1>2. Statement(Node, Expressions, Conditions, Statements) /\ Node.type = "IF"
  BY <1>1, NodeFits DEF Expression, Condition, Statement, TopLevel, BinaryOps, Comparisons
<1>3. Node.cond \in Conditions /\ Node.then \in Seq(Statements) /\ Node.else \in Seq(Statements)
  BY <1>2 DEF Statement, Expression, BinaryOps, Comparisons
<1>4. Inner(Convert(Node.cond)) /\ Inner(Rest("decide", Node))
  BY <1>3, ConvertInner DEF Inner, Rest, Task
<1>5. Replaced(<<Convert(Node.cond), Rest("decide", Node)>>)
  BY <1>1, <1>4, InnerTuple DEF Replaced, Doing
<1>. QED
  BY <1>1, <1>5, PartsEffect

LEMMA WhileEffect == ASSUME TreesGiven, TypedInv, ConvertWhile PROVE Effect
<1>1. /\ Doing("convert") /\ Node.type = "WHILE" /\ Go(<<Convert(Node.cond), Rest("loop", Node)>>)
      /\ code' = code \o <<MarkNext(curLabel)>> /\ curLabel' = curLabel + 1
      /\ UNCHANGED <<tree, names, tables, status, passing>>
  BY DEF ConvertWhile, Converting, Write
<1>2. Statement(Node, Expressions, Conditions, Statements) /\ Node.type = "WHILE"
  BY <1>1, NodeFits DEF Expression, Condition, Statement, TopLevel, BinaryOps, Comparisons
<1>3. Node.cond \in Conditions /\ Node.body \in Seq(Statements)
  BY <1>2 DEF Statement, Expression, BinaryOps, Comparisons
<1>4. Inner(Convert(Node.cond)) /\ Inner(Rest("loop", Node))
  BY <1>3, ConvertInner DEF Inner, Rest, Task
<1>5. Replaced(<<Convert(Node.cond), Rest("loop", Node)>>)
  BY <1>1, <1>4, InnerTuple DEF Replaced, Doing
<1>6. Plain(MarkNext(curLabel))
  BY DEF Plain, IsNamedMark, MarkNext, CmdName, Line, LoadsDx
<1>7. Wrote
  BY <1>1, <1>6, PlainTuple DEF Wrote
<1>. QED
  BY <1>1, <1>5, <1>7, LabelIsNumber DEF Effect, TypedInv, Passes

LEMMA AssignEffect == ASSUME TreesGiven, TypedInv, ConvertAssign PROVE Effect
<1>1. /\ Doing("convert") /\ Node.type = "ASSIGN" /\ Go(<<Convert(Node.right), Rest("store", Node)>>)
      /\ UNCHANGED <<tree, names, curLabel, tables, code, status, passing>>
  BY DEF ConvertAssign, Converting
<1>2. Node.right \in Expressions
  BY <1>1, NodeFits DEF Expression, Condition, Statement, TopLevel, BinaryOps, Comparisons
<1>3. Inner(Convert(Node.right)) /\ Inner(Rest("store", Node))
  BY <1>2, ConvertInner DEF Inner, Rest, Task
<1>4. Replaced(<<Convert(Node.right), Rest("store", Node)>>)
  BY <1>1, <1>3, InnerTuple DEF Replaced, Doing
<1>. QED
  BY <1>1, <1>4, PartsEffect

LEMMA BinaryEffect == ASSUME TreesGiven, TypedInv, ConvertBinary PROVE Effect
<1>1. /\ Doing("convert") /\ Node.type \in BinaryOps
      /\ Go(<<Convert(Node.left), Convert(Node.right), Rest("operate", Node)>>)
      /\ UNCHANGED <<tree, names, curLabel, tables, code, status, passing>>
  BY DEF ConvertBinary, Converting
<1>2. Node.left \in Expressions \cup Statements /\ Node.right \in Expressions
  BY <1>1, NodeFits DEF Expression, Condition, Statement, TopLevel, BinaryOps, Comparisons
<1>3. Inner(Convert(Node.left)) /\ Inner(Convert(Node.right)) /\ Inner(Rest("operate", Node))
  BY <1>1, <1>2, ConvertInner DEF Inner, Rest, Task
<1>4. Replaced(<<Convert(Node.left), Convert(Node.right), Rest("operate", Node)>>)
  BY <1>1, <1>3, InnerTuple DEF Replaced, Doing, BinaryOps, Comparisons
<1>. QED
  BY <1>1, <1>4, PartsEffect

LEMMA StatementEffect == ASSUME TreesGiven, TypedInv, ConvertStatement PROVE Effect
<1>1. /\ Doing("convert") /\ Node.type = "STATEMENT" /\ Go(ConvertAll(Node.body))
      /\ UNCHANGED <<tree, names, curLabel, tables, code, status, passing>>
  BY DEF ConvertStatement, Converting
<1>2. Node.body \in Seq(Expressions \cup Statements)
  <2>1. Node.body \in Seq(Statements)
    BY <1>1, StatementFits
  <2>. QED
    BY <2>1, SeqMonotonic
<1>3. Replaced(ConvertAll(Node.body))
  BY <1>1, <1>2, ConvertAllInner DEF Replaced, Doing
<1>. QED
  BY <1>1, <1>3, PartsEffect

LEMMA StoreEffect == ASSUME TreesGiven, TypedInv, Store PROVE Effect
<1>1. /\ Doing("store") /\ Access("POP", Node.str) /\ Go(<<>>)
      /\ UNCHANGED <<tree, names, curLabel, status, passing>>
  BY DEF Store
<1>2. Wrote \/ Accessed
  BY <1>1, AccessEffect DEF Doing
<1>. QED
  BY <1>1, <1>2, InnerTuple DEF Effect, Replaced, Doing, TypedInv, Passes

LEMMA VariableEffect == ASSUME TreesGiven, TypedInv, ConvertVariable PROVE Effect
<1>1. /\ Doing("convert") /\ Node.type = "VARIABLE" /\ Access("PUSH", Node.str) /\ Go(<<>>)
      /\ UNCHANGED <<tree, names, curLabel, status, passing>>
  BY DEF ConvertVariable, Converting
<1>2. Wrote \/ Accessed
  BY <1>1, AccessEffect DEF Doing
<1>. QED
  BY <1>1, <1>2, InnerTuple DEF Effect, Replaced, Doing, TypedInv, Passes

LEMMA ConstEffect == ASSUME TreesGiven, TypedInv, ConvertConst PROVE Effect
<1>1. /\ Doing("convert") /\ Node.type = "CONST" /\ Go(<<>>)
      /\ code' = code \o <<CmdInt("PUSH", AsPrinted(Node.value))>>
      /\ UNCHANGED <<tree, names, curLabel, tables, status, passing>>
  BY DEF ConvertConst, Converting, Write
<1>2. Plain(CmdInt("PUSH", AsPrinted(Node.value)))
  BY DEF Plain, IsNamedMark, CmdInt, CmdName, Line, LoadsDx
<1>3. Wrote
  BY <1>1, <1>2, PlainTuple DEF Wrote
<1>. QED
  BY <1>1, <1>3, InnerTuple DEF Effect, Replaced, Doing, TypedInv, Passes

LEMMA OperateEffect == ASSUME TreesGiven, TypedInv, Operate PROVE Effect
<1>1. /\ Doing("operate") /\ Go(<<>>) /\ UNCHANGED <<tree, names, tables, status, passing>>
      /\ IF Node.type \in Comparisons
         THEN code' = code \o <<JumpNext(Node.type, curLabel)>> /\ curLabel' = curLabel + 1
         ELSE code' = code \o <<Cmd(Node.type)>> /\ UNCHANGED curLabel
  BY DEF Operate, Write
<1>2. Node.type \in BinaryOps
  <2>1. Inner(Task1)
    BY <1>1, HeadTask DEF Doing, Outer
  <2>. QED
    BY <1>1, <2>1 DEF Inner, Doing, Node
<1>3. Plain(JumpNext(Node.type, curLabel)) /\ Plain(Cmd(Node.type))
  BY <1>2 DEF Plain, IsNamedMark, JumpNext, Cmd, CmdName, Line, LoadsDx, BinaryOps, Comparisons
<1>4. Wrote
  BY <1>1, <1>3, PlainTuple DEF Wrote
<1>5. curLabel' \in Nat
  BY <1>1, LabelIsNumber
<1>. QED
  BY <1>1, <1>4, <1>5, InnerTuple DEF Effect, Replaced, Doing, TypedInv, Passes

LEMMA PrintEffect == ASSUME TreesGiven, TypedInv, PrintLines PROVE Effect
<1>1. /\ Doing("print") /\ Go(<<>>) /\ code' = code \o Task1.lines
      /\ UNCHANGED <<tree, names, curLabel, tables, status, passing>>
  BY DEF PrintLines, Write
<1>2. PlainSeq(Task1.lines)
  <2>1. Inner(Task1)
    BY <1>1, HeadTask DEF Doing, Outer
  <2>. QED
    BY <1>1, <2>1 DEF Inner, Doing
<1>3. Wrote
  BY <1>1, <1>2 DEF Wrote
<1>. QED
  BY <1>1, <1>3, InnerTuple DEF Effect, Replaced, Doing, TypedInv, Passes

(* What an if and a while put after their condition.                       *)
LEMMA MarksPlain ==
  /\ \A n : PlainSeq(<<MarkNext(n)>>)
  /\ \A n, k : PlainSeq(<<JumpNext("JMP", n), MarkNext(k)>>)
<1>1. \A n : Plain(MarkNext(n)) /\ Plain(JumpNext("JMP", n))
  BY DEF Plain, IsNamedMark, JumpNext, MarkNext, CmdName, Line, LoadsDx
<1>. QED
  BY <1>1, PlainTuple

LEMMA EmitInner ==
  ASSUME NEW lines, PlainSeq(lines)
  PROVE  InnerSeq(<<Emit(lines)>>)
<1>1. Inner(Emit(lines))
  BY DEF Inner, Emit, Task
<1>. QED
  BY <1>1, InnerTuple

LEMMA DecideEffect == ASSUME TreesGiven, TypedInv, Decide PROVE Effect
<1>. DEFINE tasks == ConvertAll(Node.else)
                     \o <<Emit(<<JumpNext("JMP", curLabel), MarkNext(curLabel - 1)>>)>>
                     \o Required(Node.then)
                     \o <<Emit(<<MarkNext(curLabel)>>)>>
<1>1. /\ Doing("decide") /\ Go(tasks) /\ curLabel' = curLabel + 1
      /\ UNCHANGED <<tree, names, tables, code, status, passing>>
  BY DEF Decide
<1>2. Node.then \in Seq(Statements) /\ Node.else \in Seq(Statements)
  <2>1. Inner(Task1)
    BY <1>1, HeadTask DEF Doing, Outer
  <2>. QED
    BY <1>1, <2>1 DEF Inner, Doing, Node
<1>3. /\ Node.then \in Seq(Expressions \cup Statements)
      /\ Node.else \in Seq(Expressions \cup Statements)
  BY <1>2, SeqMonotonic
<1>4. InnerSeq(tasks)
  <2>1. InnerSeq(ConvertAll(Node.else)) /\ InnerSeq(Required(Node.then))
    BY <1>3, ConvertAllInner
  <2>2. /\ InnerSeq(<<Emit(<<JumpNext("JMP", curLabel), MarkNext(curLabel - 1)>>)>>)
        /\ InnerSeq(<<Emit(<<MarkNext(curLabel)>>)>>)
    BY MarksPlain, EmitInner
  <2>. QED
    BY <2>1, <2>2, InnerJoined
<1>. HIDE DEF tasks
<1>5. curLabel' \in Nat /\ Wrote
  BY <1>1, WroteNothing, LabelIsNumber
<1>. QED
  BY <1>1, <1>4, <1>5 DEF Effect, Replaced, Doing, TypedInv, Passes

LEMMA LoopEffect == ASSUME TreesGiven, TypedInv, Loop PROVE Effect
<1>. DEFINE tasks == Required(Node.body)
                     \o <<Emit(<<JumpNext("JMP", curLabel - 2), MarkNext(curLabel)>>)>>
<1>1. /\ Doing("loop") /\ Go(tasks) /\ curLabel' = curLabel + 1
      /\ code' = code \o <<JumpNext("JMP", curLabel), MarkNext(curLabel - 1)>>
      /\ UNCHANGED <<tree, names, tables, status, passing>>
  BY DEF Loop, Write
<1>2. Node.body \in Seq(Expressions \cup Statements)
  <2>1. Inner(Task1)
    BY <1>1, HeadTask DEF Doing, Outer
  <2>2. Node.body \in Seq(Statements)
    BY <1>1, <2>1 DEF Inner, Doing, Node
  <2>. QED
    BY <2>2, SeqMonotonic
<1>3. InnerSeq(tasks)
  BY <1>2, ConvertAllInner, MarksPlain, EmitInner, InnerJoined
<1>. HIDE DEF tasks
<1>4. curLabel' \in Nat /\ Wrote
  BY <1>1, MarksPlain, LabelIsNumber DEF Wrote
<1>. QED
  BY <1>1, <1>3, <1>4 DEF Effect, Replaced, Doing, TypedInv, Passes

(* The actions of statements and expressions.                              *)
ConvertPart ==
  \/ ConvertReturn \/ ConvertBuiltin \/ ConvertCall \/ PassArgument \/ EmitCall
  \/ ConvertIf \/ Decide \/ ConvertWhile \/ Loop \/ ConvertAssign \/ Store
  \/ ConvertVariable \/ ConvertConst \/ ConvertBinary \/ Operate \/ ConvertStatement
  \/ PrintLines

LEMMA PartEffect == ASSUME TreesGiven, TypedInv, ConvertPart PROVE Effect
BY ReturnEffect, BuiltinEffect, CallEffect, ArgumentEffect, FrameEffect, IfEffect, DecideEffect,
   WhileEffect, LoopEffect, AssignEffect, StoreEffect, VariableEffect, ConstEffect, BinaryEffect,
   OperateEffect, StatementEffect, PrintEffect DEF ConvertPart

-----------------------------------------------------------------------------
(* The agenda after a step: new tasks before what was left.                *)
LEMMA GoIndex ==
  ASSUME IsSeq(agenda), agenda # <<>>, NEW tasks, IsSeq(tasks), Go(tasks)
  PROVE  /\ IsSeq(agenda') /\ Len(agenda') = Len(tasks) + Len(agenda) - 1
         /\ Len(tasks) \in Nat /\ Len(agenda) \in Nat /\ Len(agenda) > 0
         /\ \A i \in 1 .. Len(tasks) : agenda'[i] = tasks[i]
         /\ \A i \in Len(tasks) + 1 .. Len(agenda') : agenda'[i] = agenda[i - Len(tasks) + 1]
<1>1. /\ agenda \in Seq(ToSet(agenda)) /\ Len(agenda) \in Nat
      /\ Len(tasks) \in Nat
  BY SeqOfItsElements
<1>2. /\ Tail(agenda) \in Seq(ToSet(agenda)) /\ Len(Tail(agenda)) = Len(agenda) - 1
      /\ Len(agenda) > 0 /\ \A i \in 1 .. Len(agenda) - 1 : Tail(agenda)[i] = agenda[i + 1]
  BY <1>1
<1>3. IsSeq(Tail(agenda))
  BY <1>2, SeqIs
<1>4. agenda' = tasks \o Tail(agenda)
  BY DEF Go
<1>5. /\ IsSeq(agenda') /\ Len(agenda') = Len(tasks) + Len(agenda) - 1
      /\ \A i \in 1 .. Len(tasks) : agenda'[i] = tasks[i]
  BY <1>1, <1>2, <1>3, <1>4, Joined
<1>6. ASSUME NEW i \in Len(tasks) + 1 .. Len(agenda')
      PROVE  agenda'[i] = agenda[i - Len(tasks) + 1]
  <2>1. i - Len(tasks) \in 1 .. Len(Tail(agenda)) /\ i = Len(tasks) + (i - Len(tasks))
    BY <1>1, <1>2, <1>5
  <2>2. agenda'[i] = Tail(agenda)[i - Len(tasks)]
    BY <1>3, <1>4, <2>1, Joined
  <2>. QED
    BY <1>1, <1>2, <2>1, <2>2
<1>. QED
  BY <1>1, <1>2, <1>5, <1>6

LEMMA CallLinesAre ==
  ASSUME NEW f, NEW size
  PROVE  /\ IsSeq(CallLines(f, size)) /\ Len(CallLines(f, size)) = 8
         /\ CallLines(f, size)[3] = CmdInt("PUSH", size)
         /\ CallLines(f, size)[6] = CmdName("CALL", f)
         /\ \A i \in {1, 2, 3, 4, 5, 7, 8} : Plain(CallLines(f, size)[i])
<1>. DEFINE S == {CmdName("PUSH", "ex"), CmdInt("PUSH", size), Cmd("ADD"), CmdName("POP", "ex"),
                  CmdName("CALL", f), CmdName("PUSH", "gx")}
<1>1. CallLines(f, size) \in Seq(S) /\ Len(CallLines(f, size)) = 8
  BY DEF CallLines
<1>2. IsSeq(CallLines(f, size))
  BY <1>1, SeqIs
<1>3. /\ Plain(CmdName("PUSH", "ex")) /\ Plain(CmdName("POP", "ex"))
      /\ Plain(CmdName("PUSH", "gx"))
  BY DEF Plain, IsNamedMark, CmdName, Line, LoadsDx
<1>4. Plain(CmdInt("PUSH", size)) /\ Plain(Cmd("ADD"))
  BY DEF Plain, IsNamedMark, CmdName, CmdInt, Cmd, Line, LoadsDx
<1>. QED
  BY <1>1, <1>2, <1>3, <1>4 DEF CallLines

(* What a part of a function does to the code and the tables.              *)
LEMMA EffectFits ==
  ASSUME TypedInv, Effect
  PROVE  /\ IsSeq(code') /\ IsSeq(tables') /\ Len(tables') = Len(tables)
         /\ \A i \in DOMAIN tables' : Table(tables'[i])
<1>1. status = "converting" /\ IsSeq(code) /\ IsSeq(tables)
  BY DEF Effect, Replaced, TypedInv
<1>2. CASE Wrote
  <2>1. PICK lines : PlainSeq(lines) /\ code' = code \o lines /\ UNCHANGED tables
    BY <1>2 DEF Wrote
  <2>. QED
    BY <1>1, <2>1, Joined DEF PlainSeq, TypedInv
<1>3. CASE Called
  BY <1>1, <1>3, CallLinesAre, Joined DEF Called, TypedInv
<1>4. CASE Accessed
  <2>1. PICK v, l, t :
          /\ v \in Int /\ Plain(l) /\ l.kind # "next" /\ Table(t) /\ v < Len(t) /\ Len(LocalNames) <= Len(t)
          /\ code' = code \o (LocalAddress(v) \o <<l>>)
          /\ tables' = [tables EXCEPT ![Len(tables)] = t]
    BY <1>4 DEF Accessed
  <2>2. IsSeq(LocalAddress(v) \o <<l>>)
    BY LocalAddressIs, TupleIsSeq, Joined
  <2>3. IsSeq(code')
    BY <1>1, <2>1, <2>2, Joined
  <2>. DEFINE S == {x \in ToSet(tables) \cup {t} : Table(x)}
  <2>4. tables \in Seq(S)
    <3>1. \A i \in DOMAIN tables : tables[i] \in S
      BY DEF ToSet, TypedInv
    <3>. HIDE DEF S
    <3>. QED
      BY <1>1, <3>1, SeqOfItsElements
  <2>5. t \in S /\ \A x \in S : Table(x)
    BY <2>1
  <2>. HIDE DEF S
  <2>6. tables' \in Seq(S) /\ Len(tables') = Len(tables)
    <3>1. Len(tables) \in DOMAIN tables => t \in S
      BY <2>5
    <3>2. [tables EXCEPT ![Len(tables)] = t] \in Seq(S)
      BY <2>4, <3>1, Changed
    <3>3. Len([tables EXCEPT ![Len(tables)] = t]) = Len(tables)
      BY <2>4, <3>1, Changed
    <3>. QED
      BY <2>1, <3>2, <3>3
  <2>7. IsSeq(tables') /\ \A i \in DOMAIN tables' : Table(tables'[i])
    BY <2>5, <2>6, SeqIs
  <2>. QED
    BY <2>3, <2>6, <2>7
<1>. QED
  BY <1>2, <1>3, <1>4 DEF Effect

LEMMA EffectDivided ==
  ASSUME TypedInv, Effect
  PROVE  IsSeq(agenda') /\ \E n, m : Divided(n, m)'
<1>1. PICK tasks : Replaced(tasks)
  BY DEF Effect
<1>. DEFINE k == Len(tasks)
<1>2. /\ IsSeq(agenda') /\ Len(agenda') = k + Len(agenda) - 1
      /\ k \in Nat /\ Len(agenda) \in Nat /\ Len(agenda) > 0
      /\ \A i \in 1 .. k : agenda'[i] = tasks[i]
      /\ \A i \in k + 1 .. Len(agenda') : agenda'[i] = agenda[i - k + 1]
  BY <1>1, GoIndex DEF Replaced, InnerSeq, TypedInv
<1>3. \A i \in 1 .. k : Inner(agenda'[i])
  BY <1>1, <1>2, SeqOfItsElements DEF Replaced, InnerSeq
<1>4. PICK n, m : Divided(n, m)
  BY <1>1 DEF Replaced, TypedInv
<1>5. /\ n \in Nat /\ m \in {n, n + 1} /\ m <= Len(agenda)
      /\ \A i \in 1 .. n : Inner(agenda[i])
      /\ m = n + 1 => agenda[m].do = "leave"
      /\ \A i \in m + 1 .. Len(agenda) : Outer(agenda[i])
      /\ Len(tables) = 1 + m - n
      /\ (OnlyFunctions /\ n > 0 => m = n + 1)
  BY <1>4 DEF Divided
<1>6. Len(tables') = Len(tables) /\ items' = items
  BY <1>1, EffectFits DEF Replaced, tree
<1>8. OnlyFunctions' <=> OnlyFunctions
  BY <1>6 DEF OnlyFunctions
<1>. HIDE DEF k
<1>9. CASE n > 0
  <2>0. PICK a, b : a = n - 1 + k /\ b = m - 1 + k
    OBVIOUS
  <2>1. a \in Nat /\ b \in {a, a + 1} /\ b <= Len(agenda') /\ (b = a + 1 <=> m = n + 1)
    BY <2>0, <1>2, <1>5, <1>9
  <2>2. \A i \in 1 .. a : Inner(agenda'[i])
    <3>. SUFFICES ASSUME NEW i \in 1 .. a, i \notin 1 .. k PROVE Inner(agenda'[i])
      BY <1>3
    <3>1. i \in k + 1 .. Len(agenda') /\ i - k + 1 \in 1 .. n
      BY <2>0, <1>2, <1>5, <1>9
    <3>. QED
      BY <1>2, <1>5, <3>1
  <2>3. b = a + 1 => agenda'[b].do = "leave"
    <3>. SUFFICES ASSUME b = a + 1 PROVE agenda'[b].do = "leave"
      OBVIOUS
    <3>1. b \in k + 1 .. Len(agenda') /\ b - k + 1 = m
      BY <2>0, <1>2, <1>5, <1>9, <2>1
    <3>. QED
      BY <1>2, <1>5, <2>1, <3>1
  <2>4. \A i \in b + 1 .. Len(agenda') : Outer(agenda'[i])
    <3>. SUFFICES ASSUME NEW i \in b + 1 .. Len(agenda') PROVE Outer(agenda'[i])
      OBVIOUS
    <3>1. m \in Nat /\ m > 0 /\ k \in Nat /\ Len(agenda) \in Nat
      BY <1>2, <1>5, <1>9
    <3>2. i \in Int /\ m + k <= i /\ i <= k + Len(agenda) - 1
      BY <2>0, <1>2, <3>1
    <3>3. i \in k + 1 .. Len(agenda') /\ i - k + 1 \in m + 1 .. Len(agenda)
      BY <1>2, <3>1, <3>2
    <3>. QED
      BY <1>2, <1>5, <3>3
  <2>5. Len(tables') = 1 + b - a /\ (OnlyFunctions' /\ a > 0 => b = a + 1)
    BY <2>0, <1>2, <1>5, <1>6, <1>8, <1>9
  <2>6. Divided(a, b)'
    BY <1>6, <2>1, <2>2, <2>3, <2>4, <2>5 DEF Divided, Outer
  <2>. QED
    BY <1>2, <2>6
<1>10. CASE n = 0
  <2>1. m = 0
    <3>1. Task1.do # "leave" /\ Task1 = agenda[1]
      BY <1>1, HeadTask DEF Replaced
    <3>. QED
      BY <1>5, <1>10, <3>1
  <2>2. ~ OnlyFunctions
    <3>1. Outer(Task1) /\ Node.type # "DEFINE"
      <4>1. Task1 = agenda[1]
        BY <1>1, HeadTask DEF Replaced
      <4>2. Outer(Task1)
        BY <1>2, <1>5, <1>10, <2>1, <4>1
      <4>. QED
        BY <1>1, <4>2 DEF Replaced, Outer
    <3>. QED
      BY <3>1 DEF Outer, OnlyFunctions, IsDefine, Node, ToSet
  <2>3. \A i \in k + 1 .. Len(agenda') : Outer(agenda'[i])
    <3>. SUFFICES ASSUME NEW i \in k + 1 .. Len(agenda') PROVE Outer(agenda'[i])
      OBVIOUS
    <3>1. i - k + 1 \in m + 1 .. Len(agenda)
      BY <1>2, <2>1
    <3>. QED
      BY <1>2, <1>5, <3>1
  <2>4. k <= Len(agenda') /\ Len(tables') = 1 + k - k /\ k # k + 1
    BY <1>2, <1>5, <1>6, <1>10, <2>1
  <2>5. PICK a : a = k
    OBVIOUS
  <2>6. Divided(a, a)'
    BY <1>2, <1>3, <1>6, <1>8, <2>2, <2>3, <2>4, <2>5 DEF Divided, Outer
  <2>. QED
    BY <1>2, <2>6
<1>. QED
  BY <1>5, <1>9, <1>10

LEMMA EffectTyped == ASSUME TypedInv, Effect PROVE TypedInv'
<1>1. status = "converting" /\ UNCHANGED <<tree, names, status>>
  BY DEF Effect, Replaced
<1>2. /\ IsSeq(code') /\ IsSeq(tables') /\ \A i \in DOMAIN tables' : Table(tables'[i])
      /\ IsSeq(agenda') /\ \E n, m : Divided(n, m)'
  BY EffectFits, EffectDivided
<1>. QED
  BY <1>1, <1>2 DEF Effect, TypedInv, tree, names, Passes, Table

-----------------------------------------------------------------------------
(* The steps outside the functions.                                        *)
LEMMA DefineHead ==
  ASSUME TreesGiven, TypedInv, Converting({"DEFINE"})
  PROVE  /\ Divided(0, 0) /\ TopLevel(Node, Expressions, Statements) /\ Node.type = "DEFINE"
         /\ status = "converting" /\ agenda # <<>> /\ IsSeq(agenda)
<1>1. status = "converting" /\ agenda # <<>> /\ Task1.do = "convert" /\ Node.type = "DEFINE"
  BY DEF Converting, Doing
<1>2. PICK n, m : Divided(n, m)
  BY <1>1 DEF TypedInv
<1>3. ~ Inner(Task1)
  <2>1. \A e \in Expressions \cup Conditions \cup Statements : e.type # "DEFINE"
    BY DEF TreesGiven, Trees, Expression, Condition, Statement, BinaryOps, Comparisons
  <2>. QED
    BY <1>1, <2>1 DEF Inner, Node
<1>4. Outer(Task1) /\ Task1 = agenda[1] /\ Len(agenda) \in Nat /\ Len(agenda) > 0
  BY <1>1, <1>3, HeadTask
<1>5. n = 0 /\ m = 0
  <2>1. n \in Nat /\ m \in {n, n + 1} /\ (m = n + 1 => agenda[m].do = "leave")
        /\ \A i \in 1 .. n : Inner(agenda[i])
    BY <1>2 DEF Divided
  <2>2. n = 0
    BY <1>3, <1>4, <2>1
  <2>. QED
    BY <1>1, <1>4, <2>1, <2>2
<1>. QED
  BY <1>1, <1>2, <1>4, <1>5 DEF Outer, TypedInv, Node, ToSet

LEMMA LeaveHead ==
  ASSUME TypedInv, Doing("leave")
  PROVE  /\ Divided(0, 1) /\ status = "converting" /\ agenda # <<>> /\ IsSeq(agenda)
         /\ Len(tables) = 2 /\ tables \in Seq(ToSet(tables)) /\ Table(tables[1]) /\ Table(tables[2])
<1>1. status = "converting" /\ agenda # <<>> /\ Task1.do = "leave"
  BY DEF Doing
<1>2. PICK n, m : Divided(n, m)
  BY <1>1 DEF TypedInv
<1>3. ~ Inner(Task1) /\ ~ Outer(Task1) /\ Task1 = agenda[1] /\ Len(agenda) \in Nat /\ Len(agenda) > 0
  BY <1>1, HeadTask DEF Inner, Outer
<1>4. n = 0 /\ m = 1
  <2>1. n \in Nat /\ m \in {n, n + 1}
        /\ (\A i \in 1 .. n : Inner(agenda[i])) /\ \A i \in m + 1 .. Len(agenda) : Outer(agenda[i])
    BY <1>2 DEF Divided
  <2>2. n = 0
    BY <1>3, <2>1
  <2>. QED
    BY <1>3, <2>1, <2>2
<1>5. Len(tables) = 2
  BY <1>2, <1>4 DEF Divided
<1>6. tables \in Seq(ToSet(tables)) /\ DOMAIN tables = 1 .. Len(tables)
  BY SeqOfItsElements DEF TypedInv
<1>. QED
  BY <1>1, <1>2, <1>4, <1>5, <1>6 DEF TypedInv

LEMMA FrontOfTuple ==
  /\ \A a : Front(<<a>>) = <<>>
  /\ \A a, b : Front(<<a, b>>) = <<a>>
<1>1. ASSUME NEW a PROVE Front(<<a>>) = <<>>
  <2>. DEFINE s == <<a>>
  <2>1. s \in Seq({a}) /\ Len(s) = 1
    OBVIOUS
  <2>. HIDE DEF s
  <2>2. SubSeq(s, 1, 0) = <<>>
    BY <2>1, SubSeqEmpty
  <2>3. Front(s) = SubSeq(s, 1, 0)
    BY <2>1 DEF Front
  <2>. QED
    BY <2>2, <2>3 DEF s
<1>2. ASSUME NEW a, NEW b PROVE Front(<<a, b>>) = <<a>>
  <2>. DEFINE s == <<a, b>>
  <2>1. s \in Seq({a, b}) /\ Len(s) = 2 /\ s[1] = a
    OBVIOUS
  <2>. HIDE DEF s
  <2>2. SubSeq(s, 1, 1) = <<a>>
    <3>. DEFINE u == SubSeq(s, 1, 1)
    <3>1. u \in Seq({a, b}) /\ Len(u) = 1 /\ u[1] = s[1]
      BY <2>1
    <3>2. u = <<u[1]>>
      <4>. HIDE DEF u
      <4>. QED
        BY <3>1
    <3>. QED
      BY <2>1, <3>1, <3>2
  <2>3. Front(s) = SubSeq(s, 1, 1)
    BY <2>1 DEF Front
  <2>. QED
    BY <2>2, <2>3 DEF s
<1>. QED
  BY <1>1, <1>2

(* When the head goes and nothing takes its place.                         *)
LEMMA GoNowhere ==
  ASSUME IsSeq(agenda), agenda # <<>>, Go(<<>>)
  PROVE  /\ IsSeq(agenda') /\ Len(agenda') = Len(agenda) - 1 /\ Len(agenda) \in Nat /\ Len(agenda) > 0
         /\ \A i \in 1 .. Len(agenda') : agenda'[i] = agenda[i + 1]
<1>1. IsSeq(<<>>) /\ Len(<<>>) = 0
  BY TupleIsSeq
<1>. QED
  BY <1>1, GoIndex

LEMMA LeaveTyped == ASSUME TypedInv, LeaveDefine PROVE TypedInv'
<1>1. /\ Doing("leave") /\ Go(<<>>) /\ UNCHANGED <<tree, names, curLabel, code, status, passing>>
      /\ tables' = IF Node.func = "MAIN"
                    THEN Append(Front(Front(tables)), LocalNames) ELSE Front(tables)
  BY DEF LeaveDefine
<1>2. /\ Divided(0, 1) /\ status = "converting" /\ agenda # <<>> /\ IsSeq(agenda)
      /\ Len(tables) = 2 /\ tables \in Seq(ToSet(tables)) /\ Table(tables[1]) /\ Table(tables[2])
  BY <1>1, LeaveHead
<1>3. tables' = <<tables[1]>> \/ tables' = <<tables[2]>>
  <2>1. tables = <<tables[1], tables[2]>>
    BY <1>2
  <2>2. Front(tables) = <<tables[1]>> /\ LocalNames = tables[2]
    BY <1>2, <2>1, FrontOfTuple DEF LocalNames, Last
  <2>3. Append(Front(<<tables[1]>>), tables[2]) = <<tables[2]>>
    <3>1. Front(<<tables[1]>>) = <<>>
      BY FrontOfTuple
    <3>2. \A t : Append(<<>>, t) = <<t>>
      OBVIOUS
    <3>. QED
      BY <3>1, <3>2
  <2>. QED
    BY <1>1, <2>2, <2>3
<1>4. IsSeq(tables') /\ Len(tables') = 1 /\ \A i \in DOMAIN tables' : Table(tables'[i])
  BY <1>2, <1>3, TupleIsSeq, SeqOfItsElements
<1>5. IsSeq(agenda') /\ Divided(0, 0)'
  <2>1. /\ IsSeq(agenda') /\ Len(agenda') = Len(agenda) - 1 /\ Len(agenda) \in Nat /\ Len(agenda) > 0
        /\ \A i \in 1 .. Len(agenda') : agenda'[i] = agenda[i + 1]
    BY <1>1, <1>2, GoNowhere
  <2>2. \A i \in 0 + 1 .. Len(agenda') : Outer(agenda'[i])
    BY <1>2, <2>1 DEF Divided
  <2>. QED
    BY <1>1, <1>4, <2>1, <2>2 DEF Divided, Outer, tree, OnlyFunctions
<1>. QED
  BY <1>1, <1>2, <1>4, <1>5 DEF TypedInv, tree, names, Passes, Table

LEMMA TableAdded ==
  ASSUME NEW s, IsSeq(s), Len(s) = 1, NEW t
  PROVE  IsSeq(Append(s, t)) /\ Len(Append(s, t)) = 2 /\ Append(s, t)[1] = s[1] /\ Append(s, t)[2] = t
<1>. DEFINE S == ToSet(s) \cup {t}
<1>1. s \in Seq(S) /\ t \in S
  BY SeqOfItsElements
<1>. HIDE DEF S
<1>2. Append(s, t) \in Seq(S) /\ Len(Append(s, t)) = 2
  BY <1>1
<1>3. Append(s, t)[1] = s[1] /\ Append(s, t)[2] = t
  <2>1. PICK a : a = s[1] /\ s = <<a>>
    BY <1>1
  <2>2. \A c, d : Append(<<c>>, d)[1] = c /\ Append(<<c>>, d)[2] = d
    OBVIOUS
  <2>. QED
    BY <2>1, <2>2
<1>. QED
  BY <1>2, <1>3, SeqIs

LEMMA DefineTyped == ASSUME TreesGiven, TypedInv, ConvertDefine PROVE TypedInv'
<1>. DEFINE table == ParameterTable(Node.params)
            tasks == Required(Node.body) \o <<Rest("leave", Node)>>
<1>1. Converting({"DEFINE"}) /\ UNCHANGED <<tree, names, curLabel, status, passing>>
  BY DEF ConvertDefine
<1>2. /\ Divided(0, 0) /\ TopLevel(Node, Expressions, Statements) /\ Node.type = "DEFINE"
      /\ status = "converting" /\ agenda # <<>> /\ IsSeq(agenda)
  BY <1>1, DefineHead
<1>3. IsSeq(Node.params) /\ Node.body \in Seq(Statements)
  BY <1>2 DEF TopLevel, IsSeq
<1>4. IsSeq(tables) /\ IsSeq(code) /\ Len(tables) = 1 /\ \A i \in DOMAIN tables : Table(tables[i])
  BY <1>2 DEF TypedInv, Divided
<1>5. Table(table) /\ Table(<<>>)
  BY <1>3, ParametersFit, TupleIsSeq, TablesAssumption DEF Table
<1>6. InnerSeq(Required(Node.body))
  <2>1. Node.body \in Seq(Expressions \cup Statements)
    BY <1>3, SeqMonotonic
  <2>. QED
    BY <2>1, ConvertAllInner
<1>7. ASSUME NEW t, Table(t), tables' = Append(tables, t), Go(tasks), IsSeq(code')
      PROVE  TypedInv'
  <2>1. IsSeq(tables') /\ Len(tables') = 2 /\ \A i \in DOMAIN tables' : Table(tables'[i])
    <3>3. IsSeq(tables') /\ Len(tables') = 2 /\ tables'[1] = tables[1] /\ tables'[2] = t
      BY <1>4, <1>7, TableAdded
    <3>4. DOMAIN tables' = 1 .. 2 /\ DOMAIN tables = 1 .. 1
      BY <1>4, <3>3, SeqOfItsElements
    <3>. QED
      BY <1>4, <1>7, <3>3, <3>4
  <2>. DEFINE k == Len(Required(Node.body))
  <2>2. IsSeq(tasks) /\ Len(tasks) = k + 1 /\ k \in Nat /\ tasks[k + 1] = Rest("leave", Node)
        /\ \A i \in 1 .. k : Inner(tasks[i])
    <3>1. IsSeq(Required(Node.body)) /\ \A i \in 1 .. k : Inner(Required(Node.body)[i])
      BY <1>6, SeqOfItsElements DEF InnerSeq
    <3>. QED
      BY <3>1, TupleIsSeq, Joined, SeqOfItsElements
  <2>. HIDE DEF k, tasks
  <2>3. /\ IsSeq(agenda') /\ Len(agenda') = k + 1 + Len(agenda) - 1
        /\ Len(agenda) \in Nat /\ Len(agenda) > 0
        /\ \A i \in 1 .. k + 1 : agenda'[i] = tasks[i]
        /\ \A i \in k + 1 + 1 .. Len(agenda') : agenda'[i] = agenda[i - (k + 1) + 1]
    BY <1>2, <1>7, <2>2, GoIndex
  <2>4. PICK a, b : a = k /\ b = k + 1
    OBVIOUS
  <2>5. \A i \in b + 1 .. Len(agenda') : Outer(agenda'[i])
    <3>. SUFFICES ASSUME NEW i \in b + 1 .. Len(agenda') PROVE Outer(agenda'[i])
      OBVIOUS
    <3>1. i - (k + 1) + 1 \in 0 + 1 .. Len(agenda) /\ i \in k + 1 + 1 .. Len(agenda')
      BY <2>2, <2>3, <2>4
    <3>. QED
      BY <1>2, <2>3, <3>1 DEF Divided
  <2>6. /\ a \in Nat /\ b = a + 1 /\ b <= Len(agenda') /\ Len(tables') = 1 + b - a
        /\ agenda'[b].do = "leave" /\ \A i \in 1 .. a : Inner(agenda'[i])
    BY <2>1, <2>2, <2>3, <2>4 DEF Rest, Task
  <2>7. Divided(a, b)'
    BY <1>1, <2>5, <2>6 DEF Divided, Outer, tree
  <2>. QED
    BY <1>1, <1>2, <1>7, <2>1, <2>3, <2>7 DEF TypedInv, tree, names, Passes, Table
<1>8. CASE /\ Write(<<Mark("MAIN"), CmdName("PUSH", "ex"), CmdInt("PUSH", 1),
                       Cmd("ADD"), CmdName("POP", "ex")>>)
           /\ tables' = Append(tables, <<>>) /\ Go(tasks)
  <2>1. IsSeq(code')
    <3>1. <<Mark("MAIN"), CmdName("PUSH", "ex"), CmdInt("PUSH", 1), Cmd("ADD"), CmdName("POP", "ex")>>
            = <<Mark("MAIN"), CmdName("PUSH", "ex"), CmdInt("PUSH", 1)>>
              \o <<Cmd("ADD"), CmdName("POP", "ex")>>
      OBVIOUS
    <3>. QED
      BY <1>4, <1>8, <3>1, TupleIsSeq, Joined DEF Write
  <2>. QED
    BY <1>5, <1>7, <1>8, <2>1
<1>9. CASE /\ Write(<<Mark(Node.func)>> \o Prologue(Node.params, table))
           /\ tables' = Append(tables, table) /\ Go(tasks)
  <2>1. IsSeq(Prologue(Node.params, table))
    BY <1>3, <1>5, PrologueAddressed DEF Addressed
  <2>2. IsSeq(code')
    BY <1>4, <1>9, <2>1, TupleIsSeq, Joined DEF Write
  <2>. QED
    BY <1>5, <1>7, <1>9, <2>2
<1>10. CASE Go(<<>>) /\ UNCHANGED <<code, tables>>
  <2>1. IsSeq(agenda') /\ Divided(0, 0)'
    <3>1. /\ IsSeq(agenda') /\ Len(agenda') = Len(agenda) - 1 /\ Len(agenda) \in Nat /\ Len(agenda) > 0
          /\ \A i \in 1 .. Len(agenda') : agenda'[i] = agenda[i + 1]
      BY <1>2, <1>10, GoNowhere
    <3>2. \A i \in 0 + 1 .. Len(agenda') : Outer(agenda'[i])
      BY <1>2, <3>1 DEF Divided
    <3>. QED
      BY <1>1, <1>4, <1>10, <3>1, <3>2 DEF Divided, Outer, tree, OnlyFunctions
  <2>. QED
    BY <1>1, <1>2, <1>4, <1>10, <2>1 DEF TypedInv, tree, names, Passes, Table
<1>. QED
  BY <1>8, <1>9, <1>10 DEF ConvertDefine

-----------------------------------------------------------------------------
(* The globals at the top level.                                           *)
LEMMA GlobalsAre ==
  ASSUME TypedInv
  PROVE  /\ DOMAIN globalNames = 0 .. NUMBERS_VARIABLE - 1 /\ curGlobal \in 1 .. NUMBERS_VARIABLE
         /\ curGlobal \in Int /\ NUMBERS_VARIABLE \in Nat
<1>1. DOMAIN globalNames = 0 .. NUMBERS_VARIABLE - 1 /\ curGlobal \in 1 .. NUMBERS_VARIABLE
  BY DEF TypedInv
<1>. QED
  BY <1>1, TablesAssumption

LEMMA EnterGlobalTyped ==
  ASSUME TypedInv, NEW n, EnterGlobal(n), curGlobal < NUMBERS_VARIABLE
  PROVE  /\ DOMAIN globalNames' = 0 .. NUMBERS_VARIABLE - 1 /\ curGlobal' \in 1 .. NUMBERS_VARIABLE
         /\ IsSeq(code') /\ (PlainSeq(code) => PlainSeq(code'))
<1>1. /\ DOMAIN globalNames = 0 .. NUMBERS_VARIABLE - 1 /\ IsSeq(code)
      /\ curGlobal \in 1 .. NUMBERS_VARIABLE /\ NUMBERS_VARIABLE \in Nat
  BY TablesAssumption DEF TypedInv
<1>2. DOMAIN globalNames' = 0 .. NUMBERS_VARIABLE - 1
  BY <1>1 DEF EnterGlobal
<1>3. CASE n.right.type = "CONST"
  <2>1. /\ code' = code \o <<CmdInt("PUSH", AsPrinted(n.right.value)), AtInt("POP", curGlobal)>>
        /\ curGlobal' = curGlobal + 1
    BY <1>3 DEF EnterGlobal
  <2>2. /\ Plain(CmdInt("PUSH", AsPrinted(n.right.value))) /\ Plain(AtInt("POP", curGlobal))
    BY DEF Plain, IsNamedMark, CmdInt, AtInt, CmdName, Line, LoadsDx
  <2>3. PlainSeq(<<CmdInt("PUSH", AsPrinted(n.right.value)), AtInt("POP", curGlobal)>>)
    BY <2>2, PlainTuple
  <2>4. IsSeq(code') /\ (PlainSeq(code) => PlainSeq(code'))
    BY <1>1, <2>1, <2>3, Joined, PlainJoined DEF PlainSeq
  <2>5. curGlobal' \in 1 .. NUMBERS_VARIABLE
    BY <1>1, <2>1
  <2>. QED
    BY <1>2, <2>4, <2>5
<1>4. CASE n.right.type # "CONST"
  <2>1. UNCHANGED <<code, curGlobal>>
    BY <1>4 DEF EnterGlobal
  <2>. QED
    BY <1>1, <1>2, <2>1 DEF PlainSeq
<1>. QED
  BY <1>3, <1>4

(* Before the first conversion nothing but plain lines is written.         *)
Before == status \in {"trailing", "visiting", "calling"} => PlainSeq(code)

(* The top level with an item left out, or cut.                            *)
ItemsFit(its) == IsSeq(its) /\ \A i \in DOMAIN its : TopLevel(its[i], Expressions, Statements)

LEMMA ItemsCut ==
  ASSUME NEW its, ItemsFit(its), NEW i, NEW j \in 0 .. Len(its), i \in 1 .. j + 1
  PROVE  ItemsFit(SubSeq(its, i, j)) /\ Len(SubSeq(its, i, j)) = j + 1 - i
<1>. DEFINE S == {d \in ToSet(its) : TopLevel(d, Expressions, Statements)}
<1>1. its \in Seq(S)
  <2>1. \A k \in DOMAIN its : its[k] \in S
    BY DEF ItemsFit, ToSet
  <2>. HIDE DEF S
  <2>. QED
    BY <2>1, SeqOfItsElements DEF ItemsFit
<1>2. \A d \in S : TopLevel(d, Expressions, Statements)
  OBVIOUS
<1>. HIDE DEF S
<1>3. Len(its) \in Nat
  BY <1>1
<1>. DEFINE u == SubSeq(its, i, j)
<1>4. u \in Seq(S) /\ Len(u) = j + 1 - i
  BY <1>1, <1>3, SubSeqProperties
<1>. HIDE DEF u
<1>5. IsSeq(u) /\ \A k \in DOMAIN u : u[k] \in S
  BY <1>4, SeqIs
<1>6. ItemsFit(u)
  BY <1>2, <1>5 DEF ItemsFit
<1>. QED
  BY <1>4, <1>6 DEF u

LEMMA ItemRemoved ==
  ASSUME NEW its, ItemsFit(its), NEW i \in 1 .. Len(its)
  PROVE  ItemsFit(RemoveAt(its, i)) /\ Len(RemoveAt(its, i)) = Len(its) - 1
<1>. DEFINE s == SubSeq(its, 1, i - 1)
            t == SubSeq(its, i + 1, Len(its))
<1>1. Len(its) \in Nat
  BY SeqOfItsElements DEF ItemsFit
<1>2. /\ ItemsFit(s) /\ Len(s) = i - 1
      /\ ItemsFit(t) /\ Len(t) = Len(its) - i
  <2>1. i - 1 \in 0 .. Len(its) /\ 1 \in 1 .. i - 1 + 1 /\ i + 1 \in 1 .. Len(its) + 1
    BY <1>1
  <2>2. ItemsFit(s) /\ Len(s) = i - 1 + 1 - 1
    BY <2>1, ItemsCut
  <2>3. ItemsFit(t) /\ Len(t) = Len(its) + 1 - (i + 1)
    BY <1>1, <2>1, ItemsCut
  <2>. QED
    BY <1>1, <2>2, <2>3
<1>3. RemoveAt(its, i) = s \o t
  BY DEF RemoveAt
<1>. HIDE DEF s, t
<1>4. IsSeq(s \o t) /\ Len(s \o t) = Len(its) - 1
  <2>1. IsSeq(s) /\ IsSeq(t)
    BY <1>2 DEF ItemsFit
  <2>2. IsSeq(s \o t) /\ Len(s \o t) = Len(s) + Len(t)
    BY <2>1, Joined
  <2>. QED
    BY <1>1, <1>2, <2>2
<1>. QED
  BY <1>2, <1>3, <1>4, JoinedIndex DEF ItemsFit

(* What a step at the top level has to show.                               *)
LEMMA TopTyped ==
  ASSUME TypedInv,
         ItemsFit(items'), at' \in 0 .. Len(items'), IsSeq(code'),
         DOMAIN globalNames' = 0 .. NUMBERS_VARIABLE - 1, curGlobal' \in 1 .. NUMBERS_VARIABLE,
         status' \in {"no main", "trailing", "visiting", "calling", "undefined"},
         status' = "trailing" => at' > 0 /\ (at' = 1 => items'[1].type # "ASSIGN"),
         status' = "visiting" => at' > 0,
         UNCHANGED <<curLabel, tables, agenda, passing>>
  PROVE  TypedInv'
BY DEF TypedInv, ItemsFit, Passes, Table

LEMMA TypedItems ==
  ASSUME TypedInv
  PROVE  ItemsFit(items) /\ Len(items) \in Nat /\ DOMAIN items = 1 .. Len(items) /\ at \in 0 .. Len(items)
BY SeqOfItsElements DEF TypedInv, ItemsFit

LEMMA BeginTyped == ASSUME TypedInv, Begin PROVE TypedInv' /\ Before'
<1>1. status = "start" /\ UNCHANGED <<items, globalNames, curGlobal, curLabel, tables, agenda, passing>>
  BY DEF Begin
<1>2. CASE ~ HasMain
  <2>1. status' = "no main" /\ UNCHANGED <<at, functions, code>>
    BY <1>2 DEF Begin
  <2>. QED
    BY <1>1, <2>1, TypedItems, TopTyped DEF TypedInv, ItemsFit, Before
<1>3. CASE HasMain
  <2>1. /\ code' = <<Cmd("CRT"), CmdInt("PUSH", curGlobal), CmdName("POP", "ex")>>
        /\ at' = Len(items) /\ status' \in {"undefined", "trailing"}
    BY <1>3 DEF Begin
  <2>2. PlainSeq(code')
    <3>1. Plain(Cmd("CRT")) /\ Plain(CmdInt("PUSH", curGlobal)) /\ Plain(CmdName("POP", "ex"))
      BY DEF Plain, IsNamedMark, CmdInt, Cmd, CmdName, Line, LoadsDx
    <3>. QED
      BY <2>1, <3>1, PlainTuple
  <2>3. at' > 0 /\ (at' = 1 => items[1].type # "ASSIGN")
    <3>1. PICK i \in DOMAIN items : items[i].type = "DEFINE"
      BY <1>3 DEF HasMain, IsDefine
    <3>. QED
      BY <2>1, <3>1, TypedItems
  <2>4. TypedInv'
    <3>1. ItemsFit(items') /\ at' \in 0 .. Len(items') /\ IsSeq(code')
      BY <1>1, <2>1, <2>2, TypedItems DEF PlainSeq
    <3>2. items'[1].type = items[1].type
      BY <1>1
    <3>. QED
      BY <1>1, <2>1, <2>3, <3>1, <3>2, GlobalsAre, TopTyped
  <2>. QED
    BY <2>2, <2>4 DEF Before, PlainSeq
<1>. QED
  BY <1>2, <1>3

LEMMA TrailingTyped == ASSUME TypedInv, Before, TrailingGlobal PROVE TypedInv' /\ Before'
<1>1. /\ status = "trailing" /\ items[at].type = "ASSIGN"
      /\ UNCHANGED <<functions, curLabel, tables, agenda, passing>>
  BY DEF TrailingGlobal
<1>2. at > 1 /\ at \in Nat /\ PlainSeq(code)
  <2>1. at > 0 /\ at # 1 /\ at \in Nat
    BY <1>1, TypedItems DEF TypedInv
  <2>. QED
    BY <1>1, <2>1 DEF Before
<1>3. CASE curGlobal >= NUMBERS_VARIABLE
  <2>1. status' = "calling" /\ UNCHANGED <<tree, code, globalNames, curGlobal>>
    BY <1>3, TablesAssumption DEF TrailingGlobal, TypedInv
  <2>2. TypedInv'
    BY <1>1, <2>1, TypedItems, TopTyped DEF TypedInv, ItemsFit, tree
  <2>. QED
    BY <1>2, <2>1, <2>2 DEF Before, PlainSeq
<1>4. CASE curGlobal < NUMBERS_VARIABLE
  <2>1. EnterGlobal(items[at])
    BY <1>4 DEF TrailingGlobal
  <2>2. /\ DOMAIN globalNames' = 0 .. NUMBERS_VARIABLE - 1 /\ curGlobal' \in 1 .. NUMBERS_VARIABLE
        /\ PlainSeq(code')
    BY <1>2, <1>4, <2>1, EnterGlobalTyped
  <2>3. /\ ItemsFit(items') /\ at' \in 0 .. Len(items')
        /\ status' \in {"trailing", "visiting", "calling"}
        /\ status' = "trailing" => at' > 1
        /\ status' = "visiting" => at' > 0
    <3>1. CASE items[at].right.type # "CONST"
      BY <1>4, <3>1, TypedItems DEF TrailingGlobal, tree
    <3>2. CASE items[at].right.type = "CONST" /\ at - 1 = 1
      <4>1. items' = <<items[1]>> /\ at' = 1 /\ status' = "visiting"
        BY <1>4, <3>2 DEF TrailingGlobal
      <4>2. ItemsFit(<<items[1]>>) /\ Len(<<items[1]>>) = 1
        <5>1. DOMAIN <<items[1]>> = 1 .. 1 /\ 1 \in DOMAIN items
          BY <1>2, TypedItems
        <5>. QED
          BY <5>1, TypedItems, TupleIsSeq DEF ItemsFit
      <4>. QED
        BY <4>1, <4>2
    <3>3. CASE items[at].right.type = "CONST" /\ at - 1 # 1
      <4>1. at' = at - 1 /\ UNCHANGED <<items, status>>
        BY <1>4, <3>3 DEF TrailingGlobal
      <4>. QED
        BY <1>1, <1>2, <3>3, <4>1, TypedItems
    <3>. QED
      BY <3>1, <3>2, <3>3
  <2>4. status' = "trailing" => at' > 0 /\ at' # 1
    <3>1. at' \in Int
      BY <2>3
    <3>. QED
      BY <2>3, <3>1
  <2>5. TypedInv'
    BY <1>1, <2>2, <2>3, <2>4, TopTyped DEF PlainSeq
  <2>. QED
    BY <2>2, <2>5 DEF Before, PlainSeq
<1>. QED
  BY <1>3, <1>4, GlobalsAre

LEMMA LastFunctionTyped == ASSUME TypedInv, Before, LastFunction PROVE TypedInv' /\ Before'
<1>1. /\ status = "trailing" /\ items' = SubSeq(items, 1, at) /\ status' = "visiting"
      /\ UNCHANGED <<at, names, curLabel, tables, agenda, code, passing>>
  BY DEF LastFunction
<1>2. at > 0 /\ at \in 0 .. Len(items) /\ Len(items) \in Nat /\ PlainSeq(code)
  BY <1>1, TypedItems DEF TypedInv, Before
<1>3. ItemsFit(items') /\ Len(items') = at
  <2>1. ItemsFit(items') /\ Len(items') = at + 1 - 1
    BY <1>1, <1>2, TypedItems, ItemsCut
  <2>. QED
    BY <1>2, <2>1
<1>4. TypedInv'
  BY <1>1, <1>2, <1>3, TopTyped DEF TypedInv, names
<1>. QED
  BY <1>1, <1>2, <1>4 DEF Before, PlainSeq

LEMMA VisitGlobalTyped == ASSUME TypedInv, Before, VisitGlobal PROVE TypedInv' /\ Before'
<1>1. /\ status = "visiting" /\ at > 1 /\ at \in Nat /\ PlainSeq(code) /\ Len(items) \in Nat
      /\ at <= Len(items) /\ UNCHANGED <<functions, curLabel, tables, agenda, passing>>
  BY TypedItems DEF VisitGlobal, Before
<1>2. CASE curGlobal \notin DOMAIN globalNames
  <2>1. status' = "undefined" /\ UNCHANGED <<tree, code, globalNames, curGlobal>>
    BY <1>2 DEF VisitGlobal
  <2>. QED
    BY <1>1, <2>1, TypedItems, TopTyped DEF TypedInv, ItemsFit, tree, Before
<1>3. CASE curGlobal \in DOMAIN globalNames
  <2>1. EnterGlobal(items[at-1])
    BY <1>3 DEF VisitGlobal
  <2>2. /\ DOMAIN globalNames' = 0 .. NUMBERS_VARIABLE - 1 /\ curGlobal' \in 1 .. NUMBERS_VARIABLE
        /\ PlainSeq(code')
    <3>1. curGlobal < NUMBERS_VARIABLE
      BY <1>3, GlobalsAre
    <3>. QED
      BY <1>1, <2>1, <3>1, EnterGlobalTyped
  <2>3. /\ ItemsFit(items') /\ at' \in 0 .. Len(items')
        /\ status' \in {"visiting", "calling"} /\ (status' = "visiting" => at' > 0)
    <3>1. CASE items[at-1].right.type # "CONST"
      BY <1>3, <3>1, TypedItems DEF VisitGlobal, tree
    <3>2. CASE items[at-1].right.type = "CONST"
      <4>1. /\ items' = RemoveAt(items, at - 1) /\ at' = at - 2
            /\ status' = IF at = 2 THEN "calling" ELSE status
        BY <1>3, <3>2 DEF VisitGlobal
      <4>2. at - 1 \in 1 .. Len(items)
        BY <1>1
      <4>3. ItemsFit(items') /\ Len(items') = Len(items) - 1
        BY <4>1, <4>2, TypedItems, ItemRemoved
      <4>. QED
        BY <1>1, <4>1, <4>3
    <3>. QED
      BY <3>1, <3>2
  <2>4. TypedInv'
    BY <1>1, <2>2, <2>3, TopTyped DEF PlainSeq
  <2>. QED
    BY <2>2, <2>4 DEF Before, PlainSeq
<1>. QED
  BY <1>2, <1>3

LEMMA VisitOtherTyped == ASSUME TypedInv, Before, VisitOther PROVE TypedInv' /\ Before'
<1>1. /\ status = "visiting" /\ at > 1 /\ at' = at - 1 /\ PlainSeq(code)
      /\ UNCHANGED <<items, names, curLabel, tables, agenda, code, status, passing>>
  BY DEF VisitOther, Before
<1>2. at' \in 0 .. Len(items') /\ at' > 0 /\ ItemsFit(items')
  BY <1>1, TypedItems
<1>3. TypedInv'
  BY <1>1, <1>2, TopTyped DEF TypedInv, names
<1>. QED
  BY <1>1, <1>3 DEF Before, PlainSeq

LEMMA FirstItemTyped == ASSUME TypedInv, Before, FirstItem PROVE TypedInv' /\ Before'
<1>1. /\ status = "visiting" /\ status' = "calling" /\ PlainSeq(code)
      /\ UNCHANGED <<tree, names, curLabel, tables, agenda, code, passing>>
  BY DEF FirstItem, Before
<1>2. TypedInv'
  BY <1>1, TypedItems, TopTyped DEF TypedInv, names, tree, ItemsFit
<1>. QED
  BY <1>1, <1>2 DEF Before, PlainSeq

LEMMA CallMainTyped == ASSUME TypedInv, Before, CallMain PROVE TypedInv'
<1>1. /\ status = "calling" /\ code' = code \o <<CmdName("CALL", "MAIN"), Cmd("HLT")>>
      /\ tables' = <<(<<>>)>> /\ agenda' = ConvertAll(items) /\ status' = "converting"
      /\ UNCHANGED <<tree, names, curLabel, passing>>
  BY DEF CallMain
<1>2. IsSeq(code')
  BY <1>1, TupleIsSeq, Joined DEF TypedInv
<1>3. IsSeq(tables') /\ Len(tables') = 1 /\ \A i \in DOMAIN tables' : Table(tables'[i])
  <2>1. Table(<<>>)
    BY TupleIsSeq, TablesAssumption DEF Table
  <2>2. DOMAIN <<(<<>>)>> = 1 .. 1
    OBVIOUS
  <2>. QED
    BY <1>1, <2>1, <2>2, TupleIsSeq
<1>4. IsSeq(agenda') /\ Divided(0, 0)'
  <2>. DEFINE T == {Convert(n) : n \in ToSet(items)}
  <2>1. agenda' \in Seq(T)
    <3>1. items \in Seq(ToSet(items))
      BY TypedItems DEF ItemsFit, IsSeq
    <3>. QED
      BY <1>1, <3>1 DEF ConvertAll
  <2>2. \A t \in T : t.do = "convert" /\ t.node \in ToSet(items)
    BY DEF Convert, Task
  <2>. HIDE DEF T
  <2>3. IsSeq(agenda') /\ DOMAIN agenda' = 1 .. Len(agenda') /\ Len(agenda') \in Nat
    BY <2>1, SeqIs
  <2>4. \A i \in 0 + 1 .. Len(agenda') : agenda'[i].do = "convert" /\ agenda'[i].node \in ToSet(items')
    BY <1>1, <2>1, <2>2, <2>3 DEF tree
  <2>. QED
    BY <1>3, <2>3, <2>4 DEF Divided, Outer
<1>. QED
  BY <1>1, <1>2, <1>3, <1>4, TypedItems DEF TypedInv, tree, names, Passes, ItemsFit, Table

(* The end of the conversion.                                              *)
LEMMA EndTyped == ASSUME TypedInv, Abort \/ Close PROVE TypedInv'
<1>1. CASE Abort
  BY <1>1 DEF Abort, TypedInv, tree, names, Passes, Table
<1>2. CASE Close
  BY <1>2 DEF Close, TypedInv, tree, names, Passes, Table
<1>. QED
  BY <1>1, <1>2

LEMMA InitTyped == ASSUME TreesGiven, Init PROVE TypedInv /\ Before
<1>1. ItemsFit(items)
  <2>1. items \in Seq({d \in ToSet(items) : TopLevel(d, Expressions, Statements)})
    BY DEF Init, TreesGiven, Trees
  <2>. QED
    BY <2>1, SeqIs DEF ItemsFit
<1>2. DOMAIN globalNames = 0 .. NUMBERS_VARIABLE - 1 /\ 1 \in 1 .. NUMBERS_VARIABLE
  <2>1. DOMAIN globalNames = 0 .. NUMBERS_VARIABLE - 1
    BY DEF Init, Idle, NoGlobals
  <2>2. 1 \in 1 .. NUMBERS_VARIABLE
    BY TablesAssumption
  <2>. QED
    BY <2>1, <2>2
<1>3. 0 \in 0 .. Len(items)
  BY <1>1, SeqOfItsElements DEF ItemsFit
<1>4. IsSeq(<<>>) /\ DOMAIN <<>> = {}
  BY TupleIsSeq
<1>. QED
  BY <1>1, <1>2, <1>3, <1>4 DEF Init, Idle, TypedInv, ItemsFit, Passes, Before

LEMMA StutterTyped == ASSUME TypedInv, Before, UNCHANGED vars PROVE TypedInv' /\ Before'
<1>1. UNCHANGED <<items, at, globalNames, curGlobal, functions, curLabel, tables, agenda, code,
                  status, passing>>
  BY DEF vars, tree, names
<1>2. (\E n, m : Divided(n, m)) => \E n, m : Divided(n, m)'
  BY <1>1 DEF Divided, Outer, OnlyFunctions
<1>. QED
  BY <1>1, <1>2 DEF TypedInv, Before, Passes, Table, PlainSeq

LEMMA StepTyped == ASSUME TreesGiven, TypedInv, Before, [Next]_vars PROVE TypedInv' /\ Before'
<1>1. CASE ConvertPart
  <2>1. Effect
    BY <1>1, PartEffect
  <2>2. status' = "converting"
    BY <2>1 DEF Effect, Replaced
  <2>. QED
    BY <2>1, <2>2, EffectTyped DEF Before
<1>2. CASE ConvertDefine
  <2>1. status' = "converting"
    BY <1>2, DefineHead DEF ConvertDefine
  <2>. QED
    BY <1>2, <2>1, DefineTyped DEF Before
<1>3. CASE LeaveDefine
  <2>1. status' = "converting"
    BY <1>3 DEF LeaveDefine, Doing
  <2>. QED
    BY <1>3, <2>1, LeaveTyped DEF Before
<1>4. CASE CallMain
  <2>1. status' = "converting"
    BY <1>4 DEF CallMain
  <2>. QED
    BY <1>4, <2>1, CallMainTyped DEF Before
<1>5. CASE Abort \/ Close
  <2>1. status' \in {"abort", "done"}
    BY <1>5 DEF Abort, Close
  <2>. QED
    BY <1>5, <2>1, EndTyped DEF Before
<1>. QED
  BY <1>1, <1>2, <1>3, <1>4, <1>5, BeginTyped, TrailingTyped, LastFunctionTyped, VisitGlobalTyped,
     VisitOtherTyped, FirstItemTyped, StutterTyped DEF Next, ConvertPart

(* The tables, the labels and the agenda are well formed all along.        *)
THEOREM TypedInvariant == ASSUME TreesGiven PROVE Spec => [](TypedInv /\ Before)
<1>1. Init => TypedInv /\ Before
  BY InitTyped
<1>2. TypedInv /\ Before /\ [Next]_vars => (TypedInv /\ Before)'
  BY StepTyped
<1>. QED
  BY <1>1, <1>2, PTL DEF Spec

LEMMA TypedTypes == ASSUME TypedInv PROVE TypeOK
<1>1. \A i \in DOMAIN passing : ToSet(passing[i]) \subseteq {"ax", "bx"}
  <2>1. \A p \in Seq(Registers) : ToSet(p) \subseteq Registers
    BY DEF ToSet
  <2>. QED
    BY <2>1 DEF TypedInv, Passes, Registers
<1>. QED
  BY <1>1 DEF TypedInv, TypeOK, Table

(* Whatever the tables hold, no entry is written beyond their ends, and a  *)
(* part of the agenda that is missing is never looked at.                  *)
THEOREM TypesAreKept == ASSUME TreesGiven PROVE Spec => []TypeOK
<1>1. TypedInv /\ Before => TypeOK
  BY TypedTypes
<1>. QED
  BY <1>1, TypedInvariant, PTL

-----------------------------------------------------------------------------
(***************************************************************************)
(* The frames of the callees.  An address is reckoned by the line that     *)
(* loads dx, from the number two lines before; in every call the number    *)
(* three lines before is where the frame of the callee begins.             *)
(***************************************************************************)
SameIn(s, i, j) == \A k \in i .. j : ~IsNamedMark(s[k])

Low(s, n) ==
  \A i \in DOMAIN s : s[i] = LoadsDx => i > 2 /\ s[i-2].value \in Int /\ s[i-2].value < n

(* The addresses in the function the lines end in.                         *)
BelowIn(s, n) ==
  \A i \in DOMAIN s :
    s[i] = LoadsDx /\ SameIn(s, i, Len(s)) => i > 2 /\ s[i-2].value \in Int /\ s[i-2].value < n

(* The addresses before each call.                                         *)
SettledIn(s) ==
  \A c \in DOMAIN s : s[c].text = "CALL" =>
    \A i \in 1 .. c :
      s[i] = LoadsDx /\ SameIn(s, i, c) =>
        i > 2 /\ s[i-2].value \in Int /\ s[i-2].value < s[c-3].value

Silent(s) == \A i \in DOMAIN s : s[i].text # "CALL"

FramesInv ==
  status \in {"converting", "done"} /\ OnlyFunctions =>
    /\ SettledIn(code)
    /\ status = "converting" /\ Len(tables) = 2 => BelowIn(code, Len(tables[2]))

(* The parts of two sequences joined, and what lies two lines before.      *)
LEMMA JoinedBack ==
  ASSUME NEW s, IsSeq(s), NEW t, IsSeq(t), NEW i \in DOMAIN (s \o t)
  PROVE  /\ Len(s) \in Nat /\ Len(t) \in Nat /\ Len(s \o t) = Len(s) + Len(t) /\ i \in Nat
         /\ i \in 1 .. Len(s) + Len(t) /\ DOMAIN s = 1 .. Len(s) /\ DOMAIN t = 1 .. Len(t)
         /\ i <= Len(s) => (s \o t)[i] = s[i] /\ (i > 2 => (s \o t)[i - 2] = s[i - 2])
         /\ i > Len(s) => i - Len(s) \in DOMAIN t /\ (s \o t)[i] = t[i - Len(s)]
         /\ i > Len(s) /\ i - Len(s) > 2 => i > 2 /\ (s \o t)[i - 2] = t[i - Len(s) - 2]
<1>1. /\ Len(s) \in Nat /\ Len(t) \in Nat /\ Len(s \o t) = Len(s) + Len(t)
      /\ DOMAIN s = 1 .. Len(s) /\ DOMAIN t = 1 .. Len(t) /\ DOMAIN (s \o t) = 1 .. Len(s \o t)
  BY Joined, SeqOfItsElements
<1>2. i \in Nat /\ i \in 1 .. Len(s) + Len(t)
  BY <1>1
<1>3. CASE i <= Len(s)
  <2>1. i \in 1 .. Len(s) /\ (i > 2 => i - 2 \in 1 .. Len(s)) /\ ~ (i > Len(s))
    BY <1>1, <1>2, <1>3
  <2>. QED
    BY <1>1, <1>2, <2>1, Joined
<1>4. CASE i > Len(s)
  <2>1. /\ i - Len(s) \in 1 .. Len(t) /\ i = Len(s) + (i - Len(s)) /\ ~ (i <= Len(s))
        /\ i - Len(s) > 2 => /\ i > 2 /\ i - Len(s) - 2 \in 1 .. Len(t)
                             /\ i - 2 = Len(s) + (i - Len(s) - 2)
    BY <1>1, <1>2, <1>4
  <2>. QED
    BY <1>1, <1>2, <2>1, Joined
<1>. QED
  BY <1>1, <1>2, <1>3, <1>4

LEMMA SameJoined ==
  ASSUME NEW s, IsSeq(s), NEW t, IsSeq(t), NEW i \in Nat, i > 0, NEW j \in Nat, j <= Len(s)
  PROVE  SameIn(s \o t, i, j) <=> SameIn(s, i, j)
<1>1. \A k \in i .. j : k \in 1 .. Len(s)
  BY SeqOfItsElements
<1>2. \A k \in i .. j : (s \o t)[k] = s[k]
  BY <1>1, Joined
<1>. QED
  BY <1>2 DEF SameIn

LEMMA SameShorter ==
  ASSUME NEW s, NEW i \in Nat, NEW j \in Nat, NEW k \in Nat, j <= k, SameIn(s, i, k)
  PROVE  SameIn(s, i, j)
BY DEF SameIn

LEMMA BelowJoined ==
  ASSUME NEW n \in Nat, NEW m \in Nat, n <= m, NEW s, IsSeq(s), BelowIn(s, n),
         NEW t, IsSeq(t), Low(t, m)
  PROVE  BelowIn(s \o t, m)
<1>. DEFINE u == s \o t
<1>. SUFFICES ASSUME NEW i \in DOMAIN u, u[i] = LoadsDx, SameIn(u, i, Len(u))
              PROVE  i > 2 /\ u[i-2].value \in Int /\ u[i-2].value < m
  BY DEF BelowIn
<1>1. /\ Len(s) \in Nat /\ Len(t) \in Nat /\ Len(u) = Len(s) + Len(t) /\ i \in Nat
      /\ i \in 1 .. Len(s) + Len(t) /\ DOMAIN s = 1 .. Len(s) /\ DOMAIN t = 1 .. Len(t)
      /\ i <= Len(s) => u[i] = s[i] /\ (i > 2 => u[i - 2] = s[i - 2])
      /\ i > Len(s) => i - Len(s) \in DOMAIN t /\ u[i] = t[i - Len(s)]
      /\ i > Len(s) /\ i - Len(s) > 2 => i > 2 /\ u[i - 2] = t[i - Len(s) - 2]
  BY JoinedBack
<1>2. CASE i <= Len(s)
  <2>1. SameIn(u, i, Len(s))
    <3>1. Len(s) <= Len(u) /\ Len(u) \in Nat
      BY <1>1
    <3>. HIDE DEF u
    <3>. QED
      BY <1>1, <3>1, SameShorter
  <2>2. SameIn(s, i, Len(s))
    <3>1. i > 0 /\ Len(s) <= Len(s)
      BY <1>1
    <3>. QED
      BY <1>1, <2>1, <3>1, SameJoined
  <2>3. i \in DOMAIN s /\ s[i] = LoadsDx
    BY <1>1, <1>2
  <2>4. i > 2 /\ s[i-2].value \in Int /\ s[i-2].value < n
    BY <2>2, <2>3 DEF BelowIn
  <2>. HIDE DEF u
  <2>5. u[i-2] = s[i-2]
    BY <1>1, <1>2, <2>4
  <2>. QED
    BY <2>4, <2>5
<1>3. CASE i > Len(s)
  <2>. HIDE DEF u
  <2>0. /\ i - Len(s) \in DOMAIN t /\ u[i] = t[i - Len(s)]
        /\ i - Len(s) > 2 => i > 2 /\ u[i - 2] = t[i - Len(s) - 2]
    BY <1>1, <1>3
  <2>1. PICK k : k = i - Len(s)
    OBVIOUS
  <2>2. k \in DOMAIN t /\ u[i] = t[k] /\ (k > 2 => i > 2 /\ u[i - 2] = t[k - 2])
    BY <2>0, <2>1
  <2>3. k > 2 /\ t[k - 2].value \in Int /\ t[k - 2].value < m
    BY <2>2 DEF Low
  <2>. QED
    BY <2>2, <2>3
<1>. QED
  BY <1>1, <1>2, <1>3

(* A name between functions is the beginning of the next.                  *)
LEMMA BelowMark ==
  ASSUME NEW s, IsSeq(s), NEW l, IsNamedMark(l)
  PROVE  BelowIn(s \o <<l>>, 0) /\ IsSeq(s \o <<l>>)
<1>. DEFINE u == s \o <<l>>
<1>1. Len(s) \in Nat /\ IsSeq(u) /\ Len(u) = Len(s) + 1 /\ u[Len(u)] = l /\ DOMAIN u = 1 .. Len(u)
  <2>1. IsSeq(<<l>>) /\ Len(<<l>>) = 1 /\ 1 \in 1 .. 1 /\ <<l>>[1] = l
    BY TupleIsSeq
  <2>2. IsSeq(u) /\ Len(u) = Len(s) + Len(<<l>>)
        /\ \A i \in 1 .. Len(<<l>>) : u[Len(s) + i] = <<l>>[i]
    BY <2>1, Joined
  <2>. QED
    BY <2>1, <2>2, SeqOfItsElements
<1>. HIDE DEF u
<1>2. \A i \in DOMAIN u : ~ SameIn(u, i, Len(u))
  BY <1>1 DEF SameIn
<1>3. BelowIn(u, 0)
  BY <1>2 DEF BelowIn
<1>. QED
  BY <1>1, <1>3 DEF u

LEMMA SettledOld ==
  ASSUME NEW s, IsSeq(s), SettledIn(s), NEW t, IsSeq(t), NEW c \in DOMAIN s,
         s[c].text = "CALL", NEW i \in 1 .. c, (s \o t)[i] = LoadsDx, SameIn(s \o t, i, c)
  PROVE  i > 2 /\ (s \o t)[i-2].value \in Int /\ (s \o t)[i-2].value < (s \o t)[c-3].value
<1>. DEFINE u == s \o t
<1>1. Len(s) \in Nat /\ c \in 1 .. Len(s) /\ \A k \in 1 .. Len(s) : u[k] = s[k]
  BY SeqOfItsElements, Joined
<1>2. i \in 1 .. Len(s) /\ i \in Nat /\ i > 0 /\ c \in Nat /\ c <= Len(s)
  BY <1>1
<1>3. SameIn(s, i, c)
  BY <1>2, SameJoined
<1>. HIDE DEF u
<1>4. s[i] = LoadsDx
  BY <1>1, <1>2 DEF u
<1>5. i > 2 /\ s[i-2].value \in Int /\ s[i-2].value < s[c-3].value
  BY <1>3, <1>4 DEF SettledIn
<1>6. i # c
  BY <1>4 DEF LoadsDx, CmdName, Line
<1>7. i - 2 \in 1 .. Len(s) /\ c - 3 \in 1 .. Len(s)
  BY <1>1, <1>2, <1>5, <1>6
<1>. QED
  BY <1>1, <1>5, <1>7 DEF u

LEMMA SettledJoined ==
  ASSUME NEW s, IsSeq(s), SettledIn(s), NEW t, IsSeq(t), Silent(t)
  PROVE  SettledIn(s \o t)
<1>. SUFFICES ASSUME NEW c \in DOMAIN (s \o t), (s \o t)[c].text = "CALL",
                     NEW i \in 1 .. c, (s \o t)[i] = LoadsDx, SameIn(s \o t, i, c)
              PROVE  /\ i > 2 /\ (s \o t)[i-2].value \in Int
                     /\ (s \o t)[i-2].value < (s \o t)[c-3].value
  BY DEF SettledIn
<1>1. c \in DOMAIN s /\ (s \o t)[c] = s[c]
  BY JoinedIndex DEF Silent
<1>. QED
  BY <1>1, SettledOld

LEMMA SettledCall ==
  ASSUME NEW s, IsSeq(s), SettledIn(s), NEW n \in Nat, BelowIn(s, n), NEW f
  PROVE  SettledIn(s \o CallLines(f, n)) /\ BelowIn(s \o CallLines(f, n), n)
<1>. DEFINE t == CallLines(f, n)
<1>1. /\ IsSeq(t) /\ Len(t) = 8 /\ DOMAIN t = 1 .. 8 /\ t[3].value = n
      /\ \A i \in DOMAIN t : t[i] # LoadsDx /\ (t[i].text = "CALL" => i = 6)
  <2>1. /\ IsSeq(t) /\ Len(t) = 8 /\ DOMAIN t = 1 .. 8
        /\ t[3] = CmdInt("PUSH", n) /\ t[6] = CmdName("CALL", f)
        /\ \A i \in {1, 2, 3, 4, 5, 7, 8} : Plain(t[i])
    BY CallLinesAre, SeqOfItsElements
  <2>2. CmdInt("PUSH", n).value = n /\ CmdName("CALL", f) # LoadsDx
    BY DEF CmdInt, CmdName, LoadsDx, Line
  <2>. HIDE DEF t
  <2>3. \A i \in 1 .. 8 : i = 6 \/ i \in {1, 2, 3, 4, 5, 7, 8}
    OBVIOUS
  <2>. QED
    BY <2>1, <2>2, <2>3 DEF Plain
<1>. HIDE DEF t
<1>2. BelowIn(s \o t, n)
  <2>1. Low(t, n)
    BY <1>1 DEF Low
  <2>2. n <= n
    OBVIOUS
  <2>. QED
    BY <1>1, <2>1, <2>2, BelowJoined
<1>3. SettledIn(s \o t)
  <2>. DEFINE u == s \o t
  <2>. SUFFICES ASSUME NEW c \in DOMAIN u, u[c].text = "CALL",
                       NEW i \in 1 .. c, u[i] = LoadsDx, SameIn(u, i, c)
                PROVE  i > 2 /\ u[i-2].value \in Int /\ u[i-2].value < u[c-3].value
    BY DEF SettledIn
  <2>1. CASE c \in DOMAIN s /\ u[c] = s[c]
    BY <1>1, <2>1, SettledOld
  <2>2. CASE c > Len(s) /\ c - Len(s) \in DOMAIN t /\ u[c] = t[c - Len(s)]
    <3>1. c - Len(s) = 6 /\ Len(s) \in Nat /\ c = Len(s) + 6 /\ DOMAIN u = 1 .. Len(s) + 8
      <4>0. IsSeq(u) /\ Len(u) = Len(s) + Len(t)
        BY <1>1, Joined
      <4>1. c - Len(s) = 6 /\ Len(s) \in Nat /\ DOMAIN u = 1 .. Len(s) + 8
        <5>1. c - Len(s) = 6
          BY <1>1, <2>2
        <5>2. Len(s) \in Nat
          BY SeqOfItsElements
        <5>. HIDE DEF u
        <5>3. DOMAIN u = 1 .. Len(s) + 8
          BY <1>1, <4>0, SeqOfItsElements
        <5>. QED
          BY <5>1, <5>2, <5>3
      <4>2. c \in Nat
        BY <4>1
      <4>. QED
        BY <4>1, <4>2
    <3>2. c - 3 = Len(s) + 3 /\ u[c - 3] = t[3]
      BY <1>1, <3>1, Joined
    <3>3. i \in DOMAIN u /\ i \in Nat /\ i > 0
      BY <3>1
    <3>4. i \in DOMAIN s /\ u[i] = s[i]
      <4>1. \/ i \in DOMAIN s /\ u[i] = s[i]
            \/ i > Len(s) /\ i - Len(s) \in DOMAIN t /\ u[i] = t[i - Len(s)]
        BY <1>1, <3>3, JoinedIndex
      <4>. HIDE DEF u
      <4>. QED
        BY <1>1, <4>1
    <3>5. SameIn(s, i, Len(s))
      <4>1. Len(s) <= c /\ c \in Nat /\ Len(s) <= Len(s)
        BY <3>1
      <4>2. SameIn(u, i, Len(s))
        <5>. HIDE DEF u
        <5>. QED
          BY <3>1, <3>3, <4>1, SameShorter
      <4>. QED
        BY <1>1, <3>1, <3>3, <4>1, <4>2, SameJoined
    <3>6. i > 2 /\ s[i-2].value \in Int /\ s[i-2].value < n
      BY <3>4, <3>5 DEF BelowIn
    <3>7. u[i-2] = s[i-2]
      <4>1. i - 2 \in 1 .. Len(s)
        BY <3>1, <3>3, <3>4, <3>6, SeqOfItsElements
      <4>. QED
        BY <1>1, <4>1, Joined
    <3>. QED
      BY <1>1, <3>2, <3>6, <3>7
  <2>. QED
    BY <1>1, <2>1, <2>2, JoinedIndex
<1>. QED
  BY <1>2, <1>3 DEF t

(* Where only functions are left, a part of one is converted within it.    *)
LEMMA EffectInside ==
  ASSUME TypedInv, Effect, OnlyFunctions
  PROVE  /\ status = "converting" /\ status' = "converting" /\ Len(tables) = 2 /\ Len(tables') = 2
         /\ LocalNames = tables[2] /\ Len(tables[2]) \in Nat /\ IsSeq(code)
         /\ tables \in Seq(ToSet(tables))
<1>1. PICK tasks : Replaced(tasks)
  BY DEF Effect
<1>2. status = "converting" /\ status' = "converting" /\ agenda # <<>>
  BY <1>1 DEF Replaced
<1>3. PICK n, m : Divided(n, m)
  BY <1>2 DEF TypedInv
<1>4. /\ n \in Nat /\ m \in {n, n + 1} /\ (m = n + 1 => agenda[m].do = "leave")
      /\ \A i \in m + 1 .. Len(agenda) : Outer(agenda[i])
      /\ Len(tables) = 1 + m - n /\ (n > 0 => m = n + 1)
  BY <1>3 DEF Divided
<1>5. Task1 = agenda[1] /\ Len(agenda) \in Nat /\ Len(agenda) > 0
  BY <1>2, HeadTask
<1>6. n > 0
  <2>. SUFFICES ASSUME n = 0 PROVE FALSE
    BY <1>4
  <2>1. m = 0
    BY <1>1, <1>4, <1>5 DEF Replaced
  <2>2. Outer(Task1)
    BY <1>4, <1>5, <2>1
  <2>. QED
    BY <1>1, <2>2 DEF Outer, Replaced, OnlyFunctions, IsDefine, Node, ToSet
<1>7. Len(tables) = 2
  BY <1>4, <1>6
<1>8. Len(tables[2]) \in Nat /\ LocalNames = tables[2] /\ tables \in Seq(ToSet(tables))
  BY <1>2, <1>7, LocalNamesFit, SeqOfItsElements DEF Table, TypedInv
<1>. QED
  BY <1>2, <1>7, <1>8, EffectFits DEF TypedInv

LEMMA EffectFrames == ASSUME TypedInv, FramesInv, Effect PROVE FramesInv'
<1>. SUFFICES ASSUME OnlyFunctions
              PROVE  SettledIn(code') /\ BelowIn(code', Len(tables'[2]))
  <2>1. UNCHANGED <<tree, status>> /\ status = "converting"
    BY DEF Effect, Replaced
  <2>. QED
    BY <2>1 DEF FramesInv, OnlyFunctions, tree
<1>1. /\ status = "converting" /\ status' = "converting" /\ Len(tables) = 2 /\ Len(tables') = 2
      /\ LocalNames = tables[2] /\ Len(tables[2]) \in Nat /\ IsSeq(code)
      /\ tables \in Seq(ToSet(tables))
  BY EffectInside
<1>2. SettledIn(code) /\ BelowIn(code, Len(tables[2]))
  BY <1>1 DEF FramesInv
<1>3. CASE Wrote
  <2>1. PICK lines : PlainSeq(lines) /\ code' = code \o lines /\ UNCHANGED tables
    BY <1>3 DEF Wrote
  <2>2. IsSeq(lines) /\ Silent(lines) /\ Low(lines, Len(tables[2]))
    BY <2>1 DEF PlainSeq, Plain, Silent, Low
  <2>3. Len(tables[2]) <= Len(tables[2])
    BY <1>1
  <2>. QED
    BY <1>1, <1>2, <2>1, <2>2, <2>3, SettledJoined, BelowJoined
<1>4. CASE Accessed
  <2>1. PICK v, l, t :
          /\ v \in Int /\ Plain(l) /\ l.kind # "next" /\ Table(t) /\ v < Len(t) /\ Len(LocalNames) <= Len(t)
          /\ code' = code \o (LocalAddress(v) \o <<l>>)
          /\ tables' = [tables EXCEPT ![Len(tables)] = t]
    BY <1>4 DEF Accessed
  <2>. DEFINE lines == LocalAddress(v) \o <<l>>
  <2>2. tables'[2] = t /\ Len(t) \in Nat
    BY <1>1, <2>1, SeqOfItsElements DEF Table
  <2>3. Addressed(lines, Len(t))
    BY <2>1, <2>2, AccessAddressed
  <2>4. code' = code \o lines
    BY <2>1
  <2>. HIDE DEF lines
  <2>5. IsSeq(lines) /\ Silent(lines) /\ Low(lines, Len(t))
    BY <2>3 DEF Addressed, Silent, Low
  <2>6. SettledIn(code')
    BY <1>1, <1>2, <2>4, <2>5, SettledJoined
  <2>7. BelowIn(code', Len(t))
    BY <1>1, <1>2, <2>1, <2>2, <2>4, <2>5, BelowJoined
  <2>. QED
    BY <2>2, <2>6, <2>7
<1>5. CASE Called
  <2>1. PICK f : code' = code \o CallLines(f, FrameSize) /\ UNCHANGED tables
    BY <1>5 DEF Called
  <2>2. FrameSize = Len(tables[2])
    BY <1>1 DEF FrameSize
  <2>. QED
    BY <1>1, <1>2, <2>1, <2>2, SettledCall
<1>. QED
  BY <1>3, <1>4, <1>5 DEF Effect

LEMMA DefineFrames == ASSUME TreesGiven, TypedInv, FramesInv, ConvertDefine PROVE FramesInv'
<1>. DEFINE table == ParameterTable(Node.params)
<1>1. Converting({"DEFINE"}) /\ UNCHANGED <<tree, names, curLabel, status, passing>>
  BY DEF ConvertDefine
<1>2. /\ Divided(0, 0) /\ TopLevel(Node, Expressions, Statements) /\ Node.type = "DEFINE"
      /\ status = "converting" /\ agenda # <<>> /\ IsSeq(agenda)
  BY <1>1, DefineHead
<1>3. IsSeq(tables) /\ IsSeq(code) /\ Len(tables) = 1
  BY <1>2 DEF TypedInv, Divided
<1>4. IsSeq(Node.params) /\ Table(table)
  BY <1>2, ParametersFit DEF TopLevel, IsSeq
<1>. HIDE DEF table
<1>. SUFFICES ASSUME OnlyFunctions
              PROVE  SettledIn(code') /\ (Len(tables') = 2 => BelowIn(code', Len(tables'[2])))
  BY <1>1, <1>2 DEF FramesInv, OnlyFunctions, tree
<1>5. SettledIn(code)
  BY <1>2 DEF FramesInv
<1>6. ASSUME NEW name, name # "CALL", NEW lines, NEW t, Table(t), Addressed(lines, Len(t)),
             code' = code \o (<<Mark(name)>> \o lines), tables' = Append(tables, t)
      PROVE  SettledIn(code') /\ BelowIn(code', Len(tables'[2]))
  <2>1. IsNamedMark(Mark(name)) /\ Mark(name).text # "CALL"
    BY <1>6 DEF IsNamedMark, Mark, Line
  <2>. DEFINE first == code \o <<Mark(name)>>
  <2>2. IsSeq(<<Mark(name)>>) /\ Silent(<<Mark(name)>>)
    <3>1. DOMAIN <<Mark(name)>> = 1 .. 1
      OBVIOUS
    <3>. QED
      BY <2>1, <3>1, TupleIsSeq DEF Silent
  <2>3. SettledIn(first) /\ BelowIn(first, 0) /\ IsSeq(first)
    BY <1>3, <1>5, <2>1, <2>2, SettledJoined, BelowMark
  <2>4. IsSeq(lines) /\ Silent(lines) /\ Low(lines, Len(t))
    BY <1>6 DEF Addressed, Silent, Low
  <2>5. code' = first \o lines
    <3>. DEFINE S == ToSet(code) \cup {Mark(name)} \cup ToSet(lines)
    <3>1. code \in Seq(S) /\ <<Mark(name)>> \in Seq(S) /\ lines \in Seq(S)
      <4>1. code \in Seq(ToSet(code)) /\ lines \in Seq(ToSet(lines)) /\ <<Mark(name)>> \in Seq({Mark(name)})
        BY <1>3, <2>4 DEF IsSeq
      <4>2. ToSet(code) \subseteq S /\ ToSet(lines) \subseteq S /\ {Mark(name)} \subseteq S
        OBVIOUS
      <4>. HIDE DEF S
      <4>. QED
        BY <4>1, <4>2, SeqMonotonic
    <3>. HIDE DEF S
    <3>. QED
      BY <1>6, <3>1, ConcatAssociative
  <2>6. Len(t) \in Nat /\ 0 <= Len(t) /\ tables'[2] = t
    <3>1. Append(tables, t)[2] = t
      BY <1>3, TableAdded
    <3>2. Len(t) \in Nat
      BY <1>6, SeqOfItsElements DEF Table
    <3>. QED
      BY <1>6, <3>1, <3>2
  <2>. HIDE DEF first
  <2>. QED
    BY <2>3, <2>4, <2>5, <2>6, SettledJoined, BelowJoined
<1>7. CASE /\ Write(<<Mark("MAIN"), CmdName("PUSH", "ex"), CmdInt("PUSH", 1),
                       Cmd("ADD"), CmdName("POP", "ex")>>)
           /\ tables' = Append(tables, <<>>)
  <2>. DEFINE lines == <<CmdName("PUSH", "ex"), CmdInt("PUSH", 1), Cmd("ADD"), CmdName("POP", "ex")>>
  <2>1. /\ Plain(CmdName("PUSH", "ex")) /\ Plain(CmdInt("PUSH", 1)) /\ Plain(Cmd("ADD"))
        /\ Plain(CmdName("POP", "ex"))
    BY DEF Plain, IsNamedMark, CmdInt, Cmd, CmdName, Line, LoadsDx
  <2>2. PlainSeq(lines) /\ Quiet(lines)
    <3>1. /\ PlainSeq(<<CmdName("PUSH", "ex"), CmdInt("PUSH", 1)>>)
          /\ PlainSeq(<<Cmd("ADD"), CmdName("POP", "ex")>>)
          /\ Quiet(<<CmdName("PUSH", "ex"), CmdInt("PUSH", 1)>>)
          /\ Quiet(<<Cmd("ADD"), CmdName("POP", "ex")>>)
      BY <2>1, PlainTuple, QuietTuple, KindsOf
    <3>2. lines = <<CmdName("PUSH", "ex"), CmdInt("PUSH", 1)>> \o <<Cmd("ADD"), CmdName("POP", "ex")>>
      OBVIOUS
    <3>. QED
      BY <3>1, <3>2, PlainJoined, QuietJoined
  <2>3. code' = code \o (<<Mark("MAIN")>> \o lines)
    BY <1>7 DEF Write
  <2>. HIDE DEF lines
  <2>4. Table(<<>>) /\ Addressed(lines, Len(<<>>))
    BY <2>2, TupleIsSeq, PlainAddressed, TablesAssumption DEF Table
  <2>. QED
    BY <1>6, <1>7, <2>3, <2>4
<1>8. CASE /\ Write(<<Mark(Node.func)>> \o Prologue(Node.params, table))
           /\ tables' = Append(tables, table)
  <2>1. Addressed(Prologue(Node.params, table), Len(table)) /\ Node.func # "CALL"
    BY <1>2, <1>4, PrologueAddressed DEF TopLevel
  <2>. QED
    BY <1>4, <1>6, <1>8, <2>1 DEF Write
<1>9. CASE UNCHANGED <<code, tables>>
  BY <1>3, <1>5, <1>9
<1>. QED
  BY <1>7, <1>8, <1>9 DEF ConvertDefine, table

LEMMA LeaveFrames == ASSUME TypedInv, FramesInv, LeaveDefine PROVE FramesInv'
<1>1. Doing("leave") /\ UNCHANGED <<tree, code, status>> /\ status = "converting"
  BY DEF LeaveDefine, Doing
<1>2. TypedInv' /\ Divided(0, 1) /\ Len(tables) = 2
  BY <1>1, LeaveTyped, LeaveHead
<1>3. Len(tables') # 2
  <2>1. tables = <<tables[1], tables[2]>>
    BY <1>1, LeaveHead
  <2>2. Front(tables) = <<tables[1]>> /\ Front(<<tables[1]>>) = <<>>
    BY <2>1, FrontOfTuple
  <2>3. tables' = <<tables[1]>> \/ tables' = Append(<<>>, LocalNames)
    BY <2>2 DEF LeaveDefine
  <2>4. \A t : Len(<<t>>) # 2 /\ Len(Append(<<>>, t)) # 2
    OBVIOUS
  <2>. QED
    BY <2>3, <2>4
<1>. QED
  BY <1>1, <1>3 DEF FramesInv, OnlyFunctions, tree

LEMMA CallMainFrames == ASSUME TypedInv, Before, CallMain PROVE FramesInv'
<1>1. /\ code' = code \o <<CmdName("CALL", "MAIN"), Cmd("HLT")>> /\ PlainSeq(code)
      /\ tables' = <<(<<>>)>>
  BY DEF CallMain, Before
<1>2. \A i \in DOMAIN code' : code'[i] # LoadsDx
  <2>1. CmdName("CALL", "MAIN") # LoadsDx /\ Cmd("HLT") # LoadsDx
    BY DEF CmdName, Cmd, Line, LoadsDx
  <2>. DEFINE t == <<CmdName("CALL", "MAIN"), Cmd("HLT")>>
  <2>2. IsSeq(t) /\ \A i \in DOMAIN t : t[i] # LoadsDx
    <3>1. DOMAIN t = 1 .. 2
      OBVIOUS
    <3>. QED
      BY <2>1, <3>1, TupleIsSeq
  <2>3. code' = code \o t
    BY <1>1
  <2>. HIDE DEF t
  <2>. QED
    BY <1>1, <2>2, <2>3, JoinedIndex DEF PlainSeq, Plain
<1>3. IsSeq(code') /\ DOMAIN code' = 1 .. Len(code')
  BY <1>1, TupleIsSeq, Joined, SeqOfItsElements DEF PlainSeq
<1>4. SettledIn(code') /\ BelowIn(code', Len(tables'[2]))
  <2>1. \A c \in DOMAIN code' : \A i \in 1 .. c : i \in DOMAIN code'
    BY <1>3
  <2>. QED
    BY <1>2, <2>1 DEF SettledIn, BelowIn
<1>. QED
  BY <1>4 DEF FramesInv

LEMMA StepFrames ==
  ASSUME TreesGiven, TypedInv, Before, FramesInv, [Next]_vars
  PROVE  FramesInv'
<1>1. CASE ConvertPart
  BY <1>1, PartEffect, EffectFrames
<1>2. CASE Abort \/ Close \/ UNCHANGED vars
  BY <1>2 DEF Abort, Close, vars, tree, FramesInv, OnlyFunctions
<1>3. CASE \/ Begin \/ TrailingGlobal \/ LastFunction \/ VisitGlobal \/ VisitOther \/ FirstItem
  <2>1. status' \notin {"converting", "done"}
    BY <1>3 DEF Begin, TrailingGlobal, LastFunction, VisitGlobal, VisitOther, FirstItem
  <2>. QED
    BY <2>1 DEF FramesInv
<1>. QED
  BY <1>1, <1>2, <1>3, DefineFrames, LeaveFrames, CallMainFrames DEF Next, ConvertPart

(* Every address reckoned before a call, in the same function, is below    *)
(* the frame of the callee.                                                *)
THEOREM FramesInvariant == ASSUME TreesGiven PROVE Spec => [](TypedInv /\ Before /\ FramesInv)
<1>1. Init => TypedInv /\ Before /\ FramesInv
  <2>1. Init => FramesInv
    BY DEF Init, Idle, FramesInv
  <2>. QED
    BY <2>1, InitTyped
<1>2. TypedInv /\ Before /\ FramesInv /\ [Next]_vars => (TypedInv /\ Before /\ FramesInv)'
  BY StepTyped, StepFrames
<1>. QED
  BY <1>1, <1>2, PTL DEF Spec

LEMMA FramesAreFree == ASSUME TypedInv, FramesInv PROVE CalleeFrameIsFree
<1>. SUFFICES ASSUME status = "done", OnlyFunctions, NEW c \in DOMAIN code, code[c].text = "CALL",
                     NEW i \in 1 .. c - 1, AddressesLocal(i), SameFunction(i, c)
              PROVE  code[i+1].value < code[c-3].value
  BY DEF CalleeFrameIsFree
<1>1. SettledIn(code) /\ IsSeq(code) /\ Len(code) \in Nat /\ DOMAIN code = 1 .. Len(code)
      /\ code \in Seq(ToSet(code))
  BY SeqOfItsElements DEF FramesInv, TypedInv
<1>2. c \in Nat /\ i \in Nat /\ i > 0 /\ i < c /\ c <= Len(code) /\ i + 3 <= Len(code)
  BY <1>1 DEF AddressesLocal
<1>3. code[i+3] = LoadsDx /\ code[i+2] = Cmd("ADD") /\ code[i+1].text # "CALL"
  <2>. DEFINE s == SubSeq(code, i, i + 3)
              v == code[i+1].value
  <2>1. s[1] = code[i] /\ s[2] = code[i+1] /\ s[3] = code[i+2] /\ s[4] = code[i+3]
    BY <1>1, <1>2
  <2>2. s = LocalAddress(v)
    BY DEF AddressesLocal
  <2>3. s[2] = CmdInt("PUSH", v) /\ s[3] = Cmd("ADD") /\ s[4] = LoadsDx
    BY <2>2, LocalAddressIs
  <2>4. CmdInt("PUSH", v).text # "CALL"
    BY DEF CmdInt, Line
  <2>. HIDE DEF s, v
  <2>. QED
    BY <2>1, <2>3, <2>4
<1>4. i + 3 \in 1 .. c
  <2>1. Cmd("ADD").text # "CALL" /\ LoadsDx.text # "CALL"
    BY DEF Cmd, CmdName, Line, LoadsDx
  <2>2. c # i + 1 /\ c # i + 2
    BY <1>3, <2>1
  <2>. QED
    BY <1>2, <2>2
<1>5. SameIn(code, i + 3, c)
  BY <1>2 DEF SameFunction, SameIn
<1>6. code[i+3-2].value < code[c-3].value
  BY <1>1, <1>3, <1>4, <1>5 DEF SettledIn
<1>7. i + 3 - 2 = i + 1
  BY <1>2
<1>. QED
  BY <1>6, <1>7

(* A callee's frame begins after every local variable its caller has used  *)
(* in the text before the call, however deep the expression the call is in *)
(* and in whatever order the names were met.                               *)
THEOREM CalleesHaveFreeFrames == ASSUME TreesGiven PROVE Spec => []CalleeFrameIsFree
<1>1. TypedInv /\ Before /\ FramesInv => CalleeFrameIsFree
  BY FramesAreFree
<1>. QED
  BY <1>1, FramesInvariant, PTL

-----------------------------------------------------------------------------
(***************************************************************************)
(* The labels.  A text and the tasks left give a label when a line of the  *)
(* text, or a line that is still to be printed, is that label.             *)
(***************************************************************************)
Puts(s, n)  == \E k \in DOMAIN s : s[k] = MarkNext(n)
Once(s)     == \A k, l \in DOMAIN s : \A n : s[k] = MarkNext(n) /\ s[l] = MarkNext(n) => k = l
DueIn(t, n) == t.do = "print" /\ Puts(t.lines, n)
Due(todo, n) == \E i \in DOMAIN todo : DueIn(todo[i], n)

Given(text, todo, n) == Puts(text, n) \/ Due(todo, n)

GivenOnce(text, todo) ==
  /\ Once(text)
  /\ \A i \in DOMAIN todo : todo[i].do = "print" => Once(todo[i].lines)
  /\ \A n : ~ (Puts(text, n) /\ Due(todo, n))
  /\ \A i, j \in DOMAIN todo : \A n : DueIn(todo[i], n) /\ DueIn(todo[j], n) => i = j

JumpsLand(s, N) == \A i \in DOMAIN s : ~s[i].colon /\ s[i].kind = "next" => s[i].value \in 0 .. N - 1

AllLand(text, todo, N) ==
  /\ JumpsLand(text, N)
  /\ \A i \in DOMAIN todo : todo[i].do = "print" => JumpsLand(todo[i].lines, N)

(* Tasks that have nothing to do with labels.                              *)
QuietTasks(todo) == IsSeq(todo) /\ \A i \in DOMAIN todo : todo[i].do = "print" => Quiet(todo[i].lines)

LEMMA MarkNextIs ==
  /\ \A n : MarkNext(n).kind = "next" /\ MarkNext(n).colon
  /\ \A n, m : MarkNext(n) = MarkNext(m) => n = m
  /\ \A op, n, m : JumpNext(op, n) # MarkNext(m)
  /\ \A op, n : JumpNext(op, n).value = n
BY DEF MarkNext, JumpNext, Line

LEMMA QuietGives ==
  ASSUME NEW s, Quiet(s)
  PROVE  Once(s) /\ (\A n : ~ Puts(s, n)) /\ \A N : JumpsLand(s, N)
BY MarkNextIs DEF Quiet, Once, Puts, JumpsLand

LEMMA QuietTasksGive ==
  ASSUME NEW text, Quiet(text), NEW todo, QuietTasks(todo)
  PROVE  /\ GivenOnce(text, todo) /\ (\A n : ~ Given(text, todo, n))
         /\ \A N : AllLand(text, todo, N)
<1>1. \A i \in DOMAIN todo : todo[i].do = "print" =>
        /\ Once(todo[i].lines) /\ (\A n : ~ Puts(todo[i].lines, n))
        /\ \A N : JumpsLand(todo[i].lines, N)
  BY QuietGives DEF QuietTasks
<1>2. Once(text) /\ (\A n : ~ Puts(text, n)) /\ \A N : JumpsLand(text, N)
  BY QuietGives
<1>. QED
  BY <1>1, <1>2 DEF GivenOnce, Given, AllLand, Due, DueIn

(* Where the elements of two sequences joined come from, and go to.        *)
LEMMA JoinedBoth ==
  ASSUME NEW s, IsSeq(s), NEW t, IsSeq(t)
  PROVE  /\ \A i \in DOMAIN s : i \in DOMAIN (s \o t) /\ (s \o t)[i] = s[i]
         /\ \A i \in DOMAIN t : Len(s) + i \in DOMAIN (s \o t) /\ (s \o t)[Len(s) + i] = t[i]
         /\ \A i \in DOMAIN (s \o t) :
              i \in DOMAIN s \/ \E k \in DOMAIN t : i = Len(s) + k
<1>1. /\ Len(s) \in Nat /\ Len(t) \in Nat /\ DOMAIN s = 1 .. Len(s) /\ DOMAIN t = 1 .. Len(t)
      /\ DOMAIN (s \o t) = 1 .. Len(s) + Len(t)
  <2>1. IsSeq(s \o t) /\ Len(s \o t) = Len(s) + Len(t)
    BY Joined
  <2>. QED
    BY <2>1, SeqOfItsElements
<1>2. \A i \in DOMAIN s : i \in DOMAIN (s \o t) /\ (s \o t)[i] = s[i]
  <2>1. \A i \in 1 .. Len(s) : i \in 1 .. Len(s) + Len(t)
    BY <1>1
  <2>. QED
    BY <1>1, <2>1, Joined
<1>3. \A i \in DOMAIN t : Len(s) + i \in DOMAIN (s \o t) /\ (s \o t)[Len(s) + i] = t[i]
  <2>1. \A i \in 1 .. Len(t) : Len(s) + i \in 1 .. Len(s) + Len(t)
    BY <1>1
  <2>. QED
    BY <1>1, <2>1, Joined
<1>4. \A i \in 1 .. Len(s) + Len(t) :
        i \in 1 .. Len(s) \/ (i - Len(s) \in 1 .. Len(t) /\ i = Len(s) + (i - Len(s)))
  BY <1>1
<1>. QED
  BY <1>1, <1>2, <1>3, <1>4

LEMMA PutsJoined ==
  ASSUME NEW s, IsSeq(s), NEW t, IsSeq(t)
  PROVE  /\ \A n : Puts(s \o t, n) <=> Puts(s, n) \/ Puts(t, n)
         /\ \A N : JumpsLand(s, N) /\ JumpsLand(t, N) => JumpsLand(s \o t, N)
<1>1. ASSUME NEW n, Puts(s \o t, n) PROVE Puts(s, n) \/ Puts(t, n)
  BY <1>1, JoinedIndex DEF Puts
<1>2. ASSUME NEW n, Puts(s, n) \/ Puts(t, n) PROVE Puts(s \o t, n)
  <2>1. CASE Puts(s, n)
    <3>1. PICK k \in DOMAIN s : s[k] = MarkNext(n)
      BY <2>1 DEF Puts
    <3>2. k \in DOMAIN (s \o t) /\ (s \o t)[k] = s[k]
      BY JoinedBoth
    <3>. QED
      BY <3>1, <3>2 DEF Puts
  <2>2. CASE Puts(t, n)
    <3>1. PICK k \in DOMAIN t : t[k] = MarkNext(n)
      BY <2>2 DEF Puts
    <3>2. Len(s) + k \in DOMAIN (s \o t) /\ (s \o t)[Len(s) + k] = t[k]
      BY JoinedBoth
    <3>. QED
      BY <3>1, <3>2 DEF Puts
  <2>. QED
    BY <1>2, <2>1, <2>2
<1>3. ASSUME NEW N, JumpsLand(s, N), JumpsLand(t, N) PROVE JumpsLand(s \o t, N)
  BY <1>3, JoinedIndex DEF JumpsLand
<1>. QED
  BY <1>1, <1>2, <1>3

LEMMA OnceJoined ==
  ASSUME NEW s, IsSeq(s), Once(s), NEW t, IsSeq(t), Once(t), \A n : ~ (Puts(s, n) /\ Puts(t, n))
  PROVE  Once(s \o t)
<1>. SUFFICES ASSUME NEW k \in DOMAIN (s \o t), NEW l \in DOMAIN (s \o t), NEW n,
                     (s \o t)[k] = MarkNext(n), (s \o t)[l] = MarkNext(n)
              PROVE  k = l
  BY DEF Once
<1>1. \/ k \in DOMAIN s /\ s[k] = MarkNext(n)
      \/ \E j \in DOMAIN t : k = Len(s) + j /\ t[j] = MarkNext(n)
  BY JoinedBoth
<1>2. \/ l \in DOMAIN s /\ s[l] = MarkNext(n)
      \/ \E j \in DOMAIN t : l = Len(s) + j /\ t[j] = MarkNext(n)
  BY JoinedBoth
<1>3. ~ (Puts(s, n) /\ Puts(t, n))
  OBVIOUS
<1>. QED
  BY <1>1, <1>2, <1>3 DEF Once, Puts

(* New lines after the text, new tasks before the others.                  *)
LEMMA GivenJoined ==
  ASSUME NEW text, IsSeq(text), NEW lines, IsSeq(lines), NEW tasks, IsSeq(tasks),
         NEW todo, IsSeq(todo), GivenOnce(text, todo), GivenOnce(lines, tasks),
         \A n : ~ (Given(text, todo, n) /\ Given(lines, tasks, n))
  PROVE  /\ GivenOnce(text \o lines, tasks \o todo)
         /\ \A n : Given(text \o lines, tasks \o todo, n)
                  <=> Given(text, todo, n) \/ Given(lines, tasks, n)
<1>1. \A n : Due(tasks \o todo, n) <=> Due(tasks, n) \/ Due(todo, n)
  <2>1. ASSUME NEW n, Due(tasks \o todo, n) PROVE Due(tasks, n) \/ Due(todo, n)
    BY <2>1, JoinedIndex DEF Due
  <2>2. ASSUME NEW n, Due(tasks, n) \/ Due(todo, n) PROVE Due(tasks \o todo, n)
    <3>1. CASE Due(tasks, n)
      <4>1. PICK k \in DOMAIN tasks : DueIn(tasks[k], n)
        BY <3>1 DEF Due
      <4>2. k \in DOMAIN (tasks \o todo) /\ (tasks \o todo)[k] = tasks[k]
        BY JoinedBoth
      <4>. QED
        BY <4>1, <4>2 DEF Due
    <3>2. CASE Due(todo, n)
      <4>1. PICK k \in DOMAIN todo : DueIn(todo[k], n)
        BY <3>2 DEF Due
      <4>2. Len(tasks) + k \in DOMAIN (tasks \o todo) /\ (tasks \o todo)[Len(tasks) + k] = todo[k]
        BY JoinedBoth
      <4>. QED
        BY <4>1, <4>2 DEF Due
    <3>. QED
      BY <2>2, <3>1, <3>2
  <2>. QED
    BY <2>1, <2>2
<1>2. \A n : Puts(text \o lines, n) <=> Puts(text, n) \/ Puts(lines, n)
  BY PutsJoined
<1>3. Once(text \o lines)
  <2>1. Once(text) /\ Once(lines) /\ \A n : ~ (Puts(text, n) /\ Puts(lines, n))
    BY DEF GivenOnce, Given
  <2>. QED
    BY <2>1, OnceJoined
<1>4. \A i \in DOMAIN (tasks \o todo) :
        (tasks \o todo)[i].do = "print" => Once((tasks \o todo)[i].lines)
  BY JoinedIndex DEF GivenOnce
<1>5. \A n : ~ (Puts(text \o lines, n) /\ Due(tasks \o todo, n))
  BY <1>1, <1>2 DEF GivenOnce, Given
<1>6. ASSUME NEW i \in DOMAIN (tasks \o todo), NEW j \in DOMAIN (tasks \o todo), NEW n,
             DueIn((tasks \o todo)[i], n), DueIn((tasks \o todo)[j], n)
      PROVE  i = j
  <2>1. \/ i \in DOMAIN tasks /\ DueIn(tasks[i], n)
        \/ \E k \in DOMAIN todo : i = Len(tasks) + k /\ DueIn(todo[k], n)
    BY <1>6, JoinedBoth
  <2>2. \/ j \in DOMAIN tasks /\ DueIn(tasks[j], n)
        \/ \E k \in DOMAIN todo : j = Len(tasks) + k /\ DueIn(todo[k], n)
    BY <1>6, JoinedBoth
  <2>3. ~ (Due(tasks, n) /\ Due(todo, n))
    BY DEF Given
  <2>. QED
    BY <2>1, <2>2, <2>3 DEF GivenOnce, Due
<1>. QED
  BY <1>1, <1>2, <1>3, <1>4, <1>5, <1>6 DEF GivenOnce, Given

LEMMA AllLandJoined ==
  ASSUME NEW text, IsSeq(text), NEW lines, IsSeq(lines), NEW tasks, IsSeq(tasks),
         NEW todo, IsSeq(todo), NEW N, AllLand(text, todo, N), AllLand(lines, tasks, N)
  PROVE  AllLand(text \o lines, tasks \o todo, N)
<1>1. JumpsLand(text \o lines, N)
  BY PutsJoined DEF AllLand
<1>2. \A i \in DOMAIN (tasks \o todo) :
        (tasks \o todo)[i].do = "print" => JumpsLand((tasks \o todo)[i].lines, N)
  BY JoinedIndex DEF AllLand
<1>. QED
  BY <1>1, <1>2 DEF AllLand

LEMMA MoreLand ==
  ASSUME NEW text, NEW todo, NEW N \in Nat, AllLand(text, todo, N)
  PROVE  AllLand(text, todo, N + 1)
<1>1. \A v \in 0 .. N - 1 : v \in 0 .. N + 1 - 1
  OBVIOUS
<1>2. \A s : JumpsLand(s, N) => JumpsLand(s, N + 1)
  BY <1>1 DEF JumpsLand
<1>. QED
  BY <1>2 DEF AllLand

(* The first task is done.                                                 *)
LEMMA GivenTail ==
  ASSUME NEW text, NEW todo, IsSeq(todo), todo # <<>>, GivenOnce(text, todo)
  PROVE  /\ IsSeq(Tail(todo)) /\ GivenOnce(text, Tail(todo))
         /\ \A n : Given(text, todo, n) <=> Given(text, Tail(todo), n) \/ DueIn(todo[1], n)
         /\ \A n : ~ (Given(text, Tail(todo), n) /\ DueIn(todo[1], n))
         /\ \A N : AllLand(text, todo, N) => AllLand(text, Tail(todo), N)
<1>1. todo \in Seq(ToSet(todo)) /\ Len(todo) \in Nat /\ DOMAIN todo = 1 .. Len(todo)
  BY SeqOfItsElements
<1>2. /\ Tail(todo) \in Seq(ToSet(todo)) /\ Len(Tail(todo)) = Len(todo) - 1 /\ Len(todo) > 0
      /\ \A i \in 1 .. Len(todo) - 1 : Tail(todo)[i] = todo[i + 1]
  BY <1>1
<1>3. IsSeq(Tail(todo)) /\ DOMAIN Tail(todo) = 1 .. Len(todo) - 1
  BY <1>2, SeqIs
<1>4. \A i \in DOMAIN Tail(todo) : i + 1 \in DOMAIN todo /\ Tail(todo)[i] = todo[i + 1] /\ i + 1 # 1
  BY <1>1, <1>2, <1>3
<1>5. \A i \in DOMAIN todo : i = 1 \/ (i - 1 \in DOMAIN Tail(todo) /\ Tail(todo)[i - 1] = todo[i])
  BY <1>1, <1>2, <1>3
<1>6. 1 \in DOMAIN todo
  BY <1>1, <1>2
<1>7. \A i, j \in DOMAIN Tail(todo) : i + 1 = j + 1 => i = j
  BY <1>1, <1>3
<1>8. \A n : Due(todo, n) <=> Due(Tail(todo), n) \/ DueIn(todo[1], n)
  BY <1>4, <1>5, <1>6 DEF Due
<1>9. \A n : ~ (Due(Tail(todo), n) /\ DueIn(todo[1], n))
  BY <1>4, <1>6 DEF Due, GivenOnce
<1>10. GivenOnce(text, Tail(todo))
  BY <1>4, <1>7, <1>8 DEF GivenOnce
<1>. QED
  BY <1>3, <1>4, <1>8, <1>9, <1>10 DEF Given, GivenOnce, AllLand

-----------------------------------------------------------------------------
(***************************************************************************)
(* Labels are taken by the comparison of a condition, and by the if or the *)
(* while right after it.  So the agenda is in one of three phases: no      *)
(* condition is under way; the condition's comparison is still to come,    *)
(* just before the task that decides; or that task is the next one, and    *)
(* the label last taken is the one it has still to give.                   *)
(***************************************************************************)
Disciplined == TreesGiven /\ OneComparisonEach(Expressions, Conditions, Statements)

Compares(t) == t.do \in {"convert", "operate"} /\ t.node.type \in Comparisons
Decides(t)  == t.do \in {"decide", "loop"}
Calm(t)     == ~Decides(t) /\ ~Compares(t)

(* What the sides of a comparison are converted with.                      *)
Hushed(t) ==
  \/ t.do = "convert" /\ t.node \in Expressions
  \/ t.do = "operate" /\ t.node.type \notin Comparisons
  \/ t.do = "print" /\ Quiet(t.lines)
  \/ t.do \in {"argument", "store", "frame", "abort"}

HushedSeq(ts) == IsSeq(ts) /\ \A i \in DOMAIN ts : Hushed(ts[i])

(* The p-th task decides, after the comparison of its condition.           *)
Phase(p) ==
  /\ p \in 0 .. Len(agenda)
  /\ p > 0 => Decides(agenda[p])
  /\ p > 1 => Compares(agenda[p-1])
  /\ \A i \in 1 .. p - 2 : Hushed(agenda[i])
  /\ \A i \in p + 1 .. Len(agenda) : Calm(agenda[i])
  /\ p = 1 => curLabel > 0
  /\ p > 0 /\ agenda[p].do = "loop" => curLabel > IF p = 1 THEN 1 ELSE 0

(* Every label taken is given once, but the one a task will give.          *)
Labelled(p) ==
  /\ GivenOnce(code, agenda) /\ AllLand(code, agenda, curLabel)
  /\ \A n : Given(code, agenda, n) <=> n \in 0 .. curLabel - 1 /\ ~ (p = 1 /\ n = curLabel - 1)

LabelsInv ==
  /\ status \in {"start", "trailing", "visiting", "calling"} => Quiet(code) /\ curLabel = 0
  /\ status = "converting" => \E p : Phase(p) /\ Labelled(p)
  /\ status = "done" => Labelled(0)

LEMMA HushedCalm ==
  ASSUME Disciplined, NEW t, Hushed(t)
  PROVE  Calm(t) /\ (t.do = "print" => Quiet(t.lines))
BY DEF Disciplined, OneComparisonEach, Hushed, Calm, Compares, Decides

LEMMA HushedQuiet == ASSUME NEW ts, HushedSeq(ts) PROVE QuietTasks(ts)
BY DEF HushedSeq, QuietTasks, Hushed

LEMMA PhaseHead ==
  ASSUME NEW p, Phase(p), IsSeq(agenda), agenda # <<>>
  PROVE  /\ p \in Nat /\ Len(agenda) \in Nat /\ Len(agenda) > 0 /\ Task1 = agenda[1]
         /\ p = 0 => Calm(Task1)
         /\ p = 1 => Decides(Task1)
         /\ p = 2 => Compares(Task1)
         /\ p > 2 => Hushed(Task1)
<1>1. agenda \in Seq(ToSet(agenda)) /\ Len(agenda) \in Nat
  BY SeqOfItsElements
<1>2. Task1 = agenda[1] /\ Len(agenda) > 0
  BY <1>1 DEF Task1
<1>. QED
  BY <1>1, <1>2 DEF Phase

(* No condition is under way afterwards.                                   *)
LEMMA PhaseCalm ==
  ASSUME NEW p \in {0, 1}, Phase(p), IsSeq(agenda), agenda # <<>>, NEW tasks, IsSeq(tasks), Go(tasks),
         \A i \in DOMAIN tasks : Calm(tasks[i])
  PROVE  Phase(0)'
<1>. DEFINE k == Len(tasks)
<1>1. /\ IsSeq(agenda') /\ Len(agenda') = k + Len(agenda) - 1
      /\ k \in Nat /\ Len(agenda) \in Nat /\ Len(agenda) > 0
      /\ \A i \in 1 .. k : agenda'[i] = tasks[i]
      /\ \A i \in k + 1 .. Len(agenda') : agenda'[i] = agenda[i - k + 1]
  BY GoIndex
<1>2. DOMAIN tasks = 1 .. k
  BY SeqOfItsElements
<1>. HIDE DEF k
<1>3. \A i \in 1 .. Len(agenda') : Calm(agenda'[i])
  <2>. SUFFICES ASSUME NEW i \in 1 .. Len(agenda') PROVE Calm(agenda'[i])
    OBVIOUS
  <2>1. CASE i \in 1 .. k
    BY <1>1, <1>2, <2>1
  <2>2. CASE i \notin 1 .. k
    <3>1. i \in k + 1 .. Len(agenda') /\ i - k + 1 \in p + 1 .. Len(agenda)
      BY <1>1, <2>2
    <3>. QED
      BY <1>1, <3>1 DEF Phase
  <2>. QED
    BY <2>1, <2>2
<1>4. Len(agenda') \in Nat
  BY <1>1
<1>. QED
  BY <1>3, <1>4 DEF Phase, Calm, Compares, Decides, Hushed, Quiet

(* The comparison and what it waits for are not reached yet.               *)
LEMMA PhaseOn ==
  ASSUME NEW p, Phase(p), p > 1, IsSeq(agenda), agenda # <<>>, NEW tasks, IsSeq(tasks), Go(tasks),
         curLabel' = curLabel,
         IF p = 2 THEN /\ Len(tasks) > 0 /\ Compares(tasks[Len(tasks)])
                       /\ \A i \in 1 .. Len(tasks) - 1 : Hushed(tasks[i])
                  ELSE \A i \in 1 .. Len(tasks) : Hushed(tasks[i])
  PROVE  \E q : q > 1 /\ q \in Nat /\ Phase(q)'
<1>. DEFINE k == Len(tasks)
<1>1. /\ IsSeq(agenda') /\ Len(agenda') = k + Len(agenda) - 1
      /\ k \in Nat /\ Len(agenda) \in Nat /\ Len(agenda) > 0
      /\ \A i \in 1 .. k : agenda'[i] = tasks[i]
      /\ \A i \in k + 1 .. Len(agenda') : agenda'[i] = agenda[i - k + 1]
  BY GoIndex
<1>2. p \in Nat /\ p <= Len(agenda) /\ p > 1
  BY <1>1 DEF Phase
<1>3. PICK q : q = p - 1 + k
  OBVIOUS
<1>4. p = 2 => k > 0 /\ Compares(tasks[k]) /\ \A i \in 1 .. k - 1 : Hushed(tasks[i])
  OBVIOUS
<1>5. p # 2 => \A i \in 1 .. k : Hushed(tasks[i])
  OBVIOUS
<1>. HIDE DEF k
<1>6. q \in Nat /\ q > 1 /\ q \in 0 .. Len(agenda') /\ q # 1
  BY <1>1, <1>2, <1>3, <1>4
<1>7. agenda'[q] = agenda[p]
  <2>1. q \in k + 1 .. Len(agenda') /\ q - k + 1 = p
    BY <1>1, <1>2, <1>3, <1>6
  <2>. QED
    BY <1>1, <2>1
<1>8. Compares(agenda'[q-1])
  <2>1. CASE p = 2
    <3>1. q - 1 = k /\ k \in 1 .. k
      BY <1>1, <1>3, <1>4, <2>1
    <3>. QED
      BY <1>1, <1>4, <2>1, <3>1
  <2>2. CASE p # 2
    <3>1. q - 1 \in k + 1 .. Len(agenda') /\ q - 1 - k + 1 = p - 1
      BY <1>1, <1>2, <1>3, <1>6, <2>2
    <3>2. agenda'[q-1] = agenda[p-1]
      BY <1>1, <3>1
    <3>. QED
      BY <1>2, <3>2 DEF Phase
  <2>. QED
    BY <2>1, <2>2
<1>9. ASSUME NEW i \in 1 .. q - 2 PROVE Hushed(agenda'[i])
  <2>1. CASE i <= k
    <3>1. i \in 1 .. k /\ (p = 2 => i \in 1 .. k - 1)
      BY <1>1, <1>2, <1>3, <2>1
    <3>. QED
      BY <1>1, <1>4, <1>5, <3>1
  <2>2. CASE i > k
    <3>1. i \in k + 1 .. Len(agenda') /\ i - k + 1 \in 1 .. p - 2
      BY <1>1, <1>2, <1>3, <1>6, <2>2
    <3>. QED
      BY <1>1, <3>1 DEF Phase
  <2>. QED
    BY <1>1, <2>1, <2>2
<1>10. ASSUME NEW i \in q + 1 .. Len(agenda') PROVE Calm(agenda'[i])
  <2>1. i \in k + 1 .. Len(agenda') /\ i - k + 1 \in p + 1 .. Len(agenda)
    BY <1>1, <1>2, <1>3
  <2>. QED
    BY <1>1, <2>1 DEF Phase
<1>11. Decides(agenda'[q]) /\ (agenda'[q].do = "loop" => curLabel' > 0)
  BY <1>2, <1>7 DEF Phase
<1>12. Phase(q)'
  BY <1>6, <1>8, <1>9, <1>10, <1>11 DEF Phase, Calm, Compares, Decides, Hushed, Quiet
<1>. QED
  BY <1>6, <1>12

(* A condition begins.                                                     *)
LEMMA PhaseBegins ==
  ASSUME Phase(0), IsSeq(agenda), agenda # <<>>, NEW c, Compares(c), NEW d, Decides(d), Go(<<c, d>>),
         d.do = "loop" => curLabel' > 0
  PROVE  Phase(2)'
<1>1. IsSeq(<<c, d>>) /\ Len(<<c, d>>) = 2 /\ <<c, d>>[1] = c /\ <<c, d>>[2] = d
  BY TupleIsSeq
<1>. DEFINE tasks == <<c, d>>
<1>. HIDE DEF tasks
<1>2. /\ IsSeq(agenda') /\ Len(agenda') = 2 + Len(agenda) - 1
      /\ Len(agenda) \in Nat /\ Len(agenda) > 0
      /\ \A i \in 1 .. 2 : agenda'[i] = tasks[i]
      /\ \A i \in 2 + 1 .. Len(agenda') : agenda'[i] = agenda[i - 2 + 1]
  <2>1. IsSeq(tasks) /\ Len(tasks) = 2 /\ Go(tasks)
    BY <1>1 DEF tasks
  <2>. QED
    BY <2>1, GoIndex
<1>3. agenda'[1] = c /\ agenda'[2] = d
  BY <1>1, <1>2 DEF tasks
<1>4. ASSUME NEW i \in 2 + 1 .. Len(agenda') PROVE Calm(agenda'[i])
  <2>1. i - 2 + 1 \in 0 + 1 .. Len(agenda)
    BY <1>2
  <2>. QED
    BY <1>2, <2>1 DEF Phase
<1>5. 2 \in 0 .. Len(agenda')
  BY <1>2
<1>. QED
  BY <1>3, <1>4, <1>5 DEF Phase, Calm, Compares, Decides, Hushed, Quiet

(* The comparison took its label.                                          *)
LEMMA PhaseTaken ==
  ASSUME Phase(2), IsSeq(agenda), agenda # <<>>, Go(<<>>), curLabel \in Nat, curLabel' = curLabel + 1
  PROVE  Phase(1)'
<1>1. /\ IsSeq(agenda') /\ Len(agenda') = Len(agenda) - 1 /\ Len(agenda) \in Nat /\ Len(agenda) > 0
      /\ \A i \in 1 .. Len(agenda') : agenda'[i] = agenda[i + 1]
  BY GoNowhere
<1>2. 2 <= Len(agenda)
  BY <1>1 DEF Phase
<1>3. agenda'[1] = agenda[2] /\ 1 \in 0 .. Len(agenda')
  BY <1>1, <1>2
<1>4. ASSUME NEW i \in 1 + 1 .. Len(agenda') PROVE Calm(agenda'[i])
  <2>1. i \in 1 .. Len(agenda') /\ i + 1 \in 2 + 1 .. Len(agenda)
    BY <1>1
  <2>. QED
    BY <1>1, <2>1 DEF Phase
<1>5. Decides(agenda[2]) /\ (agenda[2].do = "loop" => curLabel > 0)
  BY DEF Phase
<1>6. curLabel' > 0 /\ (curLabel > 0 => curLabel' > 1)
  OBVIOUS
<1>7. ~ (1 > 1)
  OBVIOUS
<1>. QED
  BY <1>3, <1>4, <1>5, <1>6, <1>7 DEF Phase, Calm, Compares, Decides, Hushed, Quiet

(* The labels after a step, from what its lines and tasks give.            *)
LEMMA LabelledStep ==
  ASSUME TypedInv, status = "converting", agenda # <<>>, NEW p, Labelled(p), NEW q,
         NEW lines, IsSeq(lines), code' = code \o lines, NEW tasks, IsSeq(tasks), Go(tasks),
         GivenOnce(lines, tasks), AllLand(lines, tasks, curLabel'),
         curLabel' \in {curLabel, curLabel + 1},
         \A n : ~ (Given(code, Tail(agenda), n) /\ Given(lines, tasks, n)),
         \A n : Given(code, Tail(agenda), n) \/ Given(lines, tasks, n)
               <=> n \in 0 .. curLabel' - 1 /\ ~ (q = 1 /\ n = curLabel' - 1)
  PROVE  Labelled(q)'
<1>1. IsSeq(code) /\ IsSeq(agenda) /\ curLabel \in Nat
  BY DEF TypedInv
<1>2. GivenOnce(code, agenda) /\ AllLand(code, agenda, curLabel)
  BY DEF Labelled
<1>3. /\ IsSeq(Tail(agenda)) /\ GivenOnce(code, Tail(agenda))
      /\ AllLand(code, Tail(agenda), curLabel)
  BY <1>1, <1>2, GivenTail
<1>4. AllLand(code, Tail(agenda), curLabel')
  BY <1>1, <1>3, MoreLand
<1>5. agenda' = tasks \o Tail(agenda)
  BY DEF Go
<1>6. /\ GivenOnce(code', agenda')
      /\ \A n : Given(code', agenda', n)
               <=> Given(code, Tail(agenda), n) \/ Given(lines, tasks, n)
  BY <1>1, <1>3, <1>5, GivenJoined
<1>7. AllLand(code', agenda', curLabel')
  BY <1>1, <1>3, <1>4, <1>5, AllLandJoined
<1>. QED
  BY <1>6, <1>7 DEF Labelled

(* What the labels given come to without the first task.                   *)
LEMMA LabelledTail ==
  ASSUME TypedInv, agenda # <<>>, NEW p, Labelled(p)
  PROVE  /\ Task1.do # "print" =>
              \A n : Given(code, Tail(agenda), n)
                    <=> n \in 0 .. curLabel - 1 /\ ~ (p = 1 /\ n = curLabel - 1)
         /\ \A n : ~ (Given(code, Tail(agenda), n) /\ DueIn(Task1, n))
         /\ \A n : Given(code, Tail(agenda), n) \/ DueIn(Task1, n)
                  <=> n \in 0 .. curLabel - 1 /\ ~ (p = 1 /\ n = curLabel - 1)
<1>1. IsSeq(agenda) /\ Task1 = agenda[1]
  <2>1. agenda \in Seq(ToSet(agenda))
    BY SeqOfItsElements DEF TypedInv
  <2>. QED
    BY <2>1, SeqIs DEF Task1
<1>2. GivenOnce(code, agenda)
  BY DEF Labelled
<1>3. /\ \A n : Given(code, agenda, n) <=> Given(code, Tail(agenda), n) \/ DueIn(Task1, n)
      /\ \A n : ~ (Given(code, Tail(agenda), n) /\ DueIn(Task1, n))
  BY <1>1, <1>2, GivenTail
<1>4. Task1.do # "print" => \A n : ~ DueIn(Task1, n)
  BY DEF DueIn
<1>. QED
  BY <1>3, <1>4 DEF Labelled

(* A step that has nothing to do with labels.                              *)
LEMMA LabelledQuiet ==
  ASSUME TypedInv, status = "converting", agenda # <<>>, NEW p, Labelled(p), NEW q, p = 1 <=> q = 1,
         Task1.do # "print" \/ Quiet(Task1.lines),
         NEW lines, Quiet(lines), code' = code \o lines,
         NEW tasks, QuietTasks(tasks), Go(tasks), curLabel' = curLabel
  PROVE  Labelled(q)'
<1>1. /\ GivenOnce(lines, tasks) /\ (\A n : ~ Given(lines, tasks, n))
      /\ \A N : AllLand(lines, tasks, N)
  BY QuietTasksGive
<1>2. IsSeq(lines) /\ IsSeq(tasks)
  BY DEF Quiet, QuietTasks
<1>3. \A n : ~ DueIn(Task1, n)
  BY QuietGives DEF DueIn
<1>4. \A n : Given(code, Tail(agenda), n)
            <=> n \in 0 .. curLabel' - 1 /\ ~ (q = 1 /\ n = curLabel' - 1)
  BY <1>3, LabelledTail
<1>. QED
  BY <1>1, <1>2, <1>4, LabelledStep

QuietStep ==
  /\ status = "converting" /\ status' = "converting" /\ agenda # <<>> /\ curLabel' = curLabel
  /\ Task1.do # "print" /\ Calm(Task1)
  /\ \E tasks : HushedSeq(tasks) /\ Go(tasks)
  /\ \E lines : Quiet(lines) /\ code' = code \o lines

LEMMA QuietStepLabels ==
  ASSUME Disciplined, TypedInv, LabelsInv, QuietStep
  PROVE  LabelsInv'
<1>1. PICK p : Phase(p) /\ Labelled(p)
  BY DEF LabelsInv, QuietStep
<1>2. PICK tasks : HushedSeq(tasks) /\ Go(tasks)
  BY DEF QuietStep
<1>3. PICK lines : Quiet(lines) /\ code' = code \o lines
  BY DEF QuietStep
<1>4. /\ status = "converting" /\ status' = "converting" /\ agenda # <<>> /\ curLabel' = curLabel
      /\ Task1.do # "print" /\ Calm(Task1) /\ IsSeq(agenda)
  BY DEF QuietStep, TypedInv
<1>5. QuietTasks(tasks) /\ IsSeq(tasks) /\ \A i \in 1 .. Len(tasks) : Hushed(tasks[i])
  BY <1>2, HushedQuiet, SeqOfItsElements DEF HushedSeq
<1>6. \A i \in DOMAIN tasks : Calm(tasks[i])
  BY <1>2, HushedCalm DEF HushedSeq
<1>7. p \in Nat /\ p # 1 /\ p # 2
  BY <1>1, <1>4, PhaseHead DEF Calm
<1>8. \E q : q # 1 /\ Phase(q)'
  <2>1. CASE p = 0
    <3>1. Phase(0)'
      BY <1>1, <1>2, <1>4, <1>5, <1>6, <2>1, PhaseCalm
    <3>. QED
      BY <3>1
  <2>2. CASE p > 1
    <3>1. \E q : q > 1 /\ q \in Nat /\ Phase(q)'
      BY <1>1, <1>2, <1>4, <1>5, <1>7, <2>2, PhaseOn
    <3>. QED
      BY <3>1
  <2>. QED
    BY <1>7, <2>1, <2>2
<1>9. PICK q : q # 1 /\ Phase(q)'
  BY <1>8
<1>10. Labelled(q)'
  BY <1>1, <1>2, <1>3, <1>4, <1>5, <1>7, <1>9, LabelledQuiet
<1>. QED
  BY <1>4, <1>9, <1>10 DEF LabelsInv

-----------------------------------------------------------------------------
(* The quiet steps.                                                        *)
LEMMA HushedTuple ==
  /\ HushedSeq(<<>>)
  /\ \A a : Hushed(a) => HushedSeq(<<a>>)
  /\ \A a, b : Hushed(a) /\ Hushed(b) => HushedSeq(<<a, b>>)
  /\ \A a, b, c : Hushed(a) /\ Hushed(b) /\ Hushed(c) => HushedSeq(<<a, b, c>>)
BY TupleIsSeq DEF HushedSeq

LEMMA HushedJoined ==
  ASSUME NEW s, HushedSeq(s), NEW t, HushedSeq(t)
  PROVE  HushedSeq(s \o t)
BY Joined, JoinedIndex DEF HushedSeq

LEMMA ConvertHushed ==
  /\ \A e \in Expressions : Hushed(Convert(e))
  /\ \A n : Hushed(Rest("store", n)) /\ Hushed(Rest("frame", n)) /\ Hushed(Rest("abort", n))
          /\ Hushed(Rest("argument", n))
  /\ \A lines : Quiet(lines) => Hushed(Emit(lines))
BY DEF Hushed, Convert, Rest, Emit, Task

LEMMA ConvertAllHushed ==
  ASSUME NEW ns \in Seq(Expressions)
  PROVE  HushedSeq(ConvertAll(ns)) /\ HushedSeq(Required(ns))
<1>1. HushedSeq(ConvertAll(ns))
  <2>. DEFINE T == {Convert(n) : n \in Expressions}
  <2>1. ConvertAll(ns) \in Seq(T)
    BY DEF ConvertAll
  <2>2. \A t \in T : Hushed(t)
    BY ConvertHushed
  <2>3. IsSeq(ConvertAll(ns))
    BY <2>1, SeqIs
  <2>. HIDE DEF T
  <2>. QED
    BY <2>1, <2>2, <2>3 DEF HushedSeq
<1>2. HushedSeq(<<Rest("abort", NoNode)>>)
  BY ConvertHushed, HushedTuple
<1>. QED
  BY <1>1, <1>2 DEF Required

(* A step whose head is converted, and is no comparison.                   *)
LEMMA QuietStepIs ==
  ASSUME TypedInv, status = "converting", status' = "converting", agenda # <<>>,
         Task1.do \in {"convert", "operate"} => Node.type \notin Comparisons,
         Task1.do \notin {"print", "decide", "loop"},
         curLabel' = curLabel, NEW tasks, HushedSeq(tasks), Go(tasks),
         NEW lines, Quiet(lines), code' = code \o lines
  PROVE  QuietStep
BY DEF QuietStep, Calm, Compares, Decides, Node

LEMMA NothingWritten ==
  ASSUME TypedInv, UNCHANGED code
  PROVE  Quiet(<<>>) /\ code' = code \o <<>>
BY ConcatEmptySeq, SeqOfItsElements, QuietTuple DEF TypedInv

LEMMA ReturnQuiet == ASSUME TreesGiven, TypedInv, ConvertReturn PROVE QuietStep
<1>1. /\ status = "converting" /\ agenda # <<>> /\ Task1.do = "convert" /\ Node.type = "RETURN"
      /\ Doing("convert") /\ UNCHANGED <<curLabel, status>>
  BY DEF ConvertReturn, Converting, Doing
<1>2. Node.value \in Seq(Expressions)
  BY <1>1, NodeFits DEF Expression, Condition, Statement, TopLevel, BinaryOps, Comparisons
<1>3. Node.type \notin Comparisons
  BY <1>1 DEF Comparisons
<1>4. CASE Node.value # <<>>
  <2>. DEFINE lines == <<CmdName("POP", "gx"), Cmd("RET")>>
  <2>1. Go(ConvertAll(Node.value) \o <<Emit(lines)>>) /\ UNCHANGED code
    BY <1>4 DEF ConvertReturn
  <2>2. Quiet(lines)
    BY KindsOf, QuietTuple
  <2>. HIDE DEF lines
  <2>3. HushedSeq(ConvertAll(Node.value) \o <<Emit(lines)>>)
    BY <1>2, <2>2, ConvertHushed, ConvertAllHushed, HushedTuple, HushedJoined
  <2>. QED
    BY <1>1, <1>3, <2>1, <2>3, NothingWritten, QuietStepIs
<1>5. CASE Node.value = <<>>
  <2>1. code' = code \o <<Cmd("RET")>> /\ Go(<<>>)
    BY <1>5 DEF ConvertReturn, Write
  <2>2. Quiet(<<Cmd("RET")>>) /\ HushedSeq(<<>>)
    BY KindsOf, QuietTuple, HushedTuple
  <2>. QED
    BY <1>1, <1>3, <2>1, <2>2, QuietStepIs
<1>. QED
  BY <1>4, <1>5

LEMMA BuiltinQuiet == ASSUME TreesGiven, TypedInv, ConvertBuiltin PROVE QuietStep
<1>1. /\ status = "converting" /\ agenda # <<>> /\ Task1.do = "convert" /\ Node.type = "CALL"
      /\ UNCHANGED <<curLabel, status>> /\ Node.type \notin Comparisons
  BY DEF ConvertBuiltin, Converting, Doing, Comparisons
<1>2. Node.args \in Seq(Expressions)
  BY CallFits DEF ConvertBuiltin
<1>3. CASE Write(<<Cmd(CommandOf(Node.func))>>) /\ Go(<<>>)
  <2>1. Quiet(<<Cmd(CommandOf(Node.func))>>) /\ HushedSeq(<<>>)
    BY KindsOf, QuietTuple, HushedTuple
  <2>. QED
    BY <1>1, <1>3, <2>1, QuietStepIs DEF Write
<1>4. ASSUME NEW lines, Quiet(lines), Go(Required(Node.args) \o <<Emit(lines)>>), UNCHANGED code
      PROVE  QuietStep
  <2>1. HushedSeq(Required(Node.args) \o <<Emit(lines)>>)
    BY <1>2, <1>4, ConvertHushed, ConvertAllHushed, HushedTuple, HushedJoined
  <2>. QED
    BY <1>1, <1>4, <2>1, NothingWritten, QuietStepIs
<1>5. CASE UNCHANGED code /\ Go(Required(Node.args) \o <<Emit(<<Cmd("OUT")>>)>>)
  <2>1. Quiet(<<Cmd("OUT")>>)
    BY KindsOf, QuietTuple
  <2>. QED
    BY <1>4, <1>5, <2>1
<1>6. CASE /\ UNCHANGED code
           /\ Go(Required(Node.args) \o
                 <<Emit(<<CmdName("POP", "fx"), CmdName("SQRT", "fx"), CmdName("PUSH", "fx")>>)>>)
  <2>1. Quiet(<<CmdName("POP", "fx"), CmdName("SQRT", "fx"), CmdName("PUSH", "fx")>>)
    BY KindsOf, QuietTuple
  <2>. QED
    BY <1>4, <1>6, <2>1
<1>. QED
  BY <1>3, <1>5, <1>6 DEF ConvertBuiltin

LEMMA CallQuiet == ASSUME TreesGiven, TypedInv, ConvertCall PROVE QuietStep
<1>1. /\ status = "converting" /\ agenda # <<>> /\ Task1.do = "convert" /\ Node.type = "CALL"
      /\ UNCHANGED <<curLabel, code, status>> /\ Node.type \notin Comparisons
  BY DEF ConvertCall, Converting, Doing, Comparisons
<1>2. Node.args \in Seq(Expressions)
  BY CallFits DEF ConvertCall
<1>. DEFINE n == Len(Node.args)
            arguments == FlattenSeq([i \in 1 .. n |->
                           <<Convert(Node.args[n + 1 - i]),
                             Rest("argument", [type |-> ParameterRegister(n + 1 - i, n)])>>])
            T == {Convert(e) : e \in Expressions}
                 \cup {Rest("argument", [type |-> r]) : r \in Registers}
<1>3. arguments \in Seq(T)
  BY <1>2, ArgumentTasks
<1>4. HushedSeq(arguments)
  <2>1. \A t \in T : Hushed(t)
    BY ConvertHushed
  <2>. HIDE DEF T, arguments
  <2>2. IsSeq(arguments) /\ \A i \in DOMAIN arguments : arguments[i] \in T
    BY <1>3, SeqIs
  <2>. QED
    BY <2>1, <2>2 DEF HushedSeq
<1>5. CASE Contains(functions, Node.func)
  <2>1. Go(arguments \o <<Rest("frame", Node)>>)
    BY <1>5 DEF ConvertCall
  <2>. HIDE DEF arguments
  <2>2. HushedSeq(arguments \o <<Rest("frame", Node)>>)
    BY <1>4, ConvertHushed, HushedTuple, HushedJoined
  <2>. QED
    BY <1>1, <2>1, <2>2, NothingWritten, QuietStepIs
<1>6. CASE ~ Contains(functions, Node.func)
  <2>1. Go(<<>>)
    BY <1>6 DEF ConvertCall
  <2>. QED
    BY <1>1, <2>1, HushedTuple, NothingWritten, QuietStepIs
<1>. QED
  BY <1>5, <1>6

LEMMA ArgumentQuiet == ASSUME TypedInv, PassArgument PROVE QuietStep
<1>1. /\ status = "converting" /\ agenda # <<>> /\ Task1.do = "argument"
      /\ Go(<<>>) /\ code' = code \o <<CmdName("POP", Node.type)>> /\ UNCHANGED <<curLabel, status>>
  BY DEF PassArgument, Doing, Write
<1>2. Quiet(<<CmdName("POP", Node.type)>>) /\ HushedSeq(<<>>)
  BY KindsOf, QuietTuple, HushedTuple
<1>. QED
  BY <1>1, <1>2, QuietStepIs

LEMMA FrameQuiet == ASSUME TypedInv, EmitCall PROVE QuietStep
<1>1. /\ status = "converting" /\ agenda # <<>> /\ Task1.do = "frame"
      /\ Go(<<>>) /\ code' = code \o CallLines(Node.func, FrameSize)
      /\ UNCHANGED <<curLabel, status>>
  BY DEF EmitCall, Doing, Write, CallLines
<1>2. Quiet(CallLines(Node.func, FrameSize))
  <2>. DEFINE S == {CmdName("PUSH", "ex"), CmdInt("PUSH", FrameSize), Cmd("ADD"),
                    CmdName("POP", "ex"), CmdName("CALL", Node.func), CmdName("PUSH", "gx")}
  <2>1. CallLines(Node.func, FrameSize) \in Seq(S)
    BY DEF CallLines
  <2>2. \A l \in S : l.kind # "next"
    BY KindsOf
  <2>. HIDE DEF S
  <2>. QED
    BY <2>1, <2>2, SeqIs DEF Quiet
<1>. QED
  BY <1>1, <1>2, HushedTuple, QuietStepIs

(* The access of a variable.                                               *)
LEMMA AccessQuiet ==
  ASSUME NEW op, NEW str, Access(op, str)
  PROVE  \E lines : Quiet(lines) /\ code' = code \o lines
<1>1. CASE GlobalOffset(str) # NoVariable
  <2>1. code' = code \o <<AtInt(op, GlobalOffset(str))>>
    BY <1>1 DEF Access, Write
  <2>. QED
    BY <2>1, KindsOf, QuietTuple
<1>2. CASE GlobalOffset(str) = NoVariable
  <2>. DEFINE v == LocalOffset(WithName(LocalNames, str), str)
  <2>1. code' = code \o (LocalAddress(v) \o <<AtReg(op, "dx")>>)
    BY <1>2 DEF Access, Write
  <2>. HIDE DEF v
  <2>2. Quiet(LocalAddress(v))
    <3>. DEFINE S == {CmdName("PUSH", "ex"), CmdInt("PUSH", v), Cmd("ADD"), CmdName("POP", "dx")}
    <3>1. LocalAddress(v) \in Seq(S)
      BY DEF LocalAddress
    <3>2. \A l \in S : l.kind # "next"
      BY KindsOf
    <3>. HIDE DEF S
    <3>. QED
      BY <3>1, <3>2, SeqIs DEF Quiet
  <2>3. Quiet(LocalAddress(v) \o <<AtReg(op, "dx")>>)
    BY <2>2, KindsOf, QuietTuple, QuietJoined
  <2>. QED
    BY <2>1, <2>3
<1>. QED
  BY <1>1, <1>2

LEMMA StoreQuiet == ASSUME TypedInv, Store PROVE QuietStep
<1>1. /\ status = "converting" /\ agenda # <<>> /\ Task1.do = "store"
      /\ Go(<<>>) /\ Access("POP", Node.str) /\ UNCHANGED <<curLabel, status>>
  BY DEF Store, Doing
<1>2. PICK lines : Quiet(lines) /\ code' = code \o lines
  BY <1>1, AccessQuiet
<1>. QED
  BY <1>1, <1>2, HushedTuple, QuietStepIs

LEMMA VariableQuiet == ASSUME TypedInv, ConvertVariable PROVE QuietStep
<1>1. /\ status = "converting" /\ agenda # <<>> /\ Task1.do = "convert" /\ Node.type = "VARIABLE"
      /\ Go(<<>>) /\ Access("PUSH", Node.str) /\ UNCHANGED <<curLabel, status>>
      /\ Node.type \notin Comparisons
  BY DEF ConvertVariable, Converting, Doing, Comparisons
<1>2. PICK lines : Quiet(lines) /\ code' = code \o lines
  BY <1>1, AccessQuiet
<1>. QED
  BY <1>1, <1>2, HushedTuple, QuietStepIs

LEMMA ConstQuiet == ASSUME TypedInv, ConvertConst PROVE QuietStep
<1>1. /\ status = "converting" /\ agenda # <<>> /\ Task1.do = "convert" /\ Node.type = "CONST"
      /\ Go(<<>>) /\ code' = code \o <<CmdInt("PUSH", AsPrinted(Node.value))>>
      /\ UNCHANGED <<curLabel, status>> /\ Node.type \notin Comparisons
  BY DEF ConvertConst, Converting, Doing, Comparisons, Write
<1>2. Quiet(<<CmdInt("PUSH", AsPrinted(Node.value))>>)
  BY KindsOf, QuietTuple
<1>. QED
  BY <1>1, <1>2, HushedTuple, QuietStepIs

LEMMA AssignQuiet == ASSUME TreesGiven, TypedInv, ConvertAssign PROVE QuietStep
<1>1. /\ status = "converting" /\ agenda # <<>> /\ Task1.do = "convert" /\ Node.type = "ASSIGN"
      /\ Go(<<Convert(Node.right), Rest("store", Node)>>) /\ UNCHANGED <<curLabel, code, status>>
      /\ Node.type \notin Comparisons /\ Doing("convert")
  BY DEF ConvertAssign, Converting, Doing, Comparisons
<1>2. Node.right \in Expressions
  BY <1>1, NodeFits DEF Expression, Condition, Statement, TopLevel, BinaryOps, Comparisons
<1>3. HushedSeq(<<Convert(Node.right), Rest("store", Node)>>)
  BY <1>2, ConvertHushed, HushedTuple
<1>. QED
  BY <1>1, <1>3, NothingWritten, QuietStepIs

LEMMA ArithmeticQuiet ==
  ASSUME TreesGiven, TypedInv, ConvertBinary, Node \in Expressions, Node.type \notin Comparisons
  PROVE  QuietStep
<1>1. /\ status = "converting" /\ agenda # <<>> /\ Task1.do = "convert" /\ Node.type \in BinaryOps
      /\ Go(<<Convert(Node.left), Convert(Node.right), Rest("operate", Node)>>)
      /\ UNCHANGED <<curLabel, code, status>> /\ Doing("convert")
  BY DEF ConvertBinary, Converting, Doing
<1>2. Node.left \in Expressions /\ Node.right \in Expressions
  BY <1>1 DEF TreesGiven, Trees, Expression, BinaryOps, Comparisons
<1>3. Hushed(Rest("operate", Node))
  BY DEF Hushed, Rest, Task
<1>4. HushedSeq(<<Convert(Node.left), Convert(Node.right), Rest("operate", Node)>>)
  BY <1>2, <1>3, ConvertHushed, HushedTuple
<1>. QED
  BY <1>1, <1>4, NothingWritten, QuietStepIs

LEMMA OperateQuiet == ASSUME TypedInv, Operate, Node.type \notin Comparisons PROVE QuietStep
<1>1. /\ status = "converting" /\ agenda # <<>> /\ Task1.do = "operate"
      /\ Go(<<>>) /\ code' = code \o <<Cmd(Node.type)>> /\ UNCHANGED <<curLabel, status>>
  BY DEF Operate, Doing, Write
<1>2. Quiet(<<Cmd(Node.type)>>)
  BY KindsOf, QuietTuple
<1>. QED
  BY <1>1, <1>2, HushedTuple, QuietStepIs

-----------------------------------------------------------------------------
(* The steps that take labels.                                             *)
LEMMA StillLabelled ==
  ASSUME status' = "converting", NEW q, Phase(q)', Labelled(q)'
  PROVE  LabelsInv'
BY DEF LabelsInv

LEMMA TextGives ==
  /\ \A op, k : Once(<<JumpNext(op, k)>>) /\ \A m : ~ Puts(<<JumpNext(op, k)>>, m)
  /\ \A op, N : \A k \in 0 .. N - 1 : JumpsLand(<<JumpNext(op, k)>>, N)
  /\ \A n : Once(<<MarkNext(n)>>) /\ \A m : Puts(<<MarkNext(n)>>, m) <=> m = n
  /\ \A n, N : JumpsLand(<<MarkNext(n)>>, N)
<1>1. \A a : DOMAIN <<a>> = {1} /\ <<a>>[1] = a
  OBVIOUS
<1>. QED
  BY <1>1, MarkNextIs DEF Once, Puts, JumpsLand

(* A jump and the label after it.                                          *)
LEMMA JumpAndMark ==
  ASSUME NEW op, NEW k, NEW n
  PROVE  /\ Once(<<JumpNext(op, k), MarkNext(n)>>)
         /\ \A m : Puts(<<JumpNext(op, k), MarkNext(n)>>, m) <=> m = n
         /\ \A N : k \in 0 .. N - 1 => JumpsLand(<<JumpNext(op, k), MarkNext(n)>>, N)
<1>1. /\ DOMAIN <<JumpNext(op, k), MarkNext(n)>> = {1, 2}
      /\ <<JumpNext(op, k), MarkNext(n)>>[1] = JumpNext(op, k)
      /\ <<JumpNext(op, k), MarkNext(n)>>[2] = MarkNext(n)
  OBVIOUS
<1>. QED
  BY <1>1, MarkNextIs DEF Once, Puts, JumpsLand

LEMMA LinesGive ==
  ASSUME NEW lines, Once(lines), NEW tasks, QuietTasks(tasks)
  PROVE  /\ GivenOnce(lines, tasks) /\ \A n : Given(lines, tasks, n) <=> Puts(lines, n)
         /\ \A N : JumpsLand(lines, N) => AllLand(lines, tasks, N)
<1>1. \A i \in DOMAIN tasks : tasks[i].do = "print" =>
        /\ Once(tasks[i].lines) /\ (\A n : ~ Puts(tasks[i].lines, n))
        /\ \A N : JumpsLand(tasks[i].lines, N)
  BY QuietGives DEF QuietTasks
<1>. QED
  BY <1>1 DEF GivenOnce, Given, AllLand, Due, DueIn

LEMMA EmitGives ==
  ASSUME NEW lines, Once(lines)
  PROVE  /\ IsSeq(<<Emit(lines)>>) /\ GivenOnce(<<>>, <<Emit(lines)>>)
         /\ \A n : Given(<<>>, <<Emit(lines)>>, n) <=> Puts(lines, n)
         /\ \A N : JumpsLand(lines, N) => AllLand(<<>>, <<Emit(lines)>>, N)
<1>1. DOMAIN <<Emit(lines)>> = {1} /\ <<Emit(lines)>>[1] = Emit(lines)
  OBVIOUS
<1>2. Emit(lines).do = "print" /\ Emit(lines).lines = lines
  BY DEF Emit, Task
<1>3. Once(<<>>) /\ (\A n : ~ Puts(<<>>, n)) /\ \A N : JumpsLand(<<>>, N)
  BY QuietTuple, QuietGives
<1>4. \A n : Due(<<Emit(lines)>>, n) <=> Puts(lines, n)
  BY <1>1, <1>2 DEF Due, DueIn
<1>5. GivenOnce(<<>>, <<Emit(lines)>>)
  BY <1>1, <1>2, <1>3 DEF GivenOnce
<1>. QED
  BY <1>1, <1>2, <1>3, <1>4, <1>5, TupleIsSeq DEF Given, AllLand

(* Tasks one after another, with no new text.                              *)
LEMMA TasksJoined ==
  ASSUME NEW s, IsSeq(s), GivenOnce(<<>>, s), NEW t, IsSeq(t), GivenOnce(<<>>, t),
         \A n : ~ (Given(<<>>, s, n) /\ Given(<<>>, t, n))
  PROVE  /\ IsSeq(s \o t) /\ GivenOnce(<<>>, s \o t)
         /\ \A n : Given(<<>>, s \o t, n) <=> Given(<<>>, s, n) \/ Given(<<>>, t, n)
         /\ \A N : AllLand(<<>>, s, N) /\ AllLand(<<>>, t, N) => AllLand(<<>>, s \o t, N)
<1>1. IsSeq(<<>>) /\ <<>> \o <<>> = <<>>
  BY TupleIsSeq
<1>2. IsSeq(s \o t)
  BY Joined
<1>3. /\ GivenOnce(<<>> \o <<>>, s \o t)
      /\ \A n : Given(<<>> \o <<>>, s \o t, n) <=> Given(<<>>, t, n) \/ Given(<<>>, s, n)
  BY <1>1, GivenJoined
<1>4. \A N : AllLand(<<>>, s, N) /\ AllLand(<<>>, t, N) => AllLand(<<>> \o <<>>, s \o t, N)
  BY <1>1, AllLandJoined
<1>. QED
  BY <1>1, <1>2, <1>3, <1>4

(* The sides of a comparison come first.                                   *)
LEMMA ComparisonLabels ==
  ASSUME Disciplined, TypedInv, LabelsInv, ConvertBinary, Node.type \in Comparisons
  PROVE  LabelsInv'
<1>. DEFINE tasks == <<Convert(Node.left), Convert(Node.right), Rest("operate", Node)>>
<1>1. /\ status = "converting" /\ status' = "converting" /\ agenda # <<>>
      /\ Task1.do = "convert" /\ Doing("convert") /\ Go(tasks) /\ curLabel' = curLabel
      /\ UNCHANGED code /\ IsSeq(agenda)
  BY DEF ConvertBinary, Converting, Doing, TypedInv
<1>2. Node.left \in Expressions /\ Node.right \in Expressions
  <2>1. Inner(Task1) \/ Outer(Task1)
    BY <1>1, HeadTask
  <2>2. ~ TopLevel(Node, Expressions, Statements)
    BY DEF TopLevel, Comparisons
  <2>3. Node \in Expressions \cup Conditions \cup Statements
    BY <1>1, <2>1, <2>2 DEF Inner, Outer, Node, TypedInv, ToSet
  <2>4. Node \in Conditions
    BY <2>3 DEF Disciplined, OneComparisonEach
  <2>. QED
    BY <2>4 DEF Disciplined, TreesGiven, Trees, Condition, Expression, Comparisons, BinaryOps
<1>3. /\ IsSeq(tasks) /\ Len(tasks) = 3 /\ tasks[3] = Rest("operate", Node)
      /\ tasks[1] = Convert(Node.left) /\ tasks[2] = Convert(Node.right)
  BY TupleIsSeq
<1>4. Compares(tasks[3]) /\ tasks[3].do = "operate"
  BY <1>3 DEF Compares, Rest, Task
<1>5. Hushed(tasks[1]) /\ Hushed(tasks[2])
  BY <1>2, <1>3, ConvertHushed
<1>. HIDE DEF tasks
<1>6. DOMAIN tasks = {1, 2, 3}
  <2>1. DOMAIN tasks = 1 .. 3
    BY <1>3, SeqOfItsElements
  <2>. QED
    BY <2>1
<1>7. QuietTasks(tasks)
  BY <1>3, <1>4, <1>5, <1>6 DEF QuietTasks, Hushed
<1>8. PICK p : Phase(p) /\ Labelled(p)
  BY <1>1 DEF LabelsInv
<1>9. p = 2
  <2>1. Compares(Task1)
    BY <1>1 DEF Compares, Node
  <2>2. ~ Hushed(Task1)
    BY <1>1 DEF Disciplined, OneComparisonEach, Hushed, Node
  <2>3. ~ Decides(Task1)
    BY <1>1 DEF Decides
  <2>. QED
    BY <1>1, <1>8, <2>1, <2>2, <2>3, PhaseHead DEF Calm
<1>10. \A i \in 1 .. Len(tasks) - 1 : Hushed(tasks[i])
  <2>1. \A i \in 1 .. 3 - 1 : i \in {1, 2}
    OBVIOUS
  <2>. QED
    BY <1>3, <1>5, <2>1
<1>11. Len(tasks) > 0 /\ Compares(tasks[Len(tasks)])
  BY <1>3, <1>4
<1>12. PICK q : q > 1 /\ q \in Nat /\ Phase(q)'
  <2>1. /\ p > 1
        /\ IF p = 2 THEN /\ Len(tasks) > 0 /\ Compares(tasks[Len(tasks)])
                         /\ \A i \in 1 .. Len(tasks) - 1 : Hushed(tasks[i])
                    ELSE \A i \in 1 .. Len(tasks) : Hushed(tasks[i])
    BY <1>9, <1>10, <1>11
  <2>2. \E q : q > 1 /\ q \in Nat /\ Phase(q)'
    BY <1>1, <1>3, <1>8, <2>1, PhaseOn
  <2>. QED
    BY <2>2
<1>13. Labelled(q)'
  <2>1. p # 1 /\ q # 1
    BY <1>9, <1>12
  <2>2. Task1.do # "print"
    BY <1>1
  <2>. QED
    BY <1>1, <1>7, <1>8, <2>1, <2>2, NothingWritten, LabelledQuiet
<1>. QED
  BY <1>1, <1>12, <1>13, StillLabelled

(* The comparison takes the label it jumps to.                             *)
LEMMA OperateLabels ==
  ASSUME Disciplined, TypedInv, LabelsInv, Operate, Node.type \in Comparisons
  PROVE  LabelsInv'
<1>. DEFINE lines == <<JumpNext(Node.type, curLabel)>>
<1>1. /\ status = "converting" /\ status' = "converting" /\ agenda # <<>> /\ Task1.do = "operate"
      /\ Go(<<>>) /\ code' = code \o lines /\ curLabel' = curLabel + 1 /\ IsSeq(agenda)
      /\ curLabel \in Nat
  BY DEF Operate, Doing, Write, TypedInv
<1>2. PICK p : Phase(p) /\ Labelled(p)
  BY <1>1 DEF LabelsInv
<1>3. p = 2
  <2>1. Compares(Task1) /\ ~ Hushed(Task1) /\ ~ Decides(Task1)
    BY <1>1 DEF Compares, Node, Hushed, Decides
  <2>. QED
    BY <1>1, <1>2, <2>1, PhaseHead DEF Calm
<1>4. Phase(1)'
  BY <1>1, <1>2, <1>3, PhaseTaken
<1>5. /\ IsSeq(lines) /\ Once(lines) /\ (\A n : ~ Puts(lines, n)) /\ JumpsLand(lines, curLabel')
      /\ QuietTasks(<<>>) /\ IsSeq(<<>>)
  <2>1. curLabel \in 0 .. curLabel' - 1
    BY <1>1
  <2>. QED
    BY <2>1, TextGives, TupleIsSeq DEF QuietTasks
<1>. HIDE DEF lines
<1>6. GivenOnce(lines, <<>>) /\ (\A n : ~ Given(lines, <<>>, n)) /\ AllLand(lines, <<>>, curLabel')
  BY <1>5, LinesGive
<1>7. \A n : Given(code, Tail(agenda), n) <=> n \in 0 .. curLabel - 1
  <2>1. Task1.do # "print" /\ p # 1
    BY <1>1, <1>3
  <2>. QED
    BY <1>1, <1>2, <2>1, LabelledTail
<1>8. \A n : n \in 0 .. curLabel - 1 <=> n \in 0 .. curLabel' - 1 /\ n # curLabel' - 1
  BY <1>1
<1>9. Labelled(1)'
  BY <1>1, <1>2, <1>5, <1>6, <1>7, <1>8, LabelledStep
<1>. QED
  BY <1>1, <1>4, <1>9, StillLabelled

(* A statement and a function are no part of a condition.                  *)
LEMMA NoCondition ==
  ASSUME Disciplined, TypedInv, Doing("convert"), Node.type \in {"IF", "WHILE", "DEFINE"},
         NEW p, Phase(p)
  PROVE  p = 0
<1>1. agenda # <<>> /\ Task1.do = "convert" /\ IsSeq(agenda)
  BY DEF Doing, TypedInv
<1>2. ~ Decides(Task1) /\ ~ Compares(Task1)
  BY <1>1 DEF Decides, Compares, Node, Comparisons
<1>3. ~ Hushed(Task1)
  BY <1>1 DEF Hushed, Node, Disciplined, TreesGiven, Trees, Expression, BinaryOps, Comparisons
<1>. QED
  BY <1>1, <1>2, <1>3, PhaseHead

LEMMA ConditionCompares ==
  ASSUME Disciplined, NEW c \in Conditions
  PROVE  Compares(Convert(c)) /\ Convert(c).do = "convert"
BY DEF Disciplined, OneComparisonEach, Compares, Convert, Task

LEMMA PairQuiet ==
  ASSUME NEW c, NEW d, c.do # "print", d.do # "print"
  PROVE  QuietTasks(<<c, d>>)
<1>1. DOMAIN <<c, d>> = {1, 2} /\ <<c, d>>[1] = c /\ <<c, d>>[2] = d
  OBVIOUS
<1>. QED
  BY <1>1, TupleIsSeq DEF QuietTasks

LEMMA IfLabels ==
  ASSUME Disciplined, TypedInv, LabelsInv, ConvertIf
  PROVE  LabelsInv'
<1>1. /\ status = "converting" /\ status' = "converting" /\ agenda # <<>>
      /\ Task1.do = "convert" /\ Doing("convert") /\ Node.type = "IF"
      /\ Go(<<Convert(Node.cond), Rest("decide", Node)>>) /\ curLabel' = curLabel
      /\ UNCHANGED code /\ IsSeq(agenda)
  BY DEF ConvertIf, Converting, Doing, TypedInv
<1>2. Node.cond \in Conditions
  <2>1. Statement(Node, Expressions, Conditions, Statements) /\ Node.type = "IF"
    BY <1>1, NodeFits
    DEF Disciplined, Expression, Condition, Statement, TopLevel, BinaryOps, Comparisons
  <2>. QED
    BY <2>1 DEF Statement, Expression, BinaryOps, Comparisons
<1>3. Compares(Convert(Node.cond)) /\ Convert(Node.cond).do = "convert"
  BY <1>2, ConditionCompares
<1>4. Decides(Rest("decide", Node)) /\ Rest("decide", Node).do = "decide"
  BY DEF Decides, Rest, Task
<1>5. PICK p : Phase(p) /\ Labelled(p)
  BY <1>1 DEF LabelsInv
<1>6. p = 0
  BY <1>1, <1>5, NoCondition
<1>7. Phase(2)'
  BY <1>1, <1>3, <1>4, <1>5, <1>6, PhaseBegins
<1>8. QuietTasks(<<Convert(Node.cond), Rest("decide", Node)>>)
  BY <1>3, <1>4, PairQuiet
<1>9. Labelled(2)'
  <2>1. p = 1 <=> 2 = 1
    BY <1>6
  <2>. QED
    BY <1>1, <1>5, <1>8, <2>1, NothingWritten, LabelledQuiet
<1>. QED
  BY <1>1, <1>7, <1>9, StillLabelled

(* The while takes the label of its head.                                  *)
LEMMA WhileLabels ==
  ASSUME Disciplined, TypedInv, LabelsInv, ConvertWhile
  PROVE  LabelsInv'
<1>. DEFINE lines == <<MarkNext(curLabel)>>
            tasks == <<Convert(Node.cond), Rest("loop", Node)>>
<1>1. /\ status = "converting" /\ status' = "converting" /\ agenda # <<>>
      /\ Task1.do = "convert" /\ Doing("convert") /\ Node.type = "WHILE"
      /\ Go(tasks) /\ curLabel' = curLabel + 1
      /\ code' = code \o lines /\ IsSeq(agenda) /\ curLabel \in Nat
  BY DEF ConvertWhile, Converting, Doing, TypedInv, Write
<1>2. Node.cond \in Conditions
  <2>1. Statement(Node, Expressions, Conditions, Statements) /\ Node.type = "WHILE"
    BY <1>1, NodeFits
    DEF Disciplined, Expression, Condition, Statement, TopLevel, BinaryOps, Comparisons
  <2>. QED
    BY <2>1 DEF Statement, Expression, BinaryOps, Comparisons
<1>3. Compares(Convert(Node.cond)) /\ Convert(Node.cond).do = "convert"
  BY <1>2, ConditionCompares
<1>4. Decides(Rest("loop", Node)) /\ Rest("loop", Node).do = "loop"
  BY DEF Decides, Rest, Task
<1>5. PICK p : Phase(p) /\ Labelled(p)
  BY <1>1 DEF LabelsInv
<1>6. p = 0
  BY <1>1, <1>5, NoCondition
<1>7. Phase(2)'
  <2>1. curLabel' > 0
    BY <1>1
  <2>. QED
    BY <1>1, <1>3, <1>4, <1>5, <1>6, <2>1, PhaseBegins
<1>8. QuietTasks(tasks) /\ IsSeq(tasks)
  BY <1>3, <1>4, PairQuiet, TupleIsSeq
<1>9. /\ IsSeq(lines) /\ Once(lines) /\ (\A n : Puts(lines, n) <=> n = curLabel)
      /\ JumpsLand(lines, curLabel')
  BY TextGives, TupleIsSeq
<1>. HIDE DEF lines, tasks
<1>10. /\ GivenOnce(lines, tasks) /\ (\A n : Given(lines, tasks, n) <=> n = curLabel)
       /\ AllLand(lines, tasks, curLabel')
  BY <1>8, <1>9, LinesGive
<1>11. \A n : Given(code, Tail(agenda), n) <=> n \in 0 .. curLabel - 1
  <2>1. Task1.do # "print" /\ p # 1
    BY <1>1, <1>6
  <2>. QED
    BY <1>1, <1>5, <2>1, LabelledTail
<1>12. /\ \A n : n \in 0 .. curLabel - 1 \/ n = curLabel <=> n \in 0 .. curLabel' - 1
       /\ ~ (curLabel \in 0 .. curLabel - 1) /\ 2 # 1
  BY <1>1
<1>13. Labelled(2)'
  BY <1>1, <1>5, <1>8, <1>9, <1>10, <1>11, <1>12, LabelledStep
<1>. QED
  BY <1>1, <1>7, <1>13, StillLabelled

(* What is left of a condition that has been converted.                    *)
LEMMA ConditionDone ==
  ASSUME TypedInv, status = "converting", agenda # <<>>, Decides(Task1), NEW p, Phase(p)
  PROVE  /\ p = 1 /\ curLabel > 0 /\ (Task1.do = "loop" => curLabel > 1)
         /\ Task1.do # "print"
<1>1. IsSeq(agenda)
  BY DEF TypedInv
<1>2. ~ Calm(Task1) /\ ~ Compares(Task1) /\ ~ Hushed(Task1) /\ Task1.do # "print"
  BY DEF Decides, Calm, Compares, Hushed
<1>3. p = 1 /\ Task1 = agenda[1]
  BY <1>1, <1>2, PhaseHead
<1>. QED
  BY <1>2, <1>3 DEF Phase

(* The statements of a body are calm, and quiet.                           *)
LEMMA BodyCalm ==
  ASSUME Disciplined, NEW ns \in Seq(Statements)
  PROVE  /\ IsSeq(ConvertAll(ns)) /\ QuietTasks(ConvertAll(ns))
         /\ \A i \in DOMAIN ConvertAll(ns) : Calm(ConvertAll(ns)[i])
         /\ IsSeq(Required(ns)) /\ QuietTasks(Required(ns))
         /\ \A i \in DOMAIN Required(ns) : Calm(Required(ns)[i])
<1>1. /\ IsSeq(ConvertAll(ns)) /\ QuietTasks(ConvertAll(ns))
      /\ \A i \in DOMAIN ConvertAll(ns) : Calm(ConvertAll(ns)[i])
  <2>. DEFINE T == {Convert(n) : n \in Statements}
  <2>1. ConvertAll(ns) \in Seq(T)
    BY DEF ConvertAll
  <2>2. \A t \in T : Calm(t) /\ t.do # "print"
    BY DEF Calm, Compares, Decides, Convert, Task, Disciplined, OneComparisonEach
  <2>3. IsSeq(ConvertAll(ns))
    BY <2>1, SeqIs
  <2>. HIDE DEF T
  <2>. QED
    BY <2>1, <2>2, <2>3 DEF QuietTasks
<1>2. DOMAIN <<Rest("abort", NoNode)>> = {1} /\ <<Rest("abort", NoNode)>>[1] = Rest("abort", NoNode)
  OBVIOUS
<1>3. Calm(Rest("abort", NoNode)) /\ Rest("abort", NoNode).do # "print"
  BY DEF Calm, Compares, Decides, Rest, Task
<1>4. IsSeq(<<Rest("abort", NoNode)>>) /\ QuietTasks(<<Rest("abort", NoNode)>>)
  BY <1>2, <1>3, TupleIsSeq DEF QuietTasks
<1>. QED
  BY <1>1, <1>2, <1>3, <1>4 DEF Required

LEMMA CalmJoined ==
  ASSUME NEW s, IsSeq(s), \A i \in DOMAIN s : Calm(s[i]),
         NEW t, IsSeq(t), \A i \in DOMAIN t : Calm(t[i])
  PROVE  IsSeq(s \o t) /\ \A i \in DOMAIN (s \o t) : Calm((s \o t)[i])
BY Joined, JoinedIndex

LEMMA EmitCalm ==
  ASSUME NEW lines
  PROVE  /\ IsSeq(<<Emit(lines)>>)
         /\ \A i \in DOMAIN <<Emit(lines)>> : Calm(<<Emit(lines)>>[i])
<1>1. DOMAIN <<Emit(lines)>> = {1} /\ <<Emit(lines)>>[1] = Emit(lines)
  OBVIOUS
<1>2. Calm(Emit(lines))
  BY DEF Calm, Compares, Decides, Emit, Task
<1>. QED
  BY <1>1, <1>2, TupleIsSeq

LEMMA QuietTasksNothing ==
  ASSUME NEW s, QuietTasks(s)
  PROVE  /\ IsSeq(s) /\ GivenOnce(<<>>, s) /\ (\A n : ~ Given(<<>>, s, n))
         /\ \A N : AllLand(<<>>, s, N)
<1>1. Quiet(<<>>) /\ IsSeq(s)
  BY QuietTuple DEF QuietTasks
<1>. QED
  BY <1>1, QuietTasksGive

(* The if takes a label for the end of its else branch, and gives it and   *)
(* that of its comparison.                                                 *)
LEMMA DecideLabels ==
  ASSUME Disciplined, TypedInv, LabelsInv, Decide
  PROVE  LabelsInv'
<1>. DEFINE middle == <<JumpNext("JMP", curLabel), MarkNext(curLabel - 1)>>
            last   == <<MarkNext(curLabel)>>
            orElse == ConvertAll(Node.else)
            then   == Required(Node.then)
            tasks  == orElse \o <<Emit(middle)>> \o then \o <<Emit(last)>>
<1>1. /\ status = "converting" /\ status' = "converting" /\ agenda # <<>>
      /\ Task1.do = "decide" /\ Doing("decide") /\ Go(tasks) /\ curLabel' = curLabel + 1
      /\ UNCHANGED code /\ IsSeq(agenda) /\ curLabel \in Nat
  BY DEF Decide, Doing, TypedInv
<1>2. PICK p : Phase(p) /\ Labelled(p)
  BY <1>1 DEF LabelsInv
<1>3. p = 1 /\ curLabel > 0 /\ Task1.do # "print"
  BY <1>1, <1>2, ConditionDone DEF Decides
<1>4. Node.then \in Seq(Statements) /\ Node.else \in Seq(Statements)
  <2>1. Inner(Task1)
    BY <1>1, HeadTask DEF Outer
  <2>. QED
    BY <1>1, <2>1 DEF Inner, Node
<1>5. /\ IsSeq(orElse) /\ QuietTasks(orElse) /\ \A i \in DOMAIN orElse : Calm(orElse[i])
      /\ IsSeq(then) /\ QuietTasks(then) /\ \A i \in DOMAIN then : Calm(then[i])
  BY <1>4, BodyCalm
<1>6. /\ Once(middle) /\ (\A m : Puts(middle, m) <=> m = curLabel - 1) /\ JumpsLand(middle, curLabel')
      /\ Once(last) /\ (\A m : Puts(last, m) <=> m = curLabel) /\ JumpsLand(last, curLabel')
  <2>1. curLabel \in 0 .. curLabel' - 1
    BY <1>1
  <2>. QED
    BY <2>1, JumpAndMark, TextGives
<1>. HIDE DEF middle, last, orElse, then
<1>7. /\ IsSeq(orElse) /\ GivenOnce(<<>>, orElse) /\ (\A n : ~ Given(<<>>, orElse, n))
      /\ AllLand(<<>>, orElse, curLabel')
      /\ IsSeq(then) /\ GivenOnce(<<>>, then) /\ (\A n : ~ Given(<<>>, then, n))
      /\ AllLand(<<>>, then, curLabel')
  BY <1>5, QuietTasksNothing
<1>8. /\ IsSeq(<<Emit(middle)>>) /\ GivenOnce(<<>>, <<Emit(middle)>>)
      /\ (\A n : Given(<<>>, <<Emit(middle)>>, n) <=> n = curLabel - 1)
      /\ AllLand(<<>>, <<Emit(middle)>>, curLabel')
      /\ IsSeq(<<Emit(last)>>) /\ GivenOnce(<<>>, <<Emit(last)>>)
      /\ (\A n : Given(<<>>, <<Emit(last)>>, n) <=> n = curLabel)
      /\ AllLand(<<>>, <<Emit(last)>>, curLabel')
  BY <1>6, EmitGives
<1>. DEFINE first == orElse \o <<Emit(middle)>>
            three == first \o then
<1>9. /\ IsSeq(first) /\ GivenOnce(<<>>, first) /\ (\A n : Given(<<>>, first, n) <=> n = curLabel - 1)
      /\ AllLand(<<>>, first, curLabel') /\ \A i \in DOMAIN first : Calm(first[i])
  <2>1. IsSeq(first) /\ \A i \in DOMAIN first : Calm(first[i])
    BY <1>5, EmitCalm, CalmJoined
  <2>2. /\ GivenOnce(<<>>, first) /\ AllLand(<<>>, first, curLabel')
        /\ \A n : Given(<<>>, first, n) <=> Given(<<>>, orElse, n) \/ Given(<<>>, <<Emit(middle)>>, n)
    BY <1>7, <1>8, TasksJoined
  <2>. QED
    BY <1>7, <1>8, <2>1, <2>2
<1>. HIDE DEF first
<1>10. /\ IsSeq(three) /\ GivenOnce(<<>>, three) /\ (\A n : Given(<<>>, three, n) <=> n = curLabel - 1)
       /\ AllLand(<<>>, three, curLabel') /\ \A i \in DOMAIN three : Calm(three[i])
  <2>1. IsSeq(three) /\ \A i \in DOMAIN three : Calm(three[i])
    BY <1>5, <1>9, CalmJoined
  <2>2. /\ GivenOnce(<<>>, three) /\ AllLand(<<>>, three, curLabel')
        /\ \A n : Given(<<>>, three, n) <=> Given(<<>>, first, n) \/ Given(<<>>, then, n)
    BY <1>7, <1>9, TasksJoined
  <2>. QED
    BY <1>7, <1>9, <2>1, <2>2
<1>11. tasks = three \o <<Emit(last)>>
  BY DEF first
<1>. HIDE DEF three, tasks
<1>12. /\ IsSeq(tasks) /\ GivenOnce(<<>>, tasks) /\ AllLand(<<>>, tasks, curLabel')
       /\ (\A n : Given(<<>>, tasks, n) <=> n = curLabel - 1 \/ n = curLabel)
       /\ \A i \in DOMAIN tasks : Calm(tasks[i])
  <2>1. IsSeq(tasks) /\ \A i \in DOMAIN tasks : Calm(tasks[i])
    BY <1>10, <1>11, EmitCalm, CalmJoined
  <2>2. \A n : ~ (Given(<<>>, three, n) /\ Given(<<>>, <<Emit(last)>>, n))
    <3>1. curLabel - 1 # curLabel
      BY <1>1
    <3>. QED
      BY <1>8, <1>10, <3>1
  <2>3. /\ GivenOnce(<<>>, tasks) /\ AllLand(<<>>, tasks, curLabel')
        /\ \A n : Given(<<>>, tasks, n) <=> Given(<<>>, three, n) \/ Given(<<>>, <<Emit(last)>>, n)
    BY <1>8, <1>10, <1>11, <2>2, TasksJoined
  <2>. QED
    BY <1>8, <1>10, <2>1, <2>3
<1>13. Phase(0)'
  BY <1>1, <1>2, <1>3, <1>12, PhaseCalm
<1>14. \A n : Given(code, Tail(agenda), n) <=> n \in 0 .. curLabel - 1 /\ n # curLabel - 1
  BY <1>1, <1>2, <1>3, LabelledTail
<1>15. /\ \A n : (n \in 0 .. curLabel - 1 /\ n # curLabel - 1) \/ n = curLabel - 1 \/ n = curLabel
               <=> n \in 0 .. curLabel' - 1
       /\ ~ (curLabel \in 0 .. curLabel - 1) /\ 0 # 1
  BY <1>1, <1>3
<1>16. Labelled(0)'
  <2>1. IsSeq(<<>>) /\ code' = code \o <<>>
    BY <1>1, NothingWritten, TupleIsSeq
  <2>2. \A n : ~ (Given(code, Tail(agenda), n) /\ Given(<<>>, tasks, n))
    BY <1>12, <1>14, <1>15
  <2>3. \A n : Given(code, Tail(agenda), n) \/ Given(<<>>, tasks, n)
              <=> n \in 0 .. curLabel' - 1 /\ ~ (0 = 1 /\ n = curLabel' - 1)
    BY <1>12, <1>14, <1>15
  <2>. QED
    BY <1>1, <1>2, <1>12, <2>1, <2>2, <2>3, LabelledStep
<1>. QED
  BY <1>1, <1>13, <1>16, StillLabelled

(* The while takes the label it is left by, and jumps back to its head.    *)
LEMMA LoopLabels ==
  ASSUME Disciplined, TypedInv, LabelsInv, Loop
  PROVE  LabelsInv'
<1>. DEFINE lines == <<JumpNext("JMP", curLabel), MarkNext(curLabel - 1)>>
            last  == <<JumpNext("JMP", curLabel - 2), MarkNext(curLabel)>>
            body  == Required(Node.body)
            tasks == body \o <<Emit(last)>>
<1>1. /\ status = "converting" /\ status' = "converting" /\ agenda # <<>>
      /\ Task1.do = "loop" /\ Doing("loop") /\ Go(tasks) /\ curLabel' = curLabel + 1
      /\ code' = code \o lines /\ IsSeq(agenda) /\ curLabel \in Nat
  BY DEF Loop, Doing, TypedInv, Write
<1>2. PICK p : Phase(p) /\ Labelled(p)
  BY <1>1 DEF LabelsInv
<1>3. p = 1 /\ curLabel > 1 /\ Task1.do # "print"
  BY <1>1, <1>2, ConditionDone DEF Decides
<1>4. Node.body \in Seq(Statements)
  <2>1. Inner(Task1)
    BY <1>1, HeadTask DEF Outer
  <2>. QED
    BY <1>1, <2>1 DEF Inner, Node
<1>5. IsSeq(body) /\ QuietTasks(body) /\ \A i \in DOMAIN body : Calm(body[i])
  BY <1>4, BodyCalm
<1>6. /\ Once(lines) /\ (\A m : Puts(lines, m) <=> m = curLabel - 1) /\ JumpsLand(lines, curLabel')
      /\ Once(last) /\ (\A m : Puts(last, m) <=> m = curLabel) /\ JumpsLand(last, curLabel')
      /\ IsSeq(lines)
  <2>1. curLabel \in 0 .. curLabel' - 1 /\ curLabel - 2 \in 0 .. curLabel' - 1
    BY <1>1, <1>3
  <2>. QED
    BY <2>1, JumpAndMark, TupleIsSeq
<1>. HIDE DEF lines, last, body
<1>7. /\ IsSeq(body) /\ GivenOnce(<<>>, body) /\ (\A n : ~ Given(<<>>, body, n))
      /\ AllLand(<<>>, body, curLabel')
  BY <1>5, QuietTasksNothing
<1>8. /\ IsSeq(<<Emit(last)>>) /\ GivenOnce(<<>>, <<Emit(last)>>)
      /\ (\A n : Given(<<>>, <<Emit(last)>>, n) <=> n = curLabel)
      /\ AllLand(<<>>, <<Emit(last)>>, curLabel')
  BY <1>6, EmitGives
<1>9. /\ IsSeq(tasks) /\ GivenOnce(<<>>, tasks) /\ AllLand(<<>>, tasks, curLabel')
      /\ (\A n : Given(<<>>, tasks, n) <=> n = curLabel)
      /\ \A i \in DOMAIN tasks : Calm(tasks[i])
  <2>1. IsSeq(tasks) /\ \A i \in DOMAIN tasks : Calm(tasks[i])
    BY <1>5, EmitCalm, CalmJoined
  <2>2. /\ GivenOnce(<<>>, tasks) /\ AllLand(<<>>, tasks, curLabel')
        /\ \A n : Given(<<>>, tasks, n) <=> Given(<<>>, body, n) \/ Given(<<>>, <<Emit(last)>>, n)
    BY <1>7, <1>8, TasksJoined
  <2>. QED
    BY <1>7, <1>8, <2>1, <2>2
<1>. HIDE DEF tasks
<1>10. Phase(0)'
  BY <1>1, <1>2, <1>3, <1>9, PhaseCalm
<1>11. /\ GivenOnce(lines, <<>>) /\ (\A n : Given(lines, <<>>, n) <=> n = curLabel - 1)
       /\ AllLand(lines, <<>>, curLabel') /\ IsSeq(<<>>)
  <2>1. QuietTasks(<<>>) /\ IsSeq(<<>>)
    BY TupleIsSeq DEF QuietTasks
  <2>. QED
    BY <1>6, <2>1, LinesGive
<1>12. /\ GivenOnce(lines, tasks) /\ AllLand(lines, tasks, curLabel')
       /\ \A n : Given(lines, tasks, n) <=> n = curLabel - 1 \/ n = curLabel
  <2>1. lines \o <<>> = lines /\ tasks \o <<>> = tasks
    BY <1>6, <1>9, SeqOfItsElements, ConcatEmptySeq
  <2>2. \A n : ~ (Given(lines, <<>>, n) /\ Given(<<>>, tasks, n))
    <3>1. curLabel - 1 # curLabel
      BY <1>1
    <3>. QED
      BY <1>9, <1>11, <3>1
  <2>3. /\ GivenOnce(lines \o <<>>, tasks \o <<>>)
        /\ \A n : Given(lines \o <<>>, tasks \o <<>>, n)
                 <=> Given(lines, <<>>, n) \/ Given(<<>>, tasks, n)
    BY <1>6, <1>9, <1>11, <2>2, GivenJoined
  <2>4. AllLand(lines \o <<>>, tasks \o <<>>, curLabel')
    BY <1>6, <1>9, <1>11, AllLandJoined
  <2>. QED
    BY <1>9, <1>11, <2>1, <2>3, <2>4
<1>13. \A n : Given(code, Tail(agenda), n) <=> n \in 0 .. curLabel - 1 /\ n # curLabel - 1
  BY <1>1, <1>2, <1>3, LabelledTail
<1>14. /\ \A n : (n \in 0 .. curLabel - 1 /\ n # curLabel - 1) \/ n = curLabel - 1 \/ n = curLabel
               <=> n \in 0 .. curLabel' - 1
       /\ ~ (curLabel \in 0 .. curLabel - 1) /\ 0 # 1
  BY <1>1, <1>3
<1>15. Labelled(0)'
  <2>1. \A n : ~ (Given(code, Tail(agenda), n) /\ Given(lines, tasks, n))
    BY <1>12, <1>13, <1>14
  <2>2. \A n : Given(code, Tail(agenda), n) \/ Given(lines, tasks, n)
              <=> n \in 0 .. curLabel' - 1 /\ ~ (0 = 1 /\ n = curLabel' - 1)
    BY <1>12, <1>13, <1>14
  <2>. QED
    BY <1>1, <1>2, <1>6, <1>9, <1>12, <2>1, <2>2, LabelledStep
<1>. QED
  BY <1>1, <1>10, <1>15, StillLabelled

(* Lines that were due are written: the labels given stay the same.        *)
LEMMA PrintLabels ==
  ASSUME Disciplined, TypedInv, LabelsInv, PrintLines
  PROVE  LabelsInv'
<1>. DEFINE lines == Task1.lines
<1>1. /\ status = "converting" /\ status' = "converting" /\ agenda # <<>>
      /\ Task1.do = "print" /\ Go(<<>>) /\ curLabel' = curLabel
      /\ code' = code \o lines /\ IsSeq(agenda) /\ curLabel \in Nat
  BY DEF PrintLines, Doing, TypedInv, Write
<1>2. PICK p : Phase(p) /\ Labelled(p)
  BY <1>1 DEF LabelsInv
<1>3. IsSeq(lines)
  <2>1. Inner(Task1)
    BY <1>1, HeadTask DEF Outer
  <2>. QED
    BY <1>1, <2>1 DEF Inner, PlainSeq
<1>4. IsSeq(<<>>) /\ Len(<<>>) = 0 /\ DOMAIN <<>> = {} /\ QuietTasks(<<>>)
  BY TupleIsSeq DEF QuietTasks
<1>5. p \in Nat /\ p # 1 /\ p # 2 /\ Task1 = agenda[1] /\ 1 \in DOMAIN agenda
  <2>1. ~ Decides(Task1) /\ ~ Compares(Task1)
    BY <1>1 DEF Decides, Compares
  <2>2. Task1 = agenda[1] /\ 1 \in 1 .. Len(agenda) /\ p \in Nat /\ p # 1 /\ p # 2
    BY <1>1, <1>2, <2>1, PhaseHead
  <2>. QED
    BY <1>1, <2>2, SeqOfItsElements
<1>6. Once(lines) /\ JumpsLand(lines, curLabel')
  BY <1>1, <1>2, <1>5 DEF Labelled, GivenOnce, AllLand
<1>7. \A n : Puts(lines, n) <=> DueIn(Task1, n)
  BY <1>1 DEF DueIn
<1>8. \E q : q # 1 /\ Phase(q)'
  <2>1. CASE p = 0
    <3>1. Phase(0)'
      BY <1>1, <1>2, <1>4, <2>1, PhaseCalm
    <3>. QED
      BY <3>1
  <2>2. CASE p # 0
    <3>1. /\ p > 1
          /\ IF p = 2 THEN /\ Len(<<>>) > 0 /\ Compares(<<>>[Len(<<>>)])
                           /\ \A i \in 1 .. Len(<<>>) - 1 : Hushed(<<>>[i])
                      ELSE \A i \in 1 .. Len(<<>>) : Hushed(<<>>[i])
      BY <1>4, <1>5, <2>2
    <3>2. \E q : q > 1 /\ q \in Nat /\ Phase(q)'
      BY <1>1, <1>2, <1>4, <3>1, PhaseOn
    <3>. QED
      BY <3>2
  <2>. QED
    BY <2>1, <2>2
<1>9. PICK q : q # 1 /\ Phase(q)'
  BY <1>8
<1>. HIDE DEF lines
<1>10. /\ GivenOnce(lines, <<>>) /\ (\A n : Given(lines, <<>>, n) <=> DueIn(Task1, n))
       /\ AllLand(lines, <<>>, curLabel')
  BY <1>4, <1>6, <1>7, LinesGive
<1>11. /\ \A n : ~ (Given(code, Tail(agenda), n) /\ DueIn(Task1, n))
       /\ \A n : Given(code, Tail(agenda), n) \/ DueIn(Task1, n)
                <=> n \in 0 .. curLabel' - 1 /\ ~ (q = 1 /\ n = curLabel' - 1)
  BY <1>1, <1>2, <1>5, <1>9, LabelledTail
<1>12. Labelled(q)'
  BY <1>1, <1>2, <1>3, <1>4, <1>10, <1>11, LabelledStep
<1>. QED
  BY <1>1, <1>9, <1>12, StillLabelled

(* A function begins and ends.                                             *)
LEMMA DefineLabels ==
  ASSUME Disciplined, TypedInv, LabelsInv, ConvertDefine
  PROVE  LabelsInv'
<1>. DEFINE table == ParameterTable(Node.params)
            body  == Required(Node.body)
            tasks == body \o <<Rest("leave", Node)>>
            start == <<Mark("MAIN"), CmdName("PUSH", "ex"), CmdInt("PUSH", 1),
                       Cmd("ADD"), CmdName("POP", "ex")>>
            entry == <<Mark(Node.func)>> \o Prologue(Node.params, table)
<1>1. /\ status = "converting" /\ status' = "converting" /\ agenda # <<>>
      /\ Task1.do = "convert" /\ Doing("convert") /\ Node.type = "DEFINE"
      /\ Converting({"DEFINE"}) /\ curLabel' = curLabel /\ IsSeq(agenda)
  BY DEF ConvertDefine, Converting, Doing, TypedInv
<1>2. PICK p : Phase(p) /\ Labelled(p)
  BY <1>1 DEF LabelsInv
<1>3. p = 0
  BY <1>1, <1>2, NoCondition
<1>4. IsSeq(Node.params) /\ Node.body \in Seq(Statements)
  <2>1. TopLevel(Node, Expressions, Statements)
    BY <1>1, DefineHead DEF Disciplined
  <2>. QED
    BY <1>1, <2>1 DEF TopLevel, IsSeq
<1>5. ASSUME NEW lines, Quiet(lines), code' = code \o lines, NEW ts, QuietTasks(ts), Go(ts),
             \A i \in DOMAIN ts : Calm(ts[i])
      PROVE  LabelsInv'
  <2>1. Phase(0)'
    BY <1>1, <1>2, <1>3, <1>5, PhaseCalm DEF QuietTasks
  <2>2. p = 1 <=> 0 = 1
    BY <1>3
  <2>3. Task1.do # "print"
    BY <1>1
  <2>4. Labelled(0)'
    BY <1>1, <1>2, <1>5, <2>2, <2>3, LabelledQuiet
  <2>. QED
    BY <1>1, <2>1, <2>4, StillLabelled
<1>6. QuietTasks(tasks) /\ \A i \in DOMAIN tasks : Calm(tasks[i])
  <2>1. IsSeq(body) /\ QuietTasks(body) /\ \A i \in DOMAIN body : Calm(body[i])
    BY <1>4, BodyCalm
  <2>2. DOMAIN <<Rest("leave", Node)>> = {1} /\ <<Rest("leave", Node)>>[1] = Rest("leave", Node)
    OBVIOUS
  <2>3. Calm(Rest("leave", Node)) /\ Rest("leave", Node).do # "print"
    BY DEF Calm, Compares, Decides, Rest, Task
  <2>4. IsSeq(<<Rest("leave", Node)>>)
    BY TupleIsSeq
  <2>. HIDE DEF body
  <2>5. IsSeq(tasks) /\ \A i \in DOMAIN tasks : Calm(tasks[i])
    BY <2>1, <2>2, <2>3, <2>4, CalmJoined
  <2>6. \A i \in DOMAIN tasks : tasks[i].do = "print" => Quiet(tasks[i].lines)
    BY <2>1, <2>2, <2>3, <2>4, JoinedIndex DEF QuietTasks
  <2>. QED
    BY <2>5, <2>6 DEF QuietTasks
<1>7. Quiet(start)
  <2>1. start = <<Mark("MAIN"), CmdName("PUSH", "ex"), CmdInt("PUSH", 1)>>
                \o <<Cmd("ADD"), CmdName("POP", "ex")>>
    OBVIOUS
  <2>. QED
    BY <2>1, KindsOf, QuietTuple, QuietJoined
<1>8. Quiet(entry)
  <2>1. Table(table)
    BY <1>4, ParametersFit DEF Table
  <2>2. Quiet(Prologue(Node.params, table))
    BY <1>4, <2>1, PrologueAddressed DEF Addressed, Quiet
  <2>. QED
    BY <2>2, KindsOf, QuietTuple, QuietJoined
<1>9. CASE code' = code \o start /\ Go(tasks)
  BY <1>5, <1>6, <1>7, <1>9
<1>10. CASE code' = code \o entry /\ Go(tasks)
  BY <1>5, <1>6, <1>8, <1>10
<1>11. CASE UNCHANGED code /\ Go(<<>>)
  <2>1. QuietTasks(<<>>) /\ \A i \in DOMAIN <<>> : Calm(<<>>[i])
    BY TupleIsSeq DEF QuietTasks
  <2>. QED
    BY <1>5, <1>11, <2>1, NothingWritten
<1>. QED
  BY <1>9, <1>10, <1>11 DEF ConvertDefine, Write

LEMMA LeaveLabels ==
  ASSUME TypedInv, LabelsInv, LeaveDefine
  PROVE  LabelsInv'
<1>1. /\ status = "converting" /\ status' = "converting" /\ agenda # <<>> /\ Task1.do = "leave"
      /\ Go(<<>>) /\ curLabel' = curLabel /\ UNCHANGED code /\ IsSeq(agenda)
  BY DEF LeaveDefine, Doing, TypedInv
<1>2. PICK p : Phase(p) /\ Labelled(p)
  BY <1>1 DEF LabelsInv
<1>3. p = 0
  <2>1. ~ Decides(Task1) /\ ~ Compares(Task1) /\ ~ Hushed(Task1)
    BY <1>1 DEF Decides, Compares, Hushed
  <2>. QED
    BY <1>1, <1>2, <2>1, PhaseHead
<1>4. QuietTasks(<<>>) /\ IsSeq(<<>>) /\ \A i \in DOMAIN <<>> : Calm(<<>>[i])
  BY TupleIsSeq DEF QuietTasks
<1>5. Phase(0)'
  BY <1>1, <1>2, <1>3, <1>4, PhaseCalm
<1>6. Labelled(0)'
  <2>1. (p = 1 <=> 0 = 1) /\ Task1.do # "print"
    BY <1>1, <1>3
  <2>. QED
    BY <1>1, <1>2, <1>4, <2>1, NothingWritten, LabelledQuiet
<1>. QED
  BY <1>1, <1>5, <1>6, StillLabelled

(* Nor is an operator whose left operand is a statement, or a chain of     *)
(* statements that hangs below one.                                        *)
LEMMA StatementLabels ==
  ASSUME Disciplined, TypedInv, LabelsInv, ConvertBinary \/ ConvertStatement,
         Node \notin Expressions, Node.type \notin Comparisons
  PROVE  LabelsInv'
<1>. DEFINE sides == <<Convert(Node.left), Convert(Node.right), Rest("operate", Node)>>
<1>1. /\ status = "converting" /\ status' = "converting" /\ agenda # <<>>
      /\ Task1.do = "convert" /\ Doing("convert") /\ curLabel' = curLabel
      /\ UNCHANGED code /\ IsSeq(agenda)
  BY DEF ConvertBinary, ConvertStatement, Converting, Doing, TypedInv
<1>2. PICK p : Phase(p) /\ Labelled(p)
  BY <1>1 DEF LabelsInv
<1>3. p = 0
  <2>1. ~ Decides(Task1) /\ ~ Compares(Task1) /\ ~ Hushed(Task1)
    BY <1>1 DEF Decides, Compares, Hushed, Node
  <2>. QED
    BY <1>1, <1>2, <2>1, PhaseHead
<1>4. ASSUME NEW tasks, QuietTasks(tasks), Go(tasks), \A i \in DOMAIN tasks : Calm(tasks[i])
      PROVE  LabelsInv'
  <2>1. Phase(0)'
    BY <1>1, <1>2, <1>3, <1>4, PhaseCalm DEF QuietTasks
  <2>2. (p = 1 <=> 0 = 1) /\ Task1.do # "print"
    BY <1>1, <1>3
  <2>3. Labelled(0)'
    BY <1>1, <1>2, <1>4, <2>2, NothingWritten, LabelledQuiet
  <2>. QED
    BY <1>1, <2>1, <2>3, StillLabelled
<1>5. CASE ConvertStatement
  <2>1. Go(ConvertAll(Node.body)) /\ Node.type = "STATEMENT"
    BY <1>5 DEF ConvertStatement, Converting
  <2>2. Node.body \in Seq(Statements)
    BY <1>1, <2>1, StatementFits DEF Disciplined
  <2>. QED
    BY <1>4, <2>1, <2>2, BodyCalm
<1>6. CASE ConvertBinary
  <2>1. Go(sides) /\ Node.type \in BinaryOps
    BY <1>6 DEF ConvertBinary, Converting
  <2>2. Node.left \in Expressions \cup Statements /\ Node.right \in Expressions
    BY <1>1, <2>1, NodeFits DEF Disciplined, Expression, Condition, Statement, TopLevel,
       BinaryOps, Comparisons
  <2>3. /\ Calm(Convert(Node.left)) /\ Convert(Node.left).do # "print"
        /\ Calm(Convert(Node.right)) /\ Convert(Node.right).do # "print"
        /\ Calm(Rest("operate", Node)) /\ Rest("operate", Node).do # "print"
    BY <2>2 DEF Disciplined, OneComparisonEach, Calm, Compares, Decides, Convert, Rest, Task
  <2>4. /\ DOMAIN sides = {1, 2, 3} /\ IsSeq(sides) /\ sides[1] = Convert(Node.left)
        /\ sides[2] = Convert(Node.right) /\ sides[3] = Rest("operate", Node)
    BY TupleIsSeq
  <2>. HIDE DEF sides
  <2>5. QuietTasks(sides) /\ \A i \in DOMAIN sides : Calm(sides[i])
    BY <2>3, <2>4 DEF QuietTasks
  <2>. QED
    BY <1>4, <2>1, <2>5
<1>. QED
  BY <1>5, <1>6

(* Before the functions there are no labels.                               *)
LEMMA GlobalQuiet ==
  ASSUME NEW n, EnterGlobal(n), Quiet(code)
  PROVE  Quiet(code')
<1>1. CASE n.right.type = "CONST"
  BY <1>1, KindsOf, QuietTuple, QuietJoined DEF EnterGlobal
<1>2. CASE n.right.type # "CONST"
  BY <1>2 DEF EnterGlobal
<1>. QED
  BY <1>1, <1>2

LEMMA EarlyLabels ==
  ASSUME LabelsInv, Begin \/ TrailingGlobal \/ LastFunction \/ VisitGlobal \/ VisitOther \/ FirstItem
  PROVE  LabelsInv'
<1>1. /\ status \in {"start", "trailing", "visiting", "calling"}
      /\ status' \notin {"converting", "done"} /\ curLabel' = curLabel
  BY DEF Begin, TrailingGlobal, LastFunction, VisitGlobal, VisitOther, FirstItem
<1>2. Quiet(code) /\ curLabel = 0
  BY <1>1 DEF LabelsInv
<1>3. CASE Begin
  <2>1. Quiet(<<Cmd("CRT"), CmdInt("PUSH", curGlobal), CmdName("POP", "ex")>>)
    BY KindsOf, QuietTuple
  <2>2. Quiet(code')
    BY <1>2, <1>3, <2>1 DEF Begin
  <2>. QED
    BY <1>1, <1>2, <2>2 DEF LabelsInv
<1>4. CASE TrailingGlobal
  <2>1. EnterGlobal(items[at]) \/ UNCHANGED code
    BY <1>4 DEF TrailingGlobal
  <2>2. Quiet(code')
    BY <1>2, <2>1, GlobalQuiet
  <2>. QED
    BY <1>1, <1>2, <2>2 DEF LabelsInv
<1>5. CASE VisitGlobal
  <2>1. EnterGlobal(items[at-1]) \/ UNCHANGED code
    BY <1>5 DEF VisitGlobal
  <2>2. Quiet(code')
    BY <1>2, <2>1, GlobalQuiet
  <2>. QED
    BY <1>1, <1>2, <2>2 DEF LabelsInv
<1>6. CASE LastFunction \/ VisitOther \/ FirstItem
  <2>1. UNCHANGED code
    BY <1>6 DEF LastFunction, VisitOther, FirstItem
  <2>. QED
    BY <1>1, <1>2, <2>1 DEF LabelsInv
<1>. QED
  BY <1>3, <1>4, <1>5, <1>6

LEMMA CallMainLabels ==
  ASSUME Disciplined, TypedInv, LabelsInv, CallMain
  PROVE  LabelsInv'
<1>1. /\ status = "calling" /\ status' = "converting" /\ agenda' = ConvertAll(items)
      /\ code' = code \o <<CmdName("CALL", "MAIN"), Cmd("HLT")>> /\ curLabel' = curLabel
  BY DEF CallMain
<1>2. Quiet(code) /\ curLabel = 0
  BY <1>1 DEF LabelsInv
<1>3. Quiet(code')
  BY <1>1, <1>2, KindsOf, QuietTuple, QuietJoined
<1>4. /\ IsSeq(agenda') /\ \A i \in DOMAIN agenda' : agenda'[i].do # "print" /\ Calm(agenda'[i])
  <2>. DEFINE T == {Convert(n) : n \in ToSet(items)}
  <2>1. items \in Seq(ToSet(items)) /\ \A n \in ToSet(items) : n.type \notin Comparisons
    <3>1. \A i \in DOMAIN items : items[i].type \notin Comparisons
      BY DEF TypedInv, TopLevel, Comparisons
    <3>. QED
      BY <3>1 DEF TypedInv, IsSeq, ToSet
  <2>2. agenda' \in Seq(T)
    BY <1>1, <2>1 DEF ConvertAll
  <2>3. \A t \in T : t.do # "print" /\ Calm(t)
    BY <2>1 DEF Calm, Compares, Decides, Convert, Task
  <2>4. IsSeq(agenda')
    BY <2>2, SeqIs
  <2>. HIDE DEF T
  <2>5. \A i \in DOMAIN agenda' : agenda'[i] \in T
    BY <2>2
  <2>. QED
    BY <2>3, <2>4, <2>5 DEF Calm, Compares, Decides
<1>5. Phase(0)'
  <2>1. Len(agenda') \in Nat /\ DOMAIN agenda' = 1 .. Len(agenda')
    BY <1>4, SeqOfItsElements
  <2>. QED
    BY <1>4, <2>1 DEF Phase, Calm, Compares, Decides, Hushed, Quiet
<1>6. Labelled(0)'
  <2>1. QuietTasks(agenda')
    BY <1>4 DEF QuietTasks
  <2>2. /\ GivenOnce(code', agenda') /\ (\A n : ~ Given(code', agenda', n))
        /\ AllLand(code', agenda', curLabel')
    BY <1>3, <2>1, QuietTasksGive
  <2>3. \A n : ~ (n \in 0 .. curLabel' - 1)
    BY <1>1, <1>2
  <2>. QED
    BY <2>2, <2>3 DEF Labelled
<1>. QED
  BY <1>1, <1>5, <1>6, StillLabelled

LEMMA EndLabels ==
  ASSUME TypedInv, LabelsInv, Abort \/ Close \/ UNCHANGED vars
  PROVE  LabelsInv'
<1>1. CASE Abort
  BY <1>1 DEF Abort, LabelsInv
<1>2. CASE Close
  <2>1. /\ status = "converting" /\ agenda = <<>> /\ status' = "done"
        /\ UNCHANGED <<curLabel, agenda, code>>
    BY <1>2 DEF Close
  <2>2. PICK p : Phase(p) /\ Labelled(p)
    BY <2>1 DEF LabelsInv
  <2>3. p = 0
    BY <2>1, <2>2 DEF Phase
  <2>4. Labelled(0)'
    BY <2>1, <2>2, <2>3 DEF Labelled
  <2>. QED
    BY <2>1, <2>4 DEF LabelsInv
<1>3. CASE UNCHANGED vars
  <2>1. UNCHANGED <<curLabel, agenda, code, status>>
    BY <1>3 DEF vars
  <2>2. \A p : Phase(p) => Phase(p)'
    BY <2>1 DEF Phase, Calm, Compares, Decides, Hushed, Quiet
  <2>3. \A p : Labelled(p) => Labelled(p)'
    BY <2>1 DEF Labelled
  <2>. QED
    BY <2>1, <2>2, <2>3 DEF LabelsInv, Quiet
<1>. QED
  BY <1>1, <1>2, <1>3

LEMMA StepLabels ==
  ASSUME Disciplined, TypedInv, LabelsInv, [Next]_vars
  PROVE  LabelsInv'
<1>1. TreesGiven
  BY DEF Disciplined
<1>2. CASE \/ ConvertReturn \/ ConvertBuiltin \/ ConvertCall \/ PassArgument \/ EmitCall
           \/ Store \/ ConvertVariable \/ ConvertConst \/ ConvertAssign
  <2>1. QuietStep
    BY <1>1, <1>2, ReturnQuiet, BuiltinQuiet, CallQuiet, ArgumentQuiet, FrameQuiet,
       StoreQuiet, VariableQuiet, ConstQuiet, AssignQuiet
  <2>. QED
    BY <2>1, QuietStepLabels
<1>3. CASE ConvertBinary \/ ConvertStatement
  <2>1. CASE Node.type \in Comparisons
    <3>1. ConvertBinary
      BY <1>3, <2>1 DEF ConvertStatement, Converting, Comparisons
    <3>. QED
      BY <2>1, <3>1, ComparisonLabels
  <2>2. CASE Node \in Expressions /\ Node.type \notin Comparisons
    <3>1. ConvertBinary
      BY <1>1, <1>3, <2>2 DEF ConvertStatement, Converting, TreesGiven, Trees, Expression, BinaryOps,
                              Comparisons
    <3>. QED
      BY <1>1, <2>2, <3>1, ArithmeticQuiet, QuietStepLabels
  <2>3. CASE Node \notin Expressions /\ Node.type \notin Comparisons
    BY <1>3, <2>3, StatementLabels
  <2>. QED
    BY <2>1, <2>2, <2>3
<1>4. CASE Operate
  BY <1>1, <1>4, OperateQuiet, QuietStepLabels, OperateLabels
<1>. QED
  BY <1>2, <1>3, <1>4, IfLabels, DecideLabels, WhileLabels, LoopLabels, PrintLabels,
     DefineLabels, LeaveLabels, EarlyLabels, CallMainLabels, EndLabels DEF Next

(* Every label taken is given once, in the text or by a task that is left. *)
THEOREM LabelsInvariant ==
  ASSUME Disciplined
  PROVE  Spec => [](TypedInv /\ Before /\ LabelsInv)
<1>1. TreesGiven
  BY DEF Disciplined
<1>2. Init => TypedInv /\ Before /\ LabelsInv
  <2>1. Init => LabelsInv
    BY QuietTuple DEF Init, Idle, LabelsInv
  <2>. QED
    BY <1>1, <2>1, InitTyped
<1>3. TypedInv /\ Before /\ LabelsInv /\ [Next]_vars => (TypedInv /\ Before /\ LabelsInv)'
  BY <1>1, StepTyped, StepLabels
<1>. QED
  BY <1>2, <1>3, PTL DEF Spec

LEMMA AllLabelsLand == ASSUME TypedInv, LabelsInv PROVE LabelsLand
<1>. SUFFICES ASSUME status = "done", NEW i \in DOMAIN code, ~code[i].colon, code[i].kind = "next"
              PROVE  \E j \in DOMAIN code :
                       {k \in DOMAIN code : code[k] = MarkNext(code[i].value)} = {j}
  BY DEF LabelsLand
<1>1. Labelled(0) /\ agenda = <<>>
  BY DEF LabelsInv, TypedInv
<1>2. code[i].value \in 0 .. curLabel - 1
  BY <1>1 DEF Labelled, AllLand, JumpsLand
<1>3. Puts(code, code[i].value)
  <2>1. Given(code, agenda, code[i].value)
    BY <1>1, <1>2 DEF Labelled
  <2>2. ~ Due(agenda, code[i].value)
    BY <1>1, TupleIsSeq DEF Due
  <2>. QED
    BY <2>1, <2>2 DEF Given
<1>4. PICK j \in DOMAIN code : code[j] = MarkNext(code[i].value)
  BY <1>3 DEF Puts
<1>5. Once(code)
  BY <1>1 DEF Labelled, GivenOnce
<1>. QED
  BY <1>4, <1>5 DEF Once

(* When every condition is one comparison, and there are no others, every  *)
(* generated jump has one label to go to.                                  *)
THEOREM JumpsHaveTheirLabels == ASSUME Disciplined PROVE Spec => []LabelsLand
<1>1. TypedInv /\ Before /\ LabelsInv => LabelsLand
  BY AllLabelsLand
<1>. QED
  BY <1>1, LabelsInvariant, PTL
=============================================================================
