------------------------------ MODULE CodeGen -------------------------------
(***************************************************************************)
(* The code generator, src/GenerateAsmCode.cpp: from the syntax tree to    *)
(* the assembler program CPU/res/asm.txt.                                  *)
(*                                                                         *)
(* The tree is given as nested records.  A left chain of STATEMENT or      *)
(* PARAMETR nodes, which hold the earlier statements to the left, is a     *)
(* sequence in source order, <<>> where the pointer is nullptr; one other  *)
(* pointer that is nullptr leads to NOTHING:                               *)
(*   DEFINE    func ("MAIN" or a name), params (names), body               *)
(*   ASSIGN    str, right            (the index of an array is never read) *)
(*   IF        cond, then, else      WHILE cond, body                      *)
(*   RETURN    value (no or one expression)                                *)
(*   CALL      func (a name, or "SCAN", "PRINT", "SQRT", ...), args        *)
(*   CONST     value                 VARIABLE str                          *)
(*   an operator                     left, right                           *)
(*   STATEMENT body: a chain of at least two statements which hangs where  *)
(*             one node is to be, as the left operand of an operator       *)
(* Names are quoted, as the tokenizer does it: no name is a register, a    *)
(* command, MAIN or a generated label.                                     *)
(*                                                                         *)
(* The mutual recursion of the Convert functions is an agenda: what is     *)
(* still to be done, the innermost call first.  An action is the body of a *)
(* function up to its first recursive call, or from one to the next.       *)
(***************************************************************************)
EXTENDS Integers, Sequences, SequencesExt

CONSTANTS
  Programs,           (* the trees: sequences of top-level definitions      *)
  NUMBERS_VARIABLE,   (* entries of a table of names, 10                    *)
  NUMBERS_FUNCTION    (* entries of the table of functions, 10              *)

ASSUME TablesAssumption == NUMBERS_VARIABLE \in Nat \ {0} /\ NUMBERS_FUNCTION \in Nat

VARIABLES
  items,         (* the top level of the tree                               *)
  at,            (* the node FindAndPrintGlobalVar or its visitor is at     *)
  globalNames,   (* the table of globals; an unused entry is ""             *)
  curGlobal,     (* globalNames.curName                                     *)
  functions,     (* the names in the table of functions                     *)
  curLabel,      (* the next label GenerateLabel returns                    *)
  tables,        (* the tables of local names of the active calls: names in *)
                 (* the order of their offsets, the innermost table last    *)
  agenda,        (* what is still to be done                                *)
  code,          (* the lines written                                       *)
  status,        (* the stage of GenerateAsmCode, or how it ended           *)
  passing        (* history: the registers that hold arguments of the calls *)
                 (* under way, the outermost call first                     *)

names == <<globalNames, curGlobal, functions>>
tree  == <<items, at>>
vars  == <<tree, names, curLabel, tables, agenda, code, status, passing>>

Comparisons == {"JA", "JB", "JE", "JAE", "JBE", "JNE"}
BinaryOps   == Comparisons \cup {"ADD", "SUB", "MUL", "DIV", "POW"}

NoGlobals == [i \in 0 .. NUMBERS_VARIABLE-1 |-> ""]

Idle ==
  /\ at = 0
  /\ globalNames = NoGlobals
  /\ curGlobal = 1
  /\ functions = <<>>
  /\ curLabel = 0
  /\ tables = <<>>
  /\ agenda = <<>>
  /\ code = <<>>
  /\ status = "start"
  /\ passing = <<>>

Init == items \in Programs /\ Idle

-----------------------------------------------------------------------------
(* A line of the assembler program.  The label `nextN' is "next" and N; a  *)
(* size_t below 0 (there is no such label) is left negative.               *)
Line(colon, text, kind, name, value) ==
  [colon |-> colon, text |-> text, kind |-> kind, name |-> name, value |-> value]

Cmd(op)         == Line(FALSE, op, "none", "", 0)
CmdInt(op, v)   == Line(FALSE, op, "int", "", v)
CmdName(op, n)  == Line(FALSE, op, "name", n, 0)
AtReg(op, r)    == Line(FALSE, op, "atname", r, 0)
AtInt(op, v)    == Line(FALSE, op, "atint", "", v)
JumpNext(op, n) == Line(FALSE, op, "next", "", n)
Mark(text)      == Line(TRUE, text, "none", "", 0)
MarkNext(n)     == Line(TRUE, "next", "next", "", n)

(* A constant is printed with %g, which keeps six digits and then writes   *)
(* an exponent; %d reads the digit before the point back.                  *)
AsPrinted(v) ==
  IF v < 10^6 THEN v
  ELSE LET unit   == CHOOSE u \in {10^k : k \in 6 .. 9} : u <= v /\ v \div u < 10
           digits == (v + unit \div 200000) \div unit
       IN  IF digits = 10 THEN 1 ELSE digits

(* dx := ex + offset *)
LocalAddress(offset) ==
  <<CmdName("PUSH", "ex"), CmdInt("PUSH", offset), Cmd("ADD"), CmdName("POP", "dx")>>

(* CheckTableGlobalNames, over all entries, those beyond curName included. *)
NoVariable == -1
GlobalOffset(str) ==
  LET found == {i \in DOMAIN globalNames : globalNames[i] = str}
  IN  IF found = {} THEN NoVariable ELSE CHOOSE i \in found : \A j \in found : i <= j

(* Variant: the size of the table is not looked at.                        *)
WithNameUnchecked(table, str) ==
  IF Contains(table, str) THEN table ELSE Append(table, str)

(* CheckTableLocalNames enters a name it does not find, if there is room.  *)
WithName(table, str) ==
  IF Contains(table, str) \/ Len(table) >= NUMBERS_VARIABLE
  THEN table ELSE Append(table, str)

LocalOffset(table, str) ==
  IF Contains(table, str)
  THEN (CHOOSE i \in DOMAIN table : table[i] = str /\ \A j \in 1 .. i-1 : table[j] # str) - 1
  ELSE NoVariable

LocalNames == Last(tables)

-----------------------------------------------------------------------------
(* GenerateAsmCode up to FindAndPrintGlobalVar: FindMain, the first lines, *)
(* FillTableFunctions, which does not look at the size of the table.       *)
IsDefine(n) == n.type = "DEFINE"
HasMain == \E i \in DOMAIN items : IsDefine(items[i]) /\ items[i].func = "MAIN"
NamedFunctions == SelectSeq(items, LAMBDA n : IsDefine(n) /\ n.func # "MAIN")

Begin ==
  /\ status = "start"
  /\ IF ~HasMain
     THEN status' = "no main" /\ UNCHANGED <<at, functions, code>>
     ELSE /\ functions' = [i \in DOMAIN NamedFunctions |-> NamedFunctions[i].func]
          /\ code' = <<Cmd("CRT"), CmdInt("PUSH", curGlobal), CmdName("POP", "ex")>>
          /\ at' = Len(items)
          /\ status' = IF Len(NamedFunctions) > NUMBERS_FUNCTION THEN "undefined"
                                                                 ELSE "trailing"
  /\ UNCHANGED <<items, globalNames, curGlobal, curLabel, tables, agenda, passing>>

(* The name goes into the table before its value is looked at, and stays   *)
(* there, beyond curName, when the value is no constant.                   *)
EnterGlobal(n) ==
  /\ globalNames' = [globalNames EXCEPT ![curGlobal] = n.str]
  /\ IF n.right.type = "CONST"
     THEN /\ code' = code \o <<CmdInt("PUSH", AsPrinted(n.right.value)), AtInt("POP", curGlobal)>>
          /\ curGlobal' = curGlobal + 1
     ELSE UNCHANGED <<code, curGlobal>>

(* FindAndPrintGlobalVar: globals after the last function.  When it gives  *)
(* up the whole tree is left as it is.                                     *)
TrailingGlobal ==
  /\ status = "trailing"
  /\ items[at].type = "ASSIGN"
  /\ IF curGlobal < NUMBERS_VARIABLE
     THEN /\ EnterGlobal(items[at])
          /\ IF items[at].right.type = "CONST"
             THEN /\ at' = at - 1
                  /\ IF at - 1 = 1
                     THEN items' = <<items[1]>> /\ status' = "visiting"
                     ELSE UNCHANGED <<items, status>>
             ELSE status' = "calling" /\ UNCHANGED tree
     ELSE status' = "calling" /\ UNCHANGED <<tree, code, globalNames, curGlobal>>
  /\ UNCHANGED <<functions, curLabel, tables, agenda, passing>>

LastFunction ==
  /\ status = "trailing"
  /\ items[at].type # "ASSIGN"
  /\ items' = SubSeq(items, 1, at)
  /\ status' = "visiting"
  /\ UNCHANGED <<at, names, curLabel, tables, agenda, code, passing>>

(* NodeVisitorForFindAndPrintGlobalVar looks at the item before `at'.  A   *)
(* global found there is cut out of the tree, and the visitor goes on from *)
(* the item before it, which it does not look at.                          *)
VisitGlobal ==
  /\ status = "visiting"
  /\ at > 1 /\ items[at-1].type = "ASSIGN"
  /\ IF curGlobal \in DOMAIN globalNames
     THEN /\ EnterGlobal(items[at-1])
          /\ IF items[at-1].right.type = "CONST"
             THEN /\ items' = RemoveAt(items, at - 1)
                  /\ at' = at - 2
                  /\ status' = IF at = 2 THEN "calling" ELSE status
             ELSE status' = "calling" /\ UNCHANGED tree
     ELSE status' = "undefined" /\ UNCHANGED <<tree, code, globalNames, curGlobal>>
  /\ UNCHANGED <<functions, curLabel, tables, agenda, passing>>

VisitOther ==
  /\ status = "visiting"
  /\ at > 1 /\ items[at-1].type # "ASSIGN"
  /\ at' = at - 1
  /\ UNCHANGED <<items, names, curLabel, tables, agenda, code, status, passing>>

FirstItem ==
  /\ status = "visiting"
  /\ at = 1
  /\ status' = "calling"
  /\ UNCHANGED <<tree, names, curLabel, tables, agenda, code, passing>>

-----------------------------------------------------------------------------
(* The agenda.  A task is the conversion of a node, lines to print, or the *)
(* rest of a Convert function.                                             *)
Task(do, node, lines) == [do |-> do, node |-> node, lines |-> lines]
NoNode == [type |-> ""]

Convert(n)     == Task("convert", n, <<>>)
Emit(lines)   == Task("print", NoNode, lines)
Rest(do, n)    == Task(do, n, <<>>)
ConvertAll(ns) == [i \in DOMAIN ns |-> Convert(ns[i])]

(* ConvertSubtreeInCode asserts that it is given a node (see Abort too).   *)
Required(ns) == IF ns = <<>> THEN <<Rest("abort", NoNode)>> ELSE ConvertAll(ns)

CallMain ==
  /\ status = "calling"
  /\ code' = code \o <<CmdName("CALL", "MAIN"), Cmd("HLT")>>
  /\ tables' = <<(<<>>)>>
  /\ agenda' = ConvertAll(items)
  /\ status' = "converting"
  /\ UNCHANGED <<tree, names, curLabel, passing>>

Task1 == Head(agenda)
Node  == Task1.node

Doing(do) == status = "converting" /\ agenda # <<>> /\ Task1.do = do
Converting(types) == Doing("convert") /\ Node.type \in types

(* The lines are printed, then the tasks are done before what was left.    *)
Write(lines) == code' = code \o lines
Go(tasks)    == agenda' = tasks \o Tail(agenda)

(* Parameters come in ax, the last one, and bx, all others.                *)
ParameterRegister(i, count) == IF i = count THEN "ax" ELSE "bx"

Prologue(params, table) ==
  FlattenSeq([i \in DOMAIN params |->
    LET p == Len(params) + 1 - i
    IN  <<CmdName("PUSH", ParameterRegister(p, Len(params)))>>
        \o LocalAddress(LocalOffset(table, params[p])) \o <<AtReg("POP", "dx")>>])

(* The parameters are the first names of the table, the last one foremost. *)
ParameterTable(params) ==
  LET entered[i \in 0 .. Len(params)] ==
        IF i = 0 THEN <<>> ELSE WithName(entered[i - 1], params[Len(params) + 1 - i])
  IN  entered[Len(params)]

ConvertDefine ==
  /\ Converting({"DEFINE"})
  /\ LET main  == Node.func = "MAIN"
         table == ParameterTable(Node.params)
     IN  \/ /\ main
            /\ Write(<<Mark("MAIN"), CmdName("PUSH", "ex"), CmdInt("PUSH", 1),
                       Cmd("ADD"), CmdName("POP", "ex")>>)
            /\ tables' = Append(tables, <<>>)
            /\ Go(Required(Node.body) \o <<Rest("leave", Node)>>)
         \/ /\ ~main /\ Len(functions) < NUMBERS_FUNCTION
            /\ Write(<<Mark(Node.func)>> \o Prologue(Node.params, table))
            /\ tables' = Append(tables, table)
            /\ Go(Required(Node.body) \o <<Rest("leave", Node)>>)
         \/ /\ ~main /\ Len(functions) >= NUMBERS_FUNCTION
            /\ Go(<<>>)
            /\ UNCHANGED <<code, tables>>
  /\ UNCHANGED <<tree, names, curLabel, status, passing>>

(* The caller's table becomes that of main.                                *)
LeaveDefine ==
  /\ Doing("leave")
  /\ tables' = IF Node.func = "MAIN"
               THEN Append(Front(Front(tables)), LocalNames) ELSE Front(tables)
  /\ Go(<<>>)
  /\ UNCHANGED <<tree, names, curLabel, code, status, passing>>

ConvertReturn ==
  /\ Converting({"RETURN"})
  /\ IF Node.value # <<>>
     THEN /\ Go(ConvertAll(Node.value) \o <<Emit(<<CmdName("POP", "gx"), Cmd("RET")>>)>>)
          /\ UNCHANGED code
     ELSE Write(<<Cmd("RET")>>) /\ Go(<<>>)
  /\ UNCHANGED <<tree, names, curLabel, tables, status, passing>>

(* SCAN, P_CDOT, P_SPACE and NEW_LINE are one command, whatever their      *)
(* arguments; PRINT and SQRT convert theirs first.                         *)
(* Variant: the name of the function is the command.                       *)
CommandSame(func) == func

CommandOf(func) == IF func = "SCAN" THEN "IN" ELSE func

ConvertBuiltin ==
  /\ Converting({"CALL"})
  /\ \/ /\ Node.func \in {"SCAN", "P_CDOT", "P_SPACE", "NEW_LINE"}
        /\ Write(<<Cmd(CommandOf(Node.func))>>) /\ Go(<<>>)
     \/ /\ Node.func = "PRINT"
        /\ Go(Required(Node.args) \o <<Emit(<<Cmd("OUT")>>)>>)
        /\ UNCHANGED code
     \/ /\ Node.func = "SQRT"
        /\ Go(Required(Node.args) \o
              <<Emit(<<CmdName("POP", "fx"), CmdName("SQRT", "fx"), CmdName("PUSH", "fx")>>)>>)
        /\ UNCHANGED code
  /\ UNCHANGED <<tree, names, curLabel, tables, status, passing>>

Builtins == {"SCAN", "PRINT", "P_CDOT", "P_SPACE", "NEW_LINE", "SQRT"}

(* Variant: the table of functions is not looked at.                       *)
ConvertCallUnchecked ==
  /\ Converting({"CALL"}) /\ Node.func \notin Builtins
  /\ LET n == Len(Node.args)
     IN  Go(FlattenSeq([i \in 1 .. n |->
              <<Convert(Node.args[n + 1 - i]),
                Rest("argument", [type |-> ParameterRegister(n + 1 - i, n)])>>])
            \o <<Rest("frame", Node)>>)
  /\ passing' = Append(passing, <<>>)
  /\ UNCHANGED <<tree, names, curLabel, tables, code, status>>

(* The last argument is converted first.  A function that is not in the    *)
(* table gets a message and no code.                                       *)
ConvertCall ==
  /\ Converting({"CALL"}) /\ Node.func \notin Builtins
  /\ LET n == Len(Node.args)
     IN  IF Contains(functions, Node.func)
         THEN /\ Go(FlattenSeq([i \in 1 .. n |->
                      <<Convert(Node.args[n + 1 - i]),
                        Rest("argument", [type |-> ParameterRegister(n + 1 - i, n)])>>])
                    \o <<Rest("frame", Node)>>)
              /\ passing' = Append(passing, <<>>)
         ELSE Go(<<>>) /\ UNCHANGED passing
  /\ UNCHANGED <<tree, names, curLabel, tables, code, status>>

PassArgument ==
  /\ Doing("argument")
  /\ Write(<<CmdName("POP", Node.type)>>)
  /\ passing' = [passing EXCEPT ![Len(passing)] = Append(@, Node.type)]
  /\ Go(<<>>)
  /\ UNCHANGED <<tree, names, curLabel, tables, status>>

(* Variant: the last name of the caller is not counted.                    *)
FrameSizeShort == Len(LocalNames) - 1

(* The frame of the callee begins after the names known so far.            *)
FrameSize == Len(LocalNames)

EmitCall ==
  /\ Doing("frame")
  /\ Write(<<CmdName("PUSH", "ex"), CmdName("PUSH", "ex"),
             CmdInt("PUSH", FrameSize), Cmd("ADD"), CmdName("POP", "ex"),
             CmdName("CALL", Node.func), CmdName("POP", "ex"), CmdName("PUSH", "gx")>>)
  /\ passing' = Front(passing)
  /\ Go(<<>>)
  /\ UNCHANGED <<tree, names, curLabel, tables, status>>

(* The comparison of the condition took the label before `label'.          *)
ConvertIf ==
  /\ Converting({"IF"})
  /\ Go(<<Convert(Node.cond), Rest("decide", Node)>>)
  /\ UNCHANGED <<tree, names, curLabel, tables, code, status, passing>>

Decide ==
  /\ Doing("decide")
  /\ LET label == curLabel
     IN  Go(ConvertAll(Node.else)
            \o <<Emit(<<JumpNext("JMP", label), MarkNext(label - 1)>>)>>
            \o Required(Node.then)
            \o <<Emit(<<MarkNext(label)>>)>>)
  /\ curLabel' = curLabel + 1
  /\ UNCHANGED <<tree, names, tables, code, status, passing>>

ConvertWhile ==
  /\ Converting({"WHILE"})
  /\ Write(<<MarkNext(curLabel)>>)
  /\ curLabel' = curLabel + 1
  /\ Go(<<Convert(Node.cond), Rest("loop", Node)>>)
  /\ UNCHANGED <<tree, names, tables, status, passing>>

Loop ==
  /\ Doing("loop")
  /\ LET label == curLabel
     IN  /\ Write(<<JumpNext("JMP", label), MarkNext(label - 1)>>)
         /\ Go(Required(Node.body)
               \o <<Emit(<<JumpNext("JMP", label - 2), MarkNext(label)>>)>>)
  /\ curLabel' = curLabel + 1
  /\ UNCHANGED <<tree, names, tables, status, passing>>

ConvertAssign ==
  /\ Converting({"ASSIGN"})
  /\ Go(<<Convert(Node.right), Rest("store", Node)>>)
  /\ UNCHANGED <<tree, names, curLabel, tables, code, status, passing>>

(* Loads or stores a variable; a name not met before becomes a local one.  *)
Access(op, str) ==
  IF GlobalOffset(str) # NoVariable
  THEN Write(<<AtInt(op, GlobalOffset(str))>>) /\ UNCHANGED tables
  ELSE LET table == WithName(LocalNames, str)
       IN  /\ Write(LocalAddress(LocalOffset(table, str)) \o <<AtReg(op, "dx")>>)
           /\ tables' = [tables EXCEPT ![Len(tables)] = table]

Store ==
  /\ Doing("store")
  /\ Access("POP", Node.str)
  /\ Go(<<>>)
  /\ UNCHANGED <<tree, names, curLabel, status, passing>>

ConvertVariable ==
  /\ Converting({"VARIABLE"})
  /\ Access("PUSH", Node.str)
  /\ Go(<<>>)
  /\ UNCHANGED <<tree, names, curLabel, status, passing>>

ConvertConst ==
  /\ Converting({"CONST"})
  /\ Write(<<CmdInt("PUSH", AsPrinted(Node.value))>>)
  /\ Go(<<>>)
  /\ UNCHANGED <<tree, names, curLabel, tables, status, passing>>

ConvertBinary ==
  /\ Converting(BinaryOps)
  /\ Go(<<Convert(Node.left), Convert(Node.right), Rest("operate", Node)>>)
  /\ UNCHANGED <<tree, names, curLabel, tables, code, status, passing>>

(* Variant: the comparison does not use up its label.                      *)
OperateKeepsLabel ==
  /\ Doing("operate")
  /\ IF Node.type \in Comparisons
     THEN Write(<<JumpNext(Node.type, curLabel)>>)
     ELSE Write(<<Cmd(Node.type)>>)
  /\ Go(<<>>)
  /\ UNCHANGED <<tree, names, curLabel, tables, status, passing>>

Operate ==
  /\ Doing("operate")
  /\ IF Node.type \in Comparisons
     THEN Write(<<JumpNext(Node.type, curLabel)>>) /\ curLabel' = curLabel + 1
     ELSE Write(<<Cmd(Node.type)>>) /\ UNCHANGED curLabel
  /\ Go(<<>>)
  /\ UNCHANGED <<tree, names, tables, status, passing>>

(* A STATEMENT node has no function of its own: what hangs below it to the *)
(* left, and then to the right, is converted.                              *)
ConvertStatement ==
  /\ Converting({"STATEMENT"})
  /\ Go(ConvertAll(Node.body))
  /\ UNCHANGED <<tree, names, curLabel, tables, code, status, passing>>

PrintLines ==
  /\ Doing("print")
  /\ Write(Task1.lines)
  /\ Go(<<>>)
  /\ UNCHANGED <<tree, names, curLabel, tables, status, passing>>

Abort ==
  /\ Doing("abort") \/ Converting({"NOTHING"})
  /\ status' = "abort"
  /\ UNCHANGED <<tree, names, curLabel, tables, agenda, code, passing>>

Close ==
  /\ status = "converting" /\ agenda = <<>>
  /\ status' = "done"
  /\ UNCHANGED <<tree, names, curLabel, tables, agenda, code, passing>>

Next ==
  \/ Begin \/ TrailingGlobal \/ LastFunction \/ VisitGlobal \/ VisitOther \/ FirstItem \/ CallMain
  \/ ConvertDefine \/ LeaveDefine \/ ConvertReturn \/ ConvertBuiltin
  \/ ConvertCall \/ PassArgument \/ EmitCall \/ ConvertIf \/ Decide
  \/ ConvertWhile \/ Loop \/ ConvertAssign \/ Store \/ ConvertVariable
  \/ ConvertConst \/ ConvertBinary \/ Operate \/ ConvertStatement \/ PrintLines
  \/ Abort \/ Close

Spec == Init /\ [][Next]_vars

-----------------------------------------------------------------------------
(* The trees the parser builds: sets of expressions, conditions and        *)
(* statements that hold their parts; the left operand of a statement may   *)
(* be the statements before it.  No name is that of a command.             *)
Expression(e, E) ==
  \/ e.type \in {"CONST", "VARIABLE"}
  \/ e.type = "CALL" /\ e.func # "CALL" /\ e.args \in Seq(E)
  \/ e.type \in BinaryOps /\ e.left \in E /\ e.right \in E

Condition(c, E) ==
  \/ Expression(c, E)
  \/ c.type \in Comparisons /\ c.left \in E /\ c.right \in E

Statement(s, E, C, S) ==
  \/ Expression(s, E)
  \/ s.type \in BinaryOps /\ s.left \in S /\ s.right \in E
  \/ s.type = "STATEMENT" /\ s.body \in Seq(S)
  \/ s.type = "ASSIGN" /\ s.right \in E
  \/ s.type = "RETURN" /\ s.value \in Seq(E)
  \/ s.type = "IF" /\ s.cond \in C /\ s.then \in Seq(S) /\ s.else \in Seq(S)
  \/ s.type = "WHILE" /\ s.cond \in C /\ s.body \in Seq(S)

TopLevel(d, E, S) ==
  \/ d.type = "DEFINE" /\ d.func # "CALL" /\ d.params \in Seq(ToSet(d.params)) /\ d.body \in Seq(S)
  \/ d.type = "ASSIGN" /\ d.right \in E

Trees(E, C, S) ==
  /\ \A e \in E : Expression(e, E)
  /\ \A c \in C : Condition(c, E)
  /\ \A s \in S : Statement(s, E, C, S)
  /\ \A p \in Programs : p \in Seq({d \in ToSet(p) : TopLevel(d, E, S)})

(* Every condition is one comparison, and there are no others.             *)
OneComparisonEach(E, C, S) ==
  /\ \A n \in E \cup S : n.type \notin Comparisons
  /\ \A c \in C : c.type \in Comparisons

-----------------------------------------------------------------------------
(* Type invariant: the tables stay within the arrays of the code.          *)
TypeOK ==
  /\ at \in 0 .. Len(items)
  /\ DOMAIN globalNames = 0 .. NUMBERS_VARIABLE-1
  /\ curGlobal \in 1 .. NUMBERS_VARIABLE
  /\ curLabel \in Nat
  /\ \A i \in DOMAIN tables : Len(tables[i]) <= NUMBERS_VARIABLE
  /\ \A i \in DOMAIN passing : ToSet(passing[i]) \subseteq {"ax", "bx"}
  /\ status \in {"start", "no main", "trailing", "visiting", "calling", "converting",
                 "done", "abort", "undefined"}

IsNamedMark(l) == l.colon /\ l.kind = "none"

(* Line i begins the computation of the address of a local variable.       *)
AddressesLocal(i) ==
  /\ i + 3 <= Len(code)
  /\ code[i+1].kind = "int"
  /\ SubSeq(code, i, i + 3) = LocalAddress(code[i+1].value)

SameFunction(i, j) == \A k \in i .. j : ~IsNamedMark(code[k])

(***************************************************************************)
(* The frame a call gives its callee begins after every local variable     *)
(* the caller has used in the code before the call, its parameters         *)
(* included: on the way down the text no callee can overwrite them.  Code  *)
(* of an assignment left between the functions, where a global is no       *)
(* constant, belongs to none of them and is never reached.                 *)
(***************************************************************************)
OnlyFunctions == \A i \in DOMAIN items : IsDefine(items[i])

CalleeFrameIsFree ==
  status = "done" /\ OnlyFunctions =>
    \A c \in {k \in DOMAIN code : code[k].text = "CALL"} :
      \A i \in 1 .. c - 1 :
        AddressesLocal(i) /\ SameFunction(i, c) => code[i+1].value < code[c-3].value

(***************************************************************************)
(* When every condition is one comparison and there are no others, every   *)
(* generated jump has one label to go to: the labels an if or a while      *)
(* reckons from its own (one less, two less) are those its condition and   *)
(* its head took, however ifs, loops and calls are nested.                 *)
(***************************************************************************)
LabelsLand ==
  status = "done" =>
    \A i \in DOMAIN code :
      ~code[i].colon /\ code[i].kind = "next" =>
        \E j \in DOMAIN code : {k \in DOMAIN code : code[k] = MarkNext(code[i].value)} = {j}

(***************************************************************************)
(* Every function called has its code, wherever in the text it stands and  *)
(* whatever was cut out around it; but once the table of functions is full *)
(* the check before a function is translated refuses all of them, and the  *)
(* calls, whose check still finds the names, have no label to go to.       *)
(***************************************************************************)
CallsHaveFunctions ==
  status = "done" =>
    \A c \in {k \in DOMAIN code : code[k].text = "CALL"} :
      (\E k \in DOMAIN code : code[k] = Mark(code[c].name))
        <=> code[c].name = "MAIN" \/ Len(functions) < NUMBERS_FUNCTION

(***************************************************************************)
(* What the comment on ConvertCallNodeInCode says of ax and bx: they pass  *)
(* the parameters.  A register that holds an argument of a call under way  *)
(* is then not loaded again before that call is made.                      *)
(***************************************************************************)
ParametersKept == \A i, j \in DOMAIN passing : i < j => ToSet(passing[i]) \cap ToSet(passing[j]) = {}
=============================================================================
