------------------------------ MODULE CodeGen ------------------------------
(***************************************************************************)
(* The compiler: a walk over the tree the parser has built, which emits    *)
(* LLVM IR through an IRBuilder.                                           *)
(*                                                                         *)
(* As in Parser, what the C++ stack still has to do is a sequence of       *)
(* tasks, and values returned by visits wait in a sequence.  LLVM is       *)
(* external: of a value only its class matters here, of a basic block only *)
(* whether its last instruction is a terminator.  Types of operands are    *)
(* not modelled.                                                           *)
(***************************************************************************)
EXTENDS Parser

CONSTANT MaxDepth     \* bound of the instance: tasks at which the stack is full

ASSUME DepthAssumption == MaxDepth \in Nat

VARIABLES
    todo,      \* what the visits still have to do
    values,    \* what finished visits have returned
    scopes,    \* the chain of scopes, the current one last
    block,     \* the builder's insertion block: "none", "open" or "ended"
    module,    \* the module's symbol table: name -> "variable" or "function"
    status     \* what compile() has come to

genVars == <<todo, values, scopes, block, module, status>>

\* The class of an llvm::Value*.  Globals and functions are constants.
Value == {"null", "constant", "slot", "result"}

Scope == [symbols |-> <<>>, customTypes |-> {}, functions |-> {}]

Primitive == {"int", "float", "bool", "kByte", "kVoid"}

-----------------------------------------------------------------------------

node(id) == tree[id + 1]

\* getNodeSnippet: the node's text, if it has a length.
Text(id) == IF id = Null \/ node(id).len = 0 THEN "" ELSE input[node(id).off + 1]

Holding(name) == {i \in DOMAIN scopes : name \in DOMAIN scopes[i].symbols}

lookupVar(name) == scopes[Max(Holding(name))].symbols[name]

lookupFunc(name) == \E i \in DOMAIN scopes : name \in scopes[i].functions

\* resolveType returns; else it throws.
Resolves(id) ==
    \/ id = Null
    \/ Text(id) \in Primitive
    \/ \E i \in DOMAIN scopes : Text(id) \in scopes[i].customTypes

\* What evaluateConstantExpr returns, or "throw", or "undefined" where it uses
\* a null pointer.  For an expression it does not look into:
ConstantLeaf(id) ==
    IF id = Null THEN "null"
    ELSE CASE node(id).kind = "LiteralExpr" /\ node(id).op \notin {"LString", "LChar"} -> "constant"
           [] /\ node(id).kind = "IdentifierExpr"
              /\ Holding(Text(id)) # {}
              /\ lookupVar(Text(id)).isCompileTime ->
                    IF lookupVar(Text(id)).value = "null" THEN "undefined" ELSE "constant"
           [] OTHER -> "throw"

\* For an operator, by what its operands give, the left one first:
ConstantBinary(op, lhs, rhs) ==
    IF lhs \in {"throw", "undefined"} THEN lhs
    ELSE IF rhs = "undefined" THEN rhs
    ELSE IF /\ lhs = "constant" /\ rhs = "constant"
            /\ op \in {"Plus", "Minus", "Star", "Slash"}
         THEN "constant" ELSE "throw"

Constant[id \in -1 .. Len(tree) - 1] ==
    IF id # Null /\ node(id).kind = "BinaryExpr"
    THEN ConstantBinary(node(id).op, Constant[node(id).kids[1]], Constant[node(id).kids[2]])
    ELSE ConstantLeaf(id)

\* An instruction is inserted; without a block it is created all the same.
Emit(terminator) ==
    block' = IF block = "none" THEN "none" ELSE IF terminator THEN "ended" ELSE "open"

Bind(name, value, isCompileTime) ==
    scopes' = [scopes EXCEPT ![Len(scopes)].symbols =
                  [n \in DOMAIN @ \cup {name} |->
                      IF n = name THEN [value |-> value, isCompileTime |-> isCompileTime]
                      ELSE @[n]]]

\* LLVM gives a new name to a second object of the same name.
AddToModule(name, what) ==
    module' = [n \in DOMAIN module \cup {name} |-> IF n \in DOMAIN module THEN module[n] ELSE what]

-----------------------------------------------------------------------------

Gen(id)  == <<"codegen", id>>
On(do, id) == <<do, id>>

Doing(do) == status = "run" /\ todo # <<>> /\ todo[1][1] = do
it        == todo[1][2]

\* Visiting a node of some kind.
Visiting(kind) ==
    /\ Doing("codegen")
    /\ Len(todo) <= MaxDepth
    /\ it # Null
    /\ node(it).kind = kind

Do(tasks) == todo' = tasks \o Tail(todo)

\* The visit returns v, having taken the latest n values.
Return(n, v) ==
    /\ Do(<<>>)
    /\ values' = Append(SubSeq(values, 1, Len(values) - n), v)

Value1 == Last(values)

\* The exception reaches compile(): no scope is popped, nothing is undone.
Throw ==
    /\ status' = "failed"
    /\ UNCHANGED <<todo, values, scopes, block, module>>

\* A null pointer is used, or the function's list of blocks is broken.
Undefined ==
    /\ status' = "undefined"
    /\ UNCHANGED <<todo, values, scopes, block, module>>

\* Go on with the tasks and change nothing else.
Continue(tasks) ==
    /\ Do(tasks)
    /\ UNCHANGED <<values, scopes, block, module, status>>

\* The visit returns v at once and changes nothing else.
Answer(n, v) ==
    /\ Return(n, v)
    /\ UNCHANGED <<scopes, block, module, status>>

-----------------------------------------------------------------------------
(* Visits.                                                                 *)

compile ==
    /\ outcome = "done"
    /\ status = "parse"
    /\ todo' = <<Gen(0)>>
    /\ status' = "run"
    /\ UNCHANGED <<values, scopes, block, module>>

CompileReturns ==
    /\ status = "run"
    /\ todo = <<>>
    /\ status' = "ok"
    /\ UNCHANGED <<todo, values, scopes, block, module>>

\* The C++ stack is exhausted.
StackOverflow ==
    /\ Doing("codegen")
    /\ Len(todo) > MaxDepth
    /\ status' = "overflow"
    /\ UNCHANGED <<todo, values, scopes, block, module>>

\* Null nodes, and the kinds that generate nothing.
CodegenNothing ==
    /\ Doing("codegen")
    /\ Len(todo) <= MaxDepth
    /\ it # Null => node(it).kind \in {"StructDecl", "NamespaceDecl", "MemberAccessExpr",
                                       "DeleteExpr", "CastExpr"}
    /\ Answer(0, "null")

\* A fault: a block has no scope of its own.
codegenTranslationUnitBare ==
    /\ Visiting("TranslationUnit")
    /\ values' = Append(values, "null")
    /\ Do(<<On("rest", it + 1)>>)
    /\ UNCHANGED <<scopes, block, module, status>>

\* Every node after the block's own is visited, whoever its parent is.
codegenTranslationUnit ==
    /\ Visiting("TranslationUnit")
    /\ scopes' = Append(scopes, Scope)
    /\ values' = Append(values, "null")
    /\ Do(<<On("rest", it + 1)>>)
    /\ UNCHANGED <<block, module, status>>

\* A fault: the index is not incremented.
VisitRestAgain ==
    /\ Doing("rest")
    /\ IF it < Len(tree)
       THEN /\ Do(<<Gen(it), On("rest", it)>>)
            /\ values' = Front(values)
            /\ UNCHANGED scopes
       ELSE /\ Do(<<>>)
            /\ scopes' = Front(scopes)
            /\ UNCHANGED values
    /\ UNCHANGED <<block, module, status>>

VisitRest ==
    /\ Doing("rest")
    /\ IF it < Len(tree)
       THEN /\ Do(<<Gen(it), On("rest", it + 1)>>)
            /\ values' = Front(values)
            /\ UNCHANGED scopes
       ELSE /\ Do(<<>>)
            /\ scopes' = Front(scopes)
            /\ UNCHANGED values
    /\ UNCHANGED <<block, module, status>>

codegenVarDecl ==
    /\ Visiting("VarDecl")
    /\ LET kids == node(it).kids
       IN  IF ~Resolves(kids[1]) THEN Throw
           ELSE IF "kConstexpr" \in node(it).quals
           THEN CASE Constant[kids[3]] = "throw"     -> Throw
                  [] Constant[kids[3]] = "undefined" -> Undefined
                  [] OTHER -> /\ Bind(Text(kids[2]), Constant[kids[3]], TRUE)
                              /\ Return(0, Constant[kids[3]])
                              /\ UNCHANGED <<block, module, status>>
           ELSE IF kids[3] # Null THEN Continue(<<Gen(kids[3]), On("variable", it)>>)
           ELSE /\ Do(<<On("variable", it)>>)
                /\ values' = Append(values, "constant")
                /\ UNCHANGED <<scopes, block, module, status>>

\* A stack slot of the function that is being emitted, or a global, whose
\* initialiser must not be null.
DefineVariable ==
    /\ Doing("variable")
    /\ LET name == Text(node(it).kids[2])
       IN  IF block # "none"
           THEN /\ Bind(name, "slot", FALSE)
                /\ IF Value1 = "null" THEN UNCHANGED block ELSE Emit(FALSE)
                /\ Return(1, "slot")
                /\ UNCHANGED <<module, status>>
           ELSE IF Value1 = "null" THEN Undefined
           ELSE /\ Bind(name, "constant", FALSE)
                /\ AddToModule(name, "variable")
                /\ Return(1, "constant")
                /\ UNCHANGED <<block, status>>

codegenTypeDecl ==
    /\ Visiting("TypeDecl")
    /\ IF Resolves(node(it).kids[3])
       THEN /\ scopes' = [scopes EXCEPT ![Len(scopes)].customTypes =
                             @ \cup {Text(node(it).kids[2])}]
            /\ Return(0, "null")
            /\ UNCHANGED <<block, module, status>>
       ELSE Throw

\* The builder moves to the function's entry block and stays there.
codegenFunctionDecl ==
    /\ Visiting("FunctionDecl")
    /\ LET kids == node(it).kids
           name == Text(kids[2])
       IN  IF ~Resolves(kids[1]) THEN Throw
           ELSE /\ scopes' = Append([scopes EXCEPT ![Len(scopes)].functions = @ \cup {name}], Scope)
                /\ AddToModule(name, "function")
                /\ block' = "open"
                /\ Do(<<Gen(kids[3]), On("function", it)>>)
                /\ UNCHANGED <<values, status>>

\* A fault: popScope is missing.
EndFunctionOpen ==
    /\ Doing("function")
    /\ block' = "ended"
    /\ Return(1, "constant")
    /\ UNCHANGED <<scopes, module, status>>

EndFunction ==
    /\ Doing("function")
    /\ block' = "ended"
    /\ scopes' = Front(scopes)
    /\ Return(1, "constant")
    /\ UNCHANGED <<module, status>>

codegenBinaryExpr ==
    /\ Visiting("BinaryExpr")
    /\ Continue(<<Gen(node(it).kids[1]), Gen(node(it).kids[2]), On("binary", it)>>)

Arithmetic == {"Plus", "Minus", "Star", "Slash", "EEquals", "NEquals",
               "Lesser", "LeEquals", "Greater", "GrEquals"}

EmitBinary ==
    /\ Doing("binary")
    /\ LET lhs == values[Len(values) - 1]
           op  == node(it).op
       IN  IF "null" \in {lhs, Value1} THEN Answer(2, "null")
           ELSE IF op \in Arithmetic
           THEN IF lhs = "constant" /\ Value1 = "constant"
                THEN Answer(2, "constant")
                ELSE /\ Emit(FALSE)
                     /\ Return(2, "result")
                     /\ UNCHANGED <<scopes, module, status>>
           ELSE IF op = "Equals" /\ lhs = "slot"
           THEN /\ Emit(FALSE)
                /\ Return(2, Value1)
                /\ UNCHANGED <<scopes, module, status>>
           ELSE Throw

codegenUnaryExpr ==
    /\ Visiting("UnaryExpr")
    /\ Continue(<<Gen(node(it).kids[1]), On("unary", it)>>)

EmitUnary ==
    /\ Doing("unary")
    /\ LET op == node(it).op
       IN  IF op = "kReturn"
           THEN /\ Emit(TRUE)
                /\ Return(1, "result")
                /\ UNCHANGED <<scopes, module, status>>
           ELSE IF op \notin {"Minus", "Excl"} THEN Answer(1, "null")
           ELSE IF Value1 = "null" THEN Undefined
           ELSE IF Value1 = "constant" THEN Answer(1, "constant")
           ELSE /\ Emit(FALSE)
                /\ Return(1, "result")
                /\ UNCHANGED <<scopes, module, status>>

codegenLiteralExpr ==
    /\ Visiting("LiteralExpr")
    /\ Answer(0, IF node(it).op \in {"LString", "LChar"} THEN "null" ELSE "constant")

\* A fault: an unknown name is a null value.
codegenIdentifierExprQuiet ==
    /\ Visiting("IdentifierExpr")
    /\ IF Holding(Text(it)) = {} THEN Answer(0, "null")
       ELSE LET value == lookupVar(Text(it)).value
            IN  CASE value = "null" -> Undefined
                  [] value = "slot" -> /\ Emit(FALSE)
                                       /\ Return(0, "result")
                                       /\ UNCHANGED <<scopes, module, status>>
                  [] OTHER          -> Answer(0, value)

\* A slot is loaded; any other symbol is its value.
codegenIdentifierExpr ==
    /\ Visiting("IdentifierExpr")
    /\ IF Holding(Text(it)) = {} THEN Throw
       ELSE LET value == lookupVar(Text(it)).value
            IN  CASE value = "null" -> Undefined
                  [] value = "slot" -> /\ Emit(FALSE)
                                       /\ Return(0, "result")
                                       /\ UNCHANGED <<scopes, module, status>>
                  [] OTHER          -> Answer(0, value)

\* A known function takes no arguments, because allParams is never filled; a
\* function of the module that no scope knows is given the first one.
codegenCallExpr ==
    /\ Visiting("CallExpr")
    /\ LET name == Text(node(it).kids[1])
       IN  IF lookupFunc(name)
           THEN Continue(<<Gen(Null), On("call", it)>>)
           ELSE IF name \in DOMAIN module /\ module[name] = "function"
           THEN Continue(<<Gen(node(it).kids[2]), On("call", it)>>)
           ELSE Throw

EmitCall ==
    /\ Doing("call")
    /\ Emit(FALSE)
    /\ Return(1, "result")
    /\ UNCHANGED <<scopes, module, status>>

\* if and eval alike: then, else and continuation are blocks of the function
\* being emitted; without one there is no insertion block to ask.
codegenEvalExpr ==
    /\ Visiting("EvalExpr")
    /\ Continue(<<Gen(node(it).kids[1]), On("then", it)>>)

Branch(do) ==
    /\ Doing(do)
    /\ IF block = "none" THEN Undefined
       ELSE /\ block' = "open"
            /\ values' = Front(values)
            /\ Do(IF do = "then"
                  THEN <<Gen(node(it).kids[2]), On("else", it)>>
                  ELSE <<Gen(node(it).kids[3]), On("join", it)>>)
            /\ UNCHANGED <<scopes, module, status>>

\* The blocks meet again.  The end of a loop was put into the function when it
\* was created and is inserted once more: LLVM stops at an assertion, or its
\* list of blocks runs in a circle, which the walk itself may not notice.
Join ==
    /\ Doing("join")
    /\ \/ /\ block' = "open"
          /\ Return(1, "null")
          /\ UNCHANGED <<scopes, module, status>>
       \/ node(it).kind = "CompileTimeJump" /\ Undefined

\* break and continue generate nothing; a loop's initialiser is left to the
\* walk of the block around it, and its body ends with a branch whether or
\* not it has returned.
codegenCompileTimeJump ==
    /\ Visiting("CompileTimeJump")
    /\ IF IsJump(node(it)) THEN Answer(0, "null")
       ELSE IF block = "none" THEN Undefined
       ELSE /\ block' = "open"
            /\ Do(<<Gen(node(it).kids[1]), On("loop", it)>>)
            /\ UNCHANGED <<values, scopes, module, status>>

LoopBody ==
    /\ Doing("loop")
    /\ block' = "open"
    /\ values' = Front(values)
    /\ Do(<<Gen(node(it).kids[2]), On("join", it)>>)
    /\ UNCHANGED <<scopes, module, status>>

-----------------------------------------------------------------------------

GenInit ==
    /\ Init
    /\ todo = <<>>
    /\ values = <<>>
    /\ scopes = <<Scope>>
    /\ block = "none"
    /\ module = <<>>
    /\ status = "parse"

Generate ==
    \/ compile \/ CompileReturns \/ StackOverflow \/ CodegenNothing
    \/ codegenTranslationUnit \/ VisitRest
    \/ codegenVarDecl \/ DefineVariable \/ codegenTypeDecl
    \/ codegenFunctionDecl \/ EndFunction
    \/ codegenBinaryExpr \/ EmitBinary \/ codegenUnaryExpr \/ EmitUnary
    \/ codegenLiteralExpr \/ codegenIdentifierExpr
    \/ codegenCallExpr \/ EmitCall
    \/ codegenEvalExpr \/ Branch("then") \/ Branch("else") \/ Join
    \/ codegenCompileTimeJump \/ LoopBody

GenNext ==
    \/ Next /\ UNCHANGED genVars
    \/ Generate /\ UNCHANGED vars

GenSpec     == GenInit /\ [][GenNext]_<<vars, genVars>>
GenFairSpec == GenSpec /\ WF_<<vars, genVars>>(GenNext)

-----------------------------------------------------------------------------
(* Properties.                                                             *)

Status == {"parse", "run", "ok", "failed", "undefined", "overflow"}

GenTypeOK ==
    /\ values \in Seq(Value)
    /\ scopes # <<>>
    /\ \A i \in DOMAIN scopes :
          \A n \in DOMAIN scopes[i].symbols : scopes[i].symbols[n].value \in Value
    /\ block \in {"none", "open", "ended"}
    /\ Range(module) \subseteq {"variable", "function"}
    /\ status \in Status
    /\ \A i \in DOMAIN todo : todo[i][2] \in -1 .. Len(tree)

\* A scope is open for each block and each function whose visit has not
\* returned, and no other: names of a finished block are never looked up.
\* (compiler.cpp:18-28, the pushScope and popScope pairs.)
ScopesMatchVisits ==
    status \in {"run", "ok"} =>
        Len(scopes) = 1 + Cardinality({i \in DOMAIN todo : todo[i][1] \in {"rest", "function"}})

\* A tree that compiles has every identifier declared as a variable by a
\* node before it or by the declaration it names, types and names of
\* declarations included: the walk visits these leaves too.
SuccessMeansDeclared ==
    status = "ok" =>
        \A i \in 0 .. Len(tree) - 1 :
            node(i).kind = "IdentifierExpr" =>
                \E d \in 0 .. i :
                    /\ node(d).kind = "VarDecl"
                    /\ Text(node(d).kids[2]) = Text(i)

\* A tree does not compile if a block is the initialiser of a variable, the
\* body of a function, the condition or a branch of an if, or an operand of a
\* binary or unary expression: the block visits every node behind it, and the
\* node that owns it is one of them.  Of a block in any other place this says
\* nothing.  (compiler.cpp:156-166.)
BlockOwnersNeverCompile ==
    status = "ok" =>
        \A i \in 0 .. Len(tree) - 1 :
            node(i).kind \in {"VarDecl", "FunctionDecl", "EvalExpr", "BinaryExpr", "UnaryExpr"} =>
                \A k \in DOMAIN node(i).kids :
                    node(i).kids[k] # Null => node(node(i).kids[k]).kind # "TranslationUnit"

\* compile() comes to an end.
CompileTerminates == <>(status \in Status \ {"parse", "run"} \/ outcome = "error")
=============================================================================
