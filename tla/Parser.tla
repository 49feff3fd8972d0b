------------------------------- MODULE Parser -------------------------------
(***************************************************************************)
(* The parser: recursive descent with two tokens of look-ahead over the    *)
(* lexer, building the nodes of an AST in one vector.                      *)
(*                                                                         *)
(* What the C++ call stack still has to do is the agenda: a sequence of    *)
(* tasks, the next one first.  The node ids that calls have returned and   *)
(* their callers hold in locals are in vals, the latest last.  A parse     *)
(* function consumes its first token and puts the rest of its body, task   *)
(* by task, on the agenda.                                                 *)
(***************************************************************************)
EXTENDS Integers, SequencesExt

CONSTANTS
    Name,      \* the identifiers in the sources, apart from "using"
    Source     \* what the lexer may give: a sequence of sets of tokens

Ident     == Name \cup {"using"}
Literal   == {"LInt", "LFloat", "LString", "LChar", "kTrue", "kFalse"}
Builtin   == {"kVoid", "kByte"}
Prefix    == {"PPlus", "MMinus", "Excl", "Tilde", "Minus", "Amp", "Star"}
Qualifier == {"kConstexpr", "kConst", "kStatic", "kInline", "kAuto"}
Jump      == {"kBreak", "kContinue"}

\* The operators getPrecedence knows, the weakest first.
Level == << {"Equals", "PlusEquals", "MinusEquals", "StarEquals", "SlashEquals",
             "PercEquals", "AmpEquals", "BarEquals", "UpEquals"},
            {"BBar"}, {"AAmp"}, {"Bar"}, {"Up"}, {"Amp"},
            {"EEquals", "NEquals"},
            {"Lesser", "Greater", "LeEquals", "GrEquals"},
            {"LLesser", "GGreater"},
            {"Plus", "Minus"},
            {"Star", "Slash", "Perc"} >>

Punctuation == {"Left", "Right", "SqLeft", "SqRight", "BrLeft", "BrRight", "Semi",
                "Comma", "Colon", "Dot", "Arrow", "Eof", "Unknown",
                "TildeEquals", "LLeEquals", "GGrEquals"}
Keyword     == {"kIf", "kElse", "kFor", "kWhile", "kEval", "kReturn", "kRequires",
                "kNamespace", "kDelete", "kType", "kStruct"}

TokenType == {"Ident"} \cup Literal \cup Builtin \cup Prefix \cup Qualifier \cup Jump
             \cup (UNION Range(Level)) \cup Punctuation \cup Keyword

\* An identifier is its text, any other token its type.
Token == Ident \cup (TokenType \ {"Ident"})

ASSUME NameAssumption   == Name \cap (TokenType \cup {"using"}) = {}
ASSUME SourceAssumption == Source \subseteq Seq(SUBSET Token)

VARIABLES
    source,    \* what the lexer may give in this behaviour
    input,     \* the tokens the lexer has given; the last two are the window
    pos,       \* how many of them have left the window
    tree,      \* the nodes; node id i is tree[i + 1]
    agenda,    \* what is left to do
    vals,      \* the node ids held in locals
    outcome    \* "run", "done", or "error" once raiseError has thrown

vars == <<source, input, pos, tree, agenda, vals, outcome>>

-----------------------------------------------------------------------------
(* The window.                                                             *)

TypeOf(token) == IF token \in Ident THEN "Ident" ELSE token

\* peek(i): window[i] is the token at index pos + 1 + i.
peek(i) == TypeOf(input[pos + 1 + i])

\* A token's offset counts from 0; each Eof stands at the end of the text.
Offset(p) ==
    IF input[p] = "Eof" THEN Cardinality({q \in DOMAIN input : input[q] # "Eof"})
    ELSE p - 1

\* nextToken: after Eof there is only Eof.
Follow(given) ==
    IF given # <<>> /\ Last(given) = "Eof" THEN {"Eof"}
    ELSE IF Len(given) < Len(source) THEN source[Len(given) + 1] ELSE {"Eof"}

\* The next n <= 2 tokens of the lexer.
Pulled(n) ==
    CASE n = 0 -> {<<>>}
      [] n = 1 -> {<<t>> : t \in Follow(input)}
      [] n = 2 -> UNION {{<<t, u>> : u \in Follow(Append(input, t))} : t \in Follow(input)}

\* n calls of advance: each pulls a token, unless it consumes an Eof.
Advance(n) ==
    /\ pos' = pos + n
    /\ \E more \in Pulled(n) : input' = input \o more
    /\ UNCHANGED source

Stay == UNCHANGED <<source, input, pos>>

-----------------------------------------------------------------------------
(* Nodes.  A node keeps its source offset and length, where 1 is the       *)
(* length of a token, its operator or literal type, and its links.         *)

Null == -1

Node(kind, off, len, op, kids) ==
    [kind |-> kind, off |-> off, len |-> len, op |-> op, kids |-> kids, quals |-> {}]

\* The leaf of the token at index p.
LeafOf(kind, p) == Node(kind, Offset(p), 1, TypeOf(input[p]), <<>>)
Leaf(p)         == LeafOf("IdentifierExpr", p)

\* Of a node without an operator.
NoOp == "none"

\* Tokens made up by the parser: the type auto and the name of an unnamed
\* parameter.  Both are empty, at offset 0.
MadeUp(type) == Node("IdentifierExpr", 0, 0, type, <<>>)

\* A Build task's offset for the token that follows the finished construct.
Here == -1

-----------------------------------------------------------------------------
(* Tasks.                                                                  *)

\* What to do, and what the function was called with.
Task(do, with) == <<do, with>>

Statement        == Task("statement", {})
Primary          == Task("primary", 0)
Postfix          == Task("postfix", 0)
Operators(min)   == Task("operators", min)
Expression(min)  == <<Primary, Operators(min)>>
Param            == Task("param", {})
Expect(t)        == Task("expect", t)
Skip(t)          == Task("skip", t)      \* if (check(t)) advance()
Drop             == Task("drop", 0)      \* ignore a returned id
Block            == Task("block", 0)
\* If the next token is t, consume n and do the tasks, else the id is null.
When(t, n, tasks)   == Task("when", [t |-> t, n |-> n, tasks |-> tasks])
\* If the next token is t, consume n and the id is null, else do the tasks.
Unless(t, n, tasks) == Task("unless", [t |-> t, n |-> n, tasks |-> tasks])
\* while (match(Comma)) item, whose id is ignored.
More(item)       == Task("more", item)
\* createNode with links chosen from the latest ids: pick[i] is the number
\* of one of the last "take", 0 for null.
Build(kind, off, op, take, pick) ==
    Task("build", [kind |-> kind, off |-> off, op |-> op, take |-> take, pick |-> pick])

At(do) == outcome = "run" /\ Head(agenda)[1] = do

arg == Head(agenda)[2]

Then(tasks) == agenda' = tasks \o Tail(agenda)

Latest(n) == SubSeq(vals, Len(vals) - n + 1, Len(vals))
Pop(n)    == SubSeq(vals, 1, Len(vals) - n)

\* Append nodes and hold one of them.
Create(nodes, id, popped) ==
    /\ tree' = tree \o nodes
    /\ vals' = Append(Pop(popped), id)

raiseError ==
    /\ outcome' = "error"
    /\ Stay
    /\ UNCHANGED <<tree, agenda, vals>>

\* Consume n tokens and go on with the tasks.
Go(n, tasks) ==
    /\ Advance(n)
    /\ Then(tasks)
    /\ UNCHANGED <<tree, vals, outcome>>

\* Consume n tokens and hold a null id.
GoNull(n) ==
    /\ Advance(n)
    /\ Then(<<>>)
    /\ vals' = Append(vals, Null)
    /\ UNCHANGED <<tree, outcome>>

-----------------------------------------------------------------------------
(* Helpers of the parser: expect, match, and node creation.                *)

ExpectToken ==
    /\ At("expect")
    /\ IF peek(0) = arg THEN Go(1, <<>>) ELSE raiseError

SkipToken == At("skip") /\ Go(IF peek(0) = arg THEN 1 ELSE 0, <<>>)

DropId ==
    /\ At("drop")
    /\ vals' = Pop(1)
    /\ Then(<<>>)
    /\ Stay
    /\ UNCHANGED <<tree, outcome>>

Choose ==
    \/ At("when")   /\ peek(0) = arg.t /\ Go(arg.n, arg.tasks)
    \/ At("when")   /\ peek(0) # arg.t /\ GoNull(0)
    \/ At("unless") /\ peek(0) = arg.t /\ GoNull(arg.n)
    \/ At("unless") /\ peek(0) # arg.t /\ Go(0, arg.tasks)

MoreItems ==
    /\ At("more")
    /\ IF peek(0) = "Comma" THEN Go(1, <<arg, Drop, More(arg)>>) ELSE Go(0, <<>>)

BuildNode ==
    /\ At("build")
    /\ LET held == Latest(arg.take)
           kids == [i \in DOMAIN arg.pick |->
                       IF arg.pick[i] = 0 THEN Null ELSE held[arg.pick[i]]]
           off  == IF arg.off = Here THEN Offset(pos + 1) ELSE arg.off
           len  == IF arg.kind = "UnaryExpr" /\ arg.op \in Prefix THEN 1 ELSE 0
       IN  Create(<<Node(arg.kind, off, len, arg.op, kids)>>, Len(tree), arg.take)
    /\ Then(<<>>)
    /\ Stay
    /\ UNCHANGED outcome

-----------------------------------------------------------------------------
(* Expressions.                                                            *)

\* getPrecedence; 0 for a token that is no binary operator.
Precedence(t) ==
    IF \E l \in DOMAIN Level : t \in Level[l]
    THEN CHOOSE l \in DOMAIN Level : t \in Level[l]
    ELSE 0

\* A fault: an operator of the same level may follow on the right.
BinaryOperatorRight ==
    /\ At("operators")
    /\ LET prec == Precedence(peek(0))
       IN  IF prec < arg \/ prec = 0
           THEN Go(0, <<>>)
           ELSE Go(1, Expression(prec) \o
                      <<Build("BinaryExpr", Offset(pos + 1), peek(0), 2, <<1, 2>>),
                        Operators(arg)>>)

\* The loop of parseExpression.
BinaryOperator ==
    /\ At("operators")
    /\ LET prec == Precedence(peek(0))
       IN  IF prec < arg \/ prec = 0
           THEN Go(0, <<>>)
           ELSE Go(1, Expression(prec + 1) \o
                      <<Build("BinaryExpr", Offset(pos + 1), peek(0), 2, <<1, 2>>),
                        Operators(arg)>>)

\* A primary expression whose first token is in T.
PrimaryFrom(T, n, tasks) == At("primary") /\ peek(0) \in T /\ Go(n, tasks)

PrefixOperator ==
    PrimaryFrom(Prefix, 1,
        <<Primary, Build("UnaryExpr", Offset(pos + 1), peek(0), 1, <<1>>), Postfix>>)

Operand ==
    /\ At("primary")
    /\ peek(0) \in Literal \cup Builtin \cup {"Ident"}
    /\ LET kind == IF peek(0) \in Literal THEN "LiteralExpr" ELSE "IdentifierExpr"
       IN  Create(<<LeafOf(kind, pos + 1)>>, Len(tree), 0)
    /\ Advance(1)
    /\ Then(<<Postfix>>)
    /\ UNCHANGED outcome

\* if and eval: ( condition ) statement, else statement.
Conditional(off) ==
    <<Expect("Left")>> \o Expression(0) \o
    <<Expect("Right"), Statement, When("kElse", 1, <<Statement>>),
      Build("EvalExpr", off, NoOp, 3, <<1, 2, 3>>)>>

parseEvalExpression == PrimaryFrom({"kEval"}, 1, Conditional(Offset(pos + 1)) \o <<Postfix>>)

\* What delete leaves to do once it is consumed; its auto is not modelled.
Delete(off) == <<Skip("kAuto"), Primary, Build("DeleteExpr", off, NoOp, 1, <<1>>)>>

DeleteInParentheses ==
    /\ peek(1) = "kDelete"
    /\ PrimaryFrom({"Left"}, 2,
           Delete(Offset(pos + 2)) \o
           <<Expect("Right"), Build("CastExpr", Here, NoOp, 1, <<1>>), Postfix>>)

Parenthesized ==
    /\ peek(1) # "kDelete"
    /\ PrimaryFrom({"Left"}, 1, Expression(0) \o <<Expect("Right"), Postfix>>)

\* A fault: the id is the number of nodes after the insertion.
OpenBlockPast ==
    /\ At("primary") \/ At("statement")
    /\ peek(0) = "BrLeft"
    /\ Create(<<Node("TranslationUnit", Offset(pos + 2), 0, NoOp, <<>>)>>, Len(tree) + 1, 0)
    /\ Advance(1)
    /\ Then(<<Block>> \o (IF At("primary") THEN <<Postfix>> ELSE <<>>))
    /\ UNCHANGED outcome

\* A block's node is created before its statements, at the offset of the
\* first of them, and links to none of them.
OpenBlock ==
    /\ At("primary") \/ At("statement")
    /\ peek(0) = "BrLeft"
    /\ Create(<<Node("TranslationUnit", Offset(pos + 2), 0, NoOp, <<>>)>>, Len(tree), 0)
    /\ Advance(1)
    /\ Then(<<Block>> \o (IF At("primary") THEN <<Postfix>> ELSE <<>>))
    /\ UNCHANGED outcome

\* A fault: the closing brace is not demanded at the end of the text.
BlockLoopOpen ==
    /\ At("block")
    /\ CASE peek(0) = "BrRight" -> Go(1, <<>>)
         [] peek(0) = "Eof"     -> Go(0, <<>>)
         [] OTHER               -> Go(0, <<Statement, Drop, Block>>)

BlockLoop ==
    /\ At("block")
    /\ CASE peek(0) = "BrRight" -> Go(1, <<>>)
         [] peek(0) = "Eof"     -> raiseError
         [] OTHER               -> Go(0, <<Statement, Drop, Block>>)

\* A fault: a missing operand is a null node and no error.
NoPrimaryQuiet ==
    /\ At("primary")
    /\ peek(0) \notin Prefix \cup Literal \cup Builtin \cup {"Ident", "kEval", "Left", "BrLeft"}
    /\ GoNull(0)

NoPrimary ==
    /\ At("primary")
    /\ peek(0) \notin Prefix \cup Literal \cup Builtin \cup {"Ident", "kEval", "Left", "BrLeft"}
    /\ raiseError

\* The loop of parsePostfixExpression.
Call ==
    /\ At("postfix")
    /\ peek(0) = "Left"
    /\ Go(1, <<Unless("Right", 0, Expression(0))>> \o
             <<Task("arguments", 0), Expect("Right"),
               Build("CallExpr", Here, NoOp, 2, <<1, 2>>), Postfix>>)

\* while (match(Comma)) parseExpression(0): only the first argument is kept.
MoreArguments ==
    /\ At("arguments")
    /\ IF peek(0) = "Comma"
       THEN Go(1, Expression(0) \o <<Drop, Task("arguments", 0)>>)
       ELSE Go(0, <<>>)

\* A fault: the member gets no node of its own.
MemberAccessBare ==
    /\ At("postfix")
    /\ peek(0) \in {"Dot", "Arrow"}
    /\ IF peek(1) = "Ident"
       THEN /\ Create(<<Node("MemberAccessExpr", Offset(pos + 1), 0, peek(0),
                             <<Last(vals), Null>>)>>, Len(tree), 1)
            /\ Advance(2)
            /\ UNCHANGED <<agenda, outcome>>
       ELSE raiseError

MemberAccess ==
    /\ At("postfix")
    /\ peek(0) \in {"Dot", "Arrow"}
    /\ IF peek(1) = "Ident"
       THEN /\ Create(<<Leaf(pos + 2),
                        Node("MemberAccessExpr", Offset(pos + 1), 0, peek(0),
                             <<Last(vals), Len(tree)>>)>>,
                      Len(tree) + 1, 1)
            /\ Advance(2)
            /\ UNCHANGED <<agenda, outcome>>
       ELSE raiseError

Subscript ==
    /\ At("postfix")
    /\ peek(0) = "SqLeft"
    /\ Go(1, Expression(0) \o
             <<Expect("SqRight"), Build("BinaryExpr", Here, "SqLeft", 2, <<1, 2>>), Postfix>>)

\* A fault: expr stays the operand.
PostfixOperatorKept ==
    /\ At("postfix")
    /\ peek(0) \in {"PPlus", "MMinus"}
    /\ tree' = Append(tree, Node("UnaryExpr", Offset(pos + 1), 0, peek(0), <<Last(vals)>>))
    /\ Advance(1)
    /\ UNCHANGED <<agenda, vals, outcome>>

PostfixOperator ==
    /\ At("postfix")
    /\ peek(0) \in {"PPlus", "MMinus"}
    /\ Create(<<Node("UnaryExpr", Offset(pos + 1), 0, peek(0), <<Last(vals)>>)>>, Len(tree), 1)
    /\ Advance(1)
    /\ UNCHANGED <<agenda, outcome>>

EndPostfix ==
    /\ At("postfix")
    /\ peek(0) \notin {"Left", "Dot", "Arrow", "SqLeft", "PPlus", "MMinus"}
    /\ Go(0, <<>>)

-----------------------------------------------------------------------------
(* Declarations.                                                           *)

\* The nodes of a declaration: its own, its type's and its name's; type and
\* name are leaves and init an id.
Declaration(kind, off, type, name, init, quals) ==
    <<[Node(kind, off, 0, NoOp, <<Len(tree) + 1, Len(tree) + 2, init>>) EXCEPT !.quals = quals],
      type, name>>

Declarator(do, quals, type, name) == Task(do, [quals |-> quals, type |-> type, name |-> name])

\* A fault: check where match is needed.
parseQualifiersCheck ==
    /\ At("statement") \/ At("param")
    /\ peek(0) \in Qualifier
    /\ Advance(0)
    /\ agenda' = [agenda EXCEPT ![1][2] = @ \cup {peek(0)}]
    /\ UNCHANGED <<tree, vals, outcome>>

\* Qualifiers before a statement or a parameter.
parseQualifiers ==
    /\ At("statement") \/ At("param")
    /\ peek(0) \in Qualifier
    /\ Advance(1)
    /\ agenda' = [agenda EXCEPT ![1][2] = @ \cup {peek(0)}]
    /\ UNCHANGED <<tree, vals, outcome>>

IsDecl == \/ "kAuto" \in arg
          \/ peek(0) = "kByte"
          \/ peek(0) = "Ident" /\ peek(1) = "Ident"

\* Tokens a statement can begin with and that are no qualifier, expression
\* or variable declaration.
Construct == {"BrLeft", "kIf", "kWhile", "kFor", "kReturn", "kStruct", "kNamespace",
              "kDelete", "kRequires", "kType"} \cup Jump

\* type T, with an optional base and an optional body.
TypeDeclaration ==
    /\ At("statement")
    /\ peek(0) = "kType"
    /\ Go(1, <<Expect("Ident"), Task("base", 0), When("BrLeft", 0, <<Statement>>), Skip("Semi"),
               Declarator("declare type", arg, Leaf(pos + 1), Leaf(pos + 2))>>)

BaseType ==
    /\ At("base")
    /\ CASE peek(0) = "Equals"         -> Go(1, Expression(0))
         [] peek(0) = "Colon"          -> Go(1, <<Primary>>)
         [] input[pos + 1] = "using"   -> Go(1, <<Primary>>)
         [] OTHER                      -> GoNull(0)

\* The body is linked if there is one, else the base.
DeclareType ==
    /\ At("declare type")
    /\ LET base == Latest(2)[1]
           body == Latest(2)[2]
       IN  Create(Declaration("TypeDecl", arg.type.off, arg.type, arg.name,
                              IF body # Null THEN body ELSE base, arg.quals),
                  Len(tree), 2)
    /\ Then(<<>>)
    /\ Stay
    /\ UNCHANGED outcome

VarDeclaration ==
    /\ At("statement")
    /\ peek(0) \notin Construct \cup Qualifier
    /\ IsDecl
    /\ IF "kAuto" \in arg
       THEN IF peek(0) = "Ident"
            THEN Go(1, <<Declarator("declarator", arg, MadeUp("kAuto"), Leaf(pos + 1))>>)
            ELSE raiseError
       ELSE IF peek(1) = "Ident"
            THEN Go(2, <<Declarator("declarator", arg, Leaf(pos + 1), Leaf(pos + 2))>>)
            ELSE raiseError

DeclaratorTail ==
    /\ At("declarator")
    /\ IF peek(0) = "Left"
       THEN Go(1, <<Unless("Right", 0, <<Param>>), More(Param), Expect("Right"),
                    Task("body", 0), Task("declare function", arg)>>)
       ELSE Go(0, <<When("Equals", 1, Expression(0)), Expect("Semi"),
                    Task("declare variable", arg)>>)

\* Without auto, any token is taken for the type, and the name may miss.
ParamDeclaration ==
    /\ At("param")
    /\ peek(0) \notin Qualifier
    /\ LET Named(n, type, name) ==
               Go(n, <<When("Equals", 1, Expression(0)),
                       Declarator("declare variable", arg, type, name)>>)
       IN  IF "kAuto" \in arg
           THEN IF peek(0) = "Ident"
                THEN Named(1, MadeUp("kAuto"), Leaf(pos + 1))
                ELSE raiseError
           ELSE IF peek(1) = "Ident"
                THEN Named(2, Leaf(pos + 1), Leaf(pos + 2))
                ELSE Named(1, Leaf(pos + 1), MadeUp("Unknown"))

FunctionBody ==
    /\ At("body")
    /\ CASE peek(0) = "BrLeft" -> Go(0, <<Statement>>)
         [] peek(0) = "Semi"   -> GoNull(1)
         [] OTHER              -> raiseError

\* The declaration comes before its leaves, its initialiser before it.
DeclareVariable ==
    /\ At("declare variable")
    /\ Create(Declaration("VarDecl", arg.type.off, arg.type, arg.name, Last(vals), arg.quals),
              Len(tree), 1)
    /\ Then(<<>>)
    /\ Stay
    /\ UNCHANGED outcome

\* A function comes after its leaves; its parameters are not linked.
DeclareFunction ==
    /\ At("declare function")
    /\ Create(<<arg.type, arg.name,
                [Node("FunctionDecl", arg.name.off, 0, NoOp, <<Len(tree), Len(tree) + 1, Last(vals)>>)
                    EXCEPT !.quals = arg.quals]>>,
              Len(tree) + 2, 2)
    /\ Then(<<>>)
    /\ Stay
    /\ UNCHANGED outcome

-----------------------------------------------------------------------------
(* Statements.                                                             *)

\* A statement that begins with a token in T, the only one consumed here.
StatementFrom(T, tasks) == At("statement") /\ peek(0) \in T /\ Go(1, tasks)

parseIfStatement == StatementFrom({"kIf"}, Conditional(Offset(pos + 1)))

parseWhileStatement ==
    StatementFrom({"kWhile"},
        <<Expect("Left")>> \o Expression(0) \o
        <<Expect("Right"), Statement,
          Build("CompileTimeJump", Offset(pos + 1), NoOp, 2, <<1, 2, 0>>)>>)

\* The increment is parsed and its node linked from nowhere.
parseForStatement ==
    StatementFrom({"kFor"},
        <<Expect("Left"), Unless("Semi", 1, <<Statement>>),
          Unless("Semi", 0, Expression(0)), Expect("Semi"),
          Unless("Right", 0, Expression(0)), Expect("Right"), Statement,
          Build("CompileTimeJump", Offset(pos + 1), NoOp, 4, <<2, 4, 1>>)>>)

parseReturnStatement ==
    StatementFrom({"kReturn"},
        <<Unless("Semi", 0, Expression(0)), Expect("Semi"),
          Build("UnaryExpr", Offset(pos + 1), "kReturn", 1, <<1>>)>>)

\* break and continue share a node kind with the loops.
JumpStatement ==
    StatementFrom(Jump,
        <<Expect("Semi"), Build("CompileTimeJump", Offset(pos + 1), peek(0), 0, <<0>>)>>)

\* The node keeps the name's offset, which is not modelled, and the body.
parseStructDecl ==
    StatementFrom({"kStruct"},
        <<Expect("Ident"), When("BrLeft", 0, <<Statement>>), Skip("Semi"),
          Build("StructDecl", Offset(pos + 1), NoOp, 1, <<1>>)>>)

parseNamespaceDecl ==
    StatementFrom({"kNamespace"},
        <<Expect("Ident"), Statement, Build("NamespaceDecl", Offset(pos + 1), NoOp, 1, <<1>>)>>)

DeleteStatement ==
    StatementFrom({"kDelete"}, Delete(Offset(pos + 1)) \o <<Skip("Semi")>>)

RequiresClause ==
    StatementFrom({"kRequires"}, <<Expect("Colon")>> \o Expression(0) \o <<Skip("Semi")>>)

ExpressionStatement ==
    /\ At("statement")
    /\ peek(0) \notin Construct \cup Qualifier
    /\ ~IsDecl
    /\ Go(0, Expression(0) \o <<Skip("Semi")>>)

\* The loop of parseTranslationUnit.  The guardrail skips a token if the
\* statement that began at offset arg consumed none.
UnitLoop ==
    /\ At("unit")
    /\ IF peek(0) = "Eof"
       THEN /\ outcome' = "done"
            /\ Stay
            /\ UNCHANGED <<tree, agenda, vals>>
       ELSE Go(0, <<Statement, Drop, Task("guardrail", Offset(pos + 1)), Task("unit", 0)>>)

Stuck == Offset(pos + 1) = arg /\ peek(0) # "Eof"

Guardrail == At("guardrail") /\ Go(IF Stuck THEN 1 ELSE 0, <<>>)

-----------------------------------------------------------------------------

\* The constructor has filled the window and the root is created.
Init ==
    /\ source \in Source
    /\ \E t \in Follow(<<>>) : \E u \in Follow(<<t>>) : input = <<t, u>>
    /\ pos = 0
    /\ tree = <<Node("TranslationUnit", 0, 0, NoOp, <<>>)>>
    /\ agenda = <<Task("unit", 0)>>
    /\ vals = <<>>
    /\ outcome = "run"

Helper == ExpectToken \/ SkipToken \/ DropId \/ Choose \/ MoreItems \/ BuildNode

ExpressionStep ==
    \/ BinaryOperator
    \/ PrefixOperator \/ Operand \/ parseEvalExpression \/ DeleteInParentheses
    \/ Parenthesized \/ OpenBlock \/ BlockLoop \/ NoPrimary
    \/ Call \/ MoreArguments \/ MemberAccess \/ Subscript \/ PostfixOperator \/ EndPostfix

DeclarationStep ==
    \/ parseQualifiers
    \/ TypeDeclaration \/ BaseType \/ DeclareType
    \/ VarDeclaration \/ DeclaratorTail \/ DeclareVariable
    \/ ParamDeclaration \/ FunctionBody \/ DeclareFunction

StatementStep ==
    \/ parseIfStatement \/ parseWhileStatement \/ parseForStatement
    \/ parseReturnStatement \/ JumpStatement
    \/ parseStructDecl \/ parseNamespaceDecl
    \/ DeleteStatement \/ RequiresClause \/ ExpressionStatement
    \/ UnitLoop \/ Guardrail

Next == Helper \/ ExpressionStep \/ DeclarationStep \/ StatementStep

Spec == Init /\ [][Next]_vars

\* A call that is not finished takes its next step.
FairSpec == Spec /\ WF_vars(Next)

-----------------------------------------------------------------------------
(* Properties.                                                             *)

NodeKind == {"TranslationUnit", "VarDecl", "TypeDecl", "StructDecl", "NamespaceDecl",
             "FunctionDecl", "BinaryExpr", "UnaryExpr", "LiteralExpr", "IdentifierExpr",
             "CallExpr", "MemberAccessExpr", "EvalExpr", "DeleteExpr", "CastExpr",
             "CompileTimeJump"}

NodeId == 0 .. Len(tree) - 1

\* Every variable has its type; links and held ids are null or nodes.
TypeOK ==
    /\ source \in Source
    /\ input \in Seq(Token)
    /\ pos \in Nat /\ Len(input) = pos + 2
    /\ \A i \in DOMAIN tree : /\ tree[i].kind \in NodeKind
                              /\ tree[i].off \in Nat
                              /\ Range(tree[i].kids) \subseteq NodeId \cup {Null}
    /\ Range(vals) \subseteq NodeId \cup {Null}
    /\ outcome \in {"run", "done", "error"}

\* No node has two parents, and an id a function still holds has none.
\* (parser.cpp:190-237 replaces expr by each node that comes to own it.)
LinksFormForest ==
    LET Links == UNION {{<<n, i>> : i \in DOMAIN tree[n].kids} : n \in DOMAIN tree}
        To(l) == tree[l[1]].kids[l[2]]
    IN  /\ \A k, l \in Links : To(k) = To(l) /\ To(k) # Null => k = l
        /\ \A l \in Links : To(l) \in ToSet(vals) => To(l) = Null
        /\ \A i, j \in DOMAIN vals : vals[i] = vals[j] /\ vals[i] # Null => i = j

\* parseStatement consumes a token whenever it returns, so the guardrail of
\* parser.cpp:636, which would skip a token unseen, never has to.
GuardrailIdle == At("guardrail") => ~Stuck

\* The tokens that became operands, types or names.
IsLeaf(p) == \E i \in DOMAIN tree : tree[i].len = 1 /\ tree[i].kids = <<>> /\ tree[i].off = p - 1

Consumed == {p \in 1 .. pos : input[p] # "Eof"}

\* A name that is kept by offset only, and the contextual "using".
Nameless(p) ==
    /\ p > 1
    /\ \/ input[p - 1] \in {"kStruct", "kNamespace"}
       \/ input[p] = "using" /\ p > 2 /\ input[p - 2] = "kType"

\* A parse that succeeds has skipped no operand: every identifier and every
\* literal of the text has one leaf.
NothingSkipped ==
    outcome = "done" =>
        \A p \in Consumed :
            TypeOf(input[p]) \in Literal \cup {"Ident"} =>
                \/ Nameless(p)
                \/ Cardinality({i \in DOMAIN tree :
                       /\ tree[i].off = p - 1
                       /\ tree[i].len = 1
                       /\ tree[i].kind \in {"LiteralExpr", "IdentifierExpr"}}) = 1

\* Brackets are matched, except one that stood where a parameter's type is
\* expected: parser.cpp:368 takes any token there.
Closing == [Left |-> "Right", SqLeft |-> "SqRight", BrLeft |-> "BrRight"]

\* What is open after a token, where open was before it.
Read(open, token, leaf) ==
    IF leaf THEN open
    ELSE IF token \in DOMAIN Closing THEN Append(open, Closing[token])
    ELSE IF token \in Range(Closing)
         THEN IF open # <<>> /\ Last(open) = token THEN Front(open) ELSE <<"error">> \o open
    ELSE open

\* What is open after the first p tokens that have been consumed.
Open[p \in 0 .. pos] ==
    IF p = 0 THEN <<>> ELSE Read(Open[p - 1], input[p], IsLeaf(p))

BracketsMatch == outcome = "done" => Open[pos] = <<>>

\* break, continue and the loops are one kind; what tells them apart is the
\* first byte of the node's payload, which is an operator in the first two
\* and the low byte of the condition's id in a loop (AST_def.h:57-66).
FirstByte(n) ==
    CASE n.op = "kBreak"    -> 7
      [] n.op = "kContinue" -> 8
      [] OTHER              -> n.kids[1] % 256

IsJump(n) == FirstByte(n) \in {7, 8}

\* AST_manager.cpp:125: "Se si tratta di un break o continue (memorizzati via
\* data.unary)".  Violated by a loop whose condition is node 7 or 8.
JumpsReadBack ==
    \A i \in DOMAIN tree :
        tree[i].kind = "CompileTimeJump" => (IsJump(tree[i]) <=> tree[i].op \in Jump)

\* Every source is accepted or rejected.
Terminates == <>(outcome # "run")
=============================================================================
