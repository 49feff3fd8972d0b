# Logic_compiler in TLA+

A specification of the Logic compiler (`src/Logic_compiler`), the TLC
configurations that check it on small instances, and proofs of its main
invariants for every instance. Paths below are relative to
`src/Logic_compiler/`.

At this commit the program that runs is the preprocessor: `Logic_compiler.cpp`
builds one `Preprocessor` on one file and calls `process()`. The lexer, the
parser, the AST store, the code generator and the type registry exist as
libraries around it; the typer, the compile-time evaluator and the runtime are
empty files. Modelled here are the preprocessor and the file manager under it,
the lexer, the parser, the AST file, the code generator behind the parser, and
the type registry. The end of this document lists what is left.

## The system

| component | state | operations | what makes it hard | what makes it correct |
|---|---|---|---|---|
| **Preprocessor** `src/preproc/` | stack of frames (file, cursor), macro table, stack of branch flags, active directive, output | `process()`; one handler per directive; `evalCondition`; `skip_if_branch` | four pieces of state with different lifetimes: frames end with their file, macros and flags do not; every handler moves the one cursor itself; lengths are unsigned 32-bit differences | output is the promised text; reads stay inside files; no text is read twice or lost; it returns |
| **FileManager** `src/file/` | one byte buffer, an index of `FileInfo` | `loadFile`, `loadFromView`, `pop`, offset reads | offsets into a growing buffer are handed out; line ends are normalised in place; files change on disk | entries tile the buffer; a name is loaded once; contents are what was on disk, with `\n` ends |
| **Directive hashing** `preproc_token.h`, `common/hashing.h` | none | `macro_hash_match`, `macro_name_pack` | words compared by hash only; packing of long names | a word is recognised iff it is a directive |
| **Lexer** `src/lexer/` | cursor, token buffer | `nextToken`, `setSource` | look-ahead at the end of the source, unterminated literals | tokens tile the source outside blanks and comments |
| **Parser** `src/parser/` | two-token window, growing tree | recursive descent, precedence climbing | references into the window across `advance()`; progress on errors | every token consumed once; operands bound by precedence |
| **AST** `src/common/AST/` | vector of nodes | `createNode`, `saveToFile`, `loadFromFile` | short reads, failing writes, ids that outlive nodes | load after save is the identity, or reports failure |
| **Compiler** `src/compiler/` | scope chain, IR builder's insertion point | `codegen*` | exceptions between push and pop, an insertion point nobody restores, nodes visited twice | one visit per node, scopes balanced |
| **Type registry** `src/typer/type_def.h` | `TypeArena` words, `TypeList` entries | `push`, `rollback` of each | two stores rolled back separately | ids are places; a record that was not cut reads back as it was pushed |
| **Driver** | none | `main` | - | - |
| LLVM headers, TrincaC `cc::` containers | - | - | vendored, or not in the repository | external |

Everything runs in one thread and nothing is persisted but the AST file. What
is hard to test is long sequences of legal directives across files, the ends
of files and of 32- and 16-bit ranges, state that one construct leaves behind
for the next, node ids and offsets kept in locals while more is parsed, visits
that overlap, writes that fail late, and two stores cut back separately. `PROJECT.json` lists each such
hazard at its line with the properties that cover it.

Interaction: `Preprocessor` owns a `FileManager`. Its constructor and
`handle_include` call `loadFile`; from then on a file is a `Snippet` (offset,
size) in the manager's buffer, and frames and macros hold such snippets. It
never calls `pop`, so a loaded text stays where it is. `process()` writes
`output_buffer`, which `get_result()` hands to a caller of the later stages.
`Parser` pulls tokens from a `Lexer` one at a time and returns an `ASTTree`,
which `Compiler` reads and `ASTManager` saves and loads; both find a node's
text by its offset in the source. Nothing calls the type registry yet.

## Modules

| module | role |
|---|---|
| `PreprocText` | texts as sequences of lexical units; `findNext`, `ol`, `ol_back`, trims; where the names and values of `#define`, `#define_m` and the type of `#param` end |
| `Preprocessor` | the state machine of `process()`; its properties |
| `PreprocReference` | an independent, line-by-line definition of the output the language's documents promise, with conditions as in C and imported files apart, and of which conditions the program agrees on (TLC only) |
| `MCPreprocessor` | corpora of source files for the passing runs; properties that compare with `PreprocReference` |
| `MCDivergence` | corpora of the preprocessor runs that show a disagreement between documents and code |
| `FileStore` | what the file manager promises: a stack of named texts, each loaded once |
| `FileManager` | the buffer, the index and `loadFile`'s loop; refines `FileStore` |
| `MCFileManager` | its instance |
| `Lexer` | the state machine of `nextToken` and `setSource` |
| `LexReference` | the language of lexemes and three properties stated on the text alone |
| `MCLexer` | its instances |
| `Parser` | recursive descent with its window, nodes and guardrail, over any token sequence |
| `MCParser` | its instances; how an expression must group, defined over its tokens |
| `CodeGen` | the compiler's walk over the parser's tree: composes with `Parser` |
| `MCCodeGen` | programs put together from statements; the functions with a body that do not compile |
| `AstStore` | what saving and loading a tree promises: some first nodes of the last save |
| `AstFile` | `saveToFile` and `loadFromFile` through a buffered stream; refines `AstStore` |
| `MCAstFile` | its instance |
| `TypeStore` | `TypeArena` and `TypeList` |
| `MCTypeStore` | its instance |
| `OrderProofs` | least and greatest elements of sets of integers; concatenations of sequences |
| `PreprocessorProofs` | the range of every cursor `PreprocText` computes; invariants of `Preprocessor` |
| `FileManagerProofs` | invariants of `FileManager`, and that it implements `FileStore` |
| `LexerProofs` | invariants of `Lexer`, and that its tokens are those of `LexReference` |
| `ParserProofs` | invariants of `Parser`, and the discipline of its tasks |
| `CodeGenProofs` | invariants of `CodeGen`, and which trees it cannot compile |
| `AstFileProofs` | invariants of `AstFile`, and that it implements `AstStore` |
| `TypeStoreProofs` | invariants of `TypeStore` |

Operators named as a *fault* in the code modules are mutated forms of the
definition that follows them; they are used only to confirm that a property
fails when the code is wrong in that way.

### Preprocessor: state and actions

| variable | code |
|---|---|
| `disk` | the files below `base_path`; a file loaded twice is the same text (`FileManager`) |
| `inputStack` | `inputStack`: file and `PCursor` |
| `storedMacros` | `storedMacros`: name to snippet; a snippet's absolute offset is a file and an offset in it |
| `branchFlags` | `branchFlags`: `ACTIVE` and `EVER_TAKEN` per entry |
| `currActive` | `currActive` |
| `output` | `output_buffer` |
| `pc` | which loop runs: `process`'s, the literal's, `evalCondition`'s recursion, `skip_if_branch`'s; or how `process()` ended |
| `ret` | the failing directive's return code |
| `cond` | `evalCondition`'s argument |
| `quote` | local `quote` of the literal copier |
| `skip` | locals `nestCount`, `stringed1`, `stringed2` of `skip_if_branch` |

One action is one iteration of one of those loops: `PopFrame`, `CopyComment`,
`CopyIdent`, one `Handle...` per directive (with every cursor move, early
return and table update of the handler), `EvalRecurse`, `EvalDecide`,
`EvalOutside`, and the `Skip...` actions. `HandleInclude` is also `#import`:
`handle_import` calls `handle_include`.

Texts are sequences of **units**, not characters: a newline, a run of blanks,
a quote, a comment bracket, a directive word, an identifier, or a word that
only passes through. Cursors count units from 0. Every comparison the code
makes is between units, so control is kept whole; what is abstracted is how
many characters a unit has. Texts are assumed *lexed*: two adjacent units do
not join into another (the corpora are built so, and `Lexed` filters the
arbitrary ones). `uint32_t` differences wrap at `Wrap`, `nestCount` at
`NestMod`. Each text is shorter than `Wrap`, as a file is shorter than 4 GiB;
the lengths the model computes can still wrap, and do.

A continuation mark is one unit, `cont`, and no identifier; the code reads the
first two characters of `__/__` as a name where one may stand, so the corpora
put the mark only where no directive reads a name.

A condition whose length wrapped (`EvalOutside`) makes `evalCondition` read
4 GiB past the text: the model lets it answer either way or stop the program.
`ReadsInBounds` says that no other condition's view leaves its file.

If the root file is missing the constructor builds a frame of size 0, which
the first iteration drops; the model starts with no frame.

### FileManager: state and actions

`data` and `loaded` are the members of those names; `files` is the directory,
which other programs write between calls (`Rewrite`); `load` holds the locals
of `loadFile`. `ReturnCached`, `LoadMissing`, `LoadBegin`, `NormaliseByte`
(one iteration of the line-end loop, reading and writing the same buffer) and
`LoadEnd` are `loadFile`; `LoadFromView` and `Pop` are the other two calls.
Bytes are `CR`, `LF`, `NUL` and letters. `MaxEntries` bounds the files loaded
at a time; it is the model's only artificial guard.

### Lexer: state and actions

`source`, `cursor` and `thisExpr` are the members of those names, `start` is
the local of `lexString` and `lexChar`, `pc` tells which loop of `nextToken`
runs. Comment and literal loops take one action per iteration
(`LineComment`, `BlockComment`, `CopyLiteral`), because their steps are one or
two characters wide and can fall out of step with the text; words and numbers
are runs of one kind of character and take one action each (`RunEnd`).
Characters the lexer never tells apart are one character; a null character is
a character like any other, which `peek` also answers past the end. A token is
`globalOffset`, `size` (modulo `LengthMod`, 2^16 in the code) and `type`; the
types of keywords and operators are their spelling in `TT_STRMAP`. `extra` and
`flags` are constants in the code and left out. `MaxTokens` bounds the calls
of `nextToken` between two of `setSource`. The parser calls `nextToken` only;
`getText` is modelled because it is what makes an offset and a size a text.

`LexReference` defines the words, numbers and operators of the language by
what they look like (`TT_STRMAP`'s operators, a number as digits, fraction,
exponent and suffixes), and the end of a literal by the parity of
backslashes, none of which the lexer does.

### Parser: state and actions

| variable | code |
|---|---|
| `source` | what the lexer may give: for each place a set of tokens, then the end |
| `input`, `pos` | the tokens given so far and how many have left `window`; the last two are the window |
| `tree` | `tree.nodes`; node id `i` is `tree[i + 1]` |
| `agenda` | what the C++ call stack still has to do, the next task first |
| `vals` | the node ids callers hold in locals |
| `outcome` | running, returned, or `raiseError` has thrown |

Tokens are chosen when the lexer is asked, not before, so that texts share
their beginnings. A parse function consumes its first token and puts the rest
of its body on the agenda as tasks (`Expect`, `When`, `Build`, ...): one action
per function, alternative or loop iteration. Node creation keeps its order
(a block's node comes before its statements, a variable's before its leaves, a
function's after them), because the code generator depends on it. The
parser's `const Token& tok = peek(0)` is a reference into the window: the
offsets of blocks and casts are those of the token in the window by then
(`Here`, and `pos + 2` in `OpenBlock`). A node's offset counts tokens, its
length is 1 or 0. An exception ends the parse, as nothing in the parser
catches it.

### CodeGen: state and actions

`CodeGen` extends `Parser`: the parse runs first, then `compile` starts the
walk on its tree. `todo` and `values` are to the visits what `agenda` and
`vals` are to the parse functions; `scopes` is the chain from the root to
`currentScope`; `block` is the builder's insertion block (none, open, or
ended by a terminator); `module` is LLVM's symbol table. Of a value only its
class is kept (null, constant, stack slot, other result), because that is what
the code asks of it. LLVM is external, with these assumptions: a
second object of a name is renamed; an operation on constants folds to a
constant; an instruction without a block is created detached; asking a missing
block for its function, or using a null value where one is dereferenced, is
undefined and ends the model's run as `undefined`. So does the end of a loop,
whose block is inserted into the function a second time (`Join`): LLVM stops
at an assertion or its list of blocks is broken, which the walk may also
survive unnoticed. `MaxDepth` stands for the
C++ stack: a walk deeper than that ends as `overflow`.

### AstFile: state and actions

The file is a sequence of units, the count and the nodes. `SaveOpen`,
`WriteNode`, `SaveResult` and `Close` are `saveToFile`, whose result is taken
before the destructor (`Close`) flushes; `LoadCount`, `LoadNode` and
`LoadDone` are `loadFromFile`. The stream is external: `Flush` moves the next
buffered unit to the disk at any time, `FlushFails` loses the rest and fails
the stream, and `Crash` may come between any two steps. Assumed of it: units
reach the disk in order; what has been flushed survives the process; a unit of
which only some bytes arrived reads as the end of the file; a missing file
reads as an empty one would (neither changes the tree). `of` and `lost` are
history variables: the tree of the last save, and whether its stream failed in
the destructor.

`AstStore` says what that amounts to for a caller: the disk holds the first
`have` nodes of the last save's tree, and a load answers with exactly these
and says whether they are all. The refinement takes a load to happen at its
first step, when the count and the disk already decide it.

### TypeStore: state and actions

`arena` is `TypeArena::raw`, `types` is `TypeList::raw`. `ArenaPush`,
`ArenaRollback`, `ListPush` and `ListRollback` are the four calls, with any
argument the parameter's type allows within one of the bounds: both rollbacks
also go to places that are no boundary. `records` is a history variable: what
was pushed and not cut since. A list entry may outlive its record, since
nothing in the code ties the two rollbacks; what `get` answers for such an
entry is a caller's matter and no property here. `MaxWords` and `MaxTypes` bound what there is
before a push.

## Runs

The passing runs check deadlock except `parser` and `codegen`, whose behaviours
end with a returned or failed call: a preprocessor that has returned stutters
(`Terminated`), a file manager can always be called, and so can
`setSource` of a lexer between two tokens, the AST file, and the registry.

| run | sources | shows |
|---|---|---|
| `well_formed` | every conditional with `#if`, `#else`, `#elif` nested to depth two, with empty and non-empty branches, alone and in sequence, some with quoted or commented directives; macro tables from three of ten pieces (definition, alias, redefinition, empty value, `#param`, guard, comparison) with uses between them; graphs of guarded headers that include each other or themselves, a last line without newline, a module configured by `#define` and `#param`, an import | no directive fails on a well-formed source, and no line that should come out is lost (`NothingLost`). Where every conditional has an `#else` and no `#elif`, every condition reached is settled, and no imported file uses the importer's macros, the output **is** the promised one. A macro disappears only into a declaration; no text is read twice |
| `raw` | after each directive, every lexed sequence of up to four or five units of an alphabet chosen for it, most of them malformed; include cycles; `NestMod = 4`, so that the nest counter wraps | types; that cursors and macros stay in their files, and conditions do unless the line has none; flags in dead text, cursors that only advance, and that `process()` returns |
| `file_manager` | three names (one a prefix, one a suffix of another), contents with `\r\n`, `\r`, `\n` in every neighbourhood, two texts from memory, three entries | the buffer implements `FileStore`; entries tile it; the write index stays behind the read index; no name twice |
| `lexer` | every text up to five characters over alphabets for comments and for literals, up to four for numbers and words (six behind `1.0` and `0x`), up to three operators; two keywords of which one begins the other; two texts for `setSource` | a token is the longest lexeme that begins where it does; gaps hold blanks and comments only; literals end at their quote; tokens are ordered; every call returns, also on open comments and literals and null characters |
| `parser` | every text of up to eight tokens over alphabets chosen for `if`/`while` and blocks, declarations, parameters, `for`, `eval` and the remaining statements; every pair of binary operators, and triples of one per level; a text over an alphabet may end anywhere | expressions group by precedence and from the left, as `Grouped` computes it over the tokens without parsing (`ExpressionsGroup`); no node gets two parents (`LinksFormForest`); no operand is dropped (`NothingSkipped`); brackets match (`BracketsMatch`); the guardrail never has to act (`GuardrailIdle`); every parse ends |
| `codegen` | every pair of 26 statements (declarations, `constexpr`, assignments, `if`, `while`, calls, functions, types, blocks) behind three preludes | a scope is open exactly for each unfinished block and function; a tree that compiles has its identifiers declared before use; `compile()` ends, with success, an error, undefined behaviour or a full stack |
| `ast_file` | every tree of up to three nodes of two kinds; any number of saves, loads, edits, failing writes and crashes | a load that answers true gives the last save's tree; a save that answers true left it whole, unless the destructor failed; `AstStore` is implemented |
| `type_store` | records with and without flags and members, up to seven words before a push; every rollback target | ids are places, primitive types keep theirs; uncut records read back as pushed |

The bounds are where the interesting cases are: depth two is the least at
which flags of one conditional can be mistaken for another's; three macro
pieces are the least for define, redefine and absorb; two headers the least
for a cycle; four units after a directive reach every early return of its
handler and the accepting path; two line-end characters side by side are all
the look-ahead of the loop sees; three binary operators of different levels are
the least at which climbing has to return more than one level; seven tokens
hold an `if` with a block, an `else` and what follows; two statements are the
least of which one can disturb the other's scope or block, and the preludes
supply the third; three nodes are enough for a file cut before, within and
after its nodes; seven words hold one record with flags or members and a cut
inside it before the next push. Three operator characters are the longest
operator, and
five characters a block comment with one character inside, or a literal with
an escaped backslash before its quote.

`OutputMatchesPromise` compares with `PreprocReference`, which knows nothing of
the program: a condition is a number, a name or a comparison of two, a name
stands for its text and an undefined one for 0, and anything but 0 is true; an
imported file begins with no macros and the importer goes on with its own. On some conditions the program decides otherwise (a
number above 1, a name without text, an undefined name in a comparison), which
`Settles` names and "Further disagreements" lists; a source that meets one is
left to `WellFormedNeverFails`. With `#elif`, or a nested conditional without
`#else`, the code may emit *too much*, and `NothingLost` shows that it never
emits too little.

Four runs expect a violation: each exhibits one place where the code does not
do what a document or a comment of the repository says.

| run | the code | the document |
|---|---|---|
| `div_elif` | in dead text, `#elif` at the conditional's level ends the skipping; its condition is emitted as text, its branch taken | `example_preproc_01.lgc:73` |
| `div_nested` | the `#endif` that ends skipping leaves its flags on the stack | `Example.lgc:5` |
| `div_loop` | a loop whose condition is node 7 or 8 (modulo 256) reads as a `break` or `continue`, in `dumpToString` and in the code generator, because the untagged payload's first byte is taken for an operator | `AST_manager.cpp:125` |
| `div_body` | a block visits every node behind it, and a function is a node behind its body: `int f() {}` is visited from its own body until the stack is full | `ex_alpha_01.lgc:28` |

Fairness: `WF_vars(Next)`, in the runs of the preprocessor. The program is one
thread without blocking calls, so a step that can be taken is taken; nothing
stronger is assumed. In the lexer a call of `nextToken`, once made, runs on
(`WF_vars(Lex)`); nobody has to call. In the parser and the code generator a
call of `parseTranslationUnit` or `compile` runs on (`WF` of `Next` and of
`GenNext`). The file manager, the AST file and the type registry are driven by
calls that need never come, and have no fairness; nothing obliges a buffered
stream to flush before it is closed.

## Proofs

Checked by TLAPS, for every value of the constants that satisfies the named
assumptions (`CorpusAssumption`: each file is a sequence of units shorter than
`Wrap`; `RootAssumption`, `NestAssumption`, `WrapAssumption`; `NameAssumption`:
names are non-empty and free of NUL; `ContentAssumption`, `BoundAssumption`;
`SourceAssumption`: the lexer's texts consist of its characters;
`LengthAssumption`; `TreeAssumption`: trees are sequences of nodes;
`AtomicsAssumption`, `WordAssumption`: a member is three words).

*Preprocessor* (`PreprocessorProofs`): `TypeCorrect`, `NothingReadOutside`,
`DeadBranchesInactive` and `NothingReadTwice` state the properties of the
`raw` run as theorems of `Spec`. `TypeOK` alone is not inductive. Emitting a
macro yields units only if the snippet is inside its file; moving the top
frame's cursor means something only if there is a frame; and skipping is sound
only if whoever entered it left a conditional open and inactive. `IInv` is the
conjunction of seven parts (`DiskOK` ... `OutputOK`), each proved to be kept
by each action with one lemma per action; `LoopOK` carries what each inner
loop finds on entry, `CondOK` in it where the condition lies. `ReadsOn`, the step property behind `NothingReadTwice`,
is proved beside it from the same hypotheses. `MacrosAbsorbed` states the
action property `AbsorbedMacroIsDeclared` of the `well_formed` run: a step that
takes a name off the macro table takes no other, and appends exactly its
declaration to the output (`Absorbs`). The module's first lemmas bound each cursor
that `PreprocText` computes; the interesting ones are
`OlBackRange`, which does *not* bound `ol_back` below by the condition's begin,
and `OlBackStops`, which does if a unit other than a blank is between: a
condition's length wraps exactly when there is none, and the rest of the
invariant holds although it does.

*FileManager* (`FileManagerProofs`): `TypeCorrect`, `EntriesNeverOverlap` and
`NormaliseInPlace`. Their conjunction is inductive: the loop keeps the buffer
typed because the write index is at or behind the read index, and the entries
stay tiled because the loop writes only above them. `NamesLoadedOnce` and
`ImplementsStack`, the refinement of `FileStore`, need more. `IndexOK` says
that entries lie apart and in order (`Apart`), that their names differ
(`NamesOK`: a statement about bytes, since names stand in the same buffer),
that the last answer is an entry that is still there (`AnswerOK`), and that a
load in progress has written a name no entry carries (`LoadOK`). `LinesOK`
says what the loop of `loadFile` has done so far: what it has written are the
`UnixLines` of what it has read, and what it has yet to read is still as it
was on disk, although both are in one buffer. `UnixLines` picks the kept bytes
by rank, so that no recursion is needed to say what it gives
(`UnixLinesAt`). The one hypothesis is `EmptyName \notin Name`: a file called
like the sentinel `_EMPTY_SV`, seven bytes `0xFF`, is never found by
`_findFile` and would be loaded again by every call.

*Lexer* (`LexerProofs`): `TypeCorrect` and `TokensInOrder`, for texts of any
length and any `LengthMod`, so with the 16-bit cut taking effect. Their
conjunction is inductive. The lemmas bound where a run, a number and an
operator end: each look-ahead the lexer acts on saw a character other than
null, which `AtInside` says is inside the source. A token's size is at most
what the cursor moved by, because the cut only makes it smaller.

The three properties of `LexReference` speak of the text a token covers and
are false of a token whose length was cut, so their theorems have the
hypothesis `ShortTexts`: every text is shorter than `LengthMod`, 64 KiB in the
code. The texts of the `lexer` run satisfy it.
`NothingBetweenTokens` (`GapsAreBlank`) rests on `GInv`: besides the gaps left
behind, the text from the last token to the cursor is blank, or a line
comment's beginning, or a block comment's, as the loop that runs requires
(`BlankIn`, `LineFrom`, `BlockFrom`); one action extends one of these by one
step, and the end of a comment turns it into a blank. `LiteralsAreWhole`
(`LiteralsClose`) rests on `LInv`: in an open literal no quote so far closes
it, and the character under the cursor has an even number of backslashes
before it, unless the text is over (`OpenAt`); the loop's two-character step
over a backslash keeps the parity, which is why an escaped backslash never
protects the quote behind it. `MaximalMunch` (`LongestLexeme`) rests on `MInv`: no extension
of a token by any number of characters is a lexeme. For words this is where a
run ends; for numbers a decomposition of any decimal lexeme into digits,
fraction, exponent and suffixes (`DecimalParts`) shows that each optional part
is taken exactly when one is there (`SplitLongest`); for operators the nested
switch is shown to answer as a table of spellings would
(`SwitchIsSpelling`), whose longest match it then is (`OperatorIsLongest`).

*Parser* (`ParserProofs`): `TypeCorrect`, `LinksFormAForest`,
`LinksAreAcyclic`, `GuardrailNeverSkips`, `OperandsComeFirst`, `NoOperandSkipped` and
`BracketsAreMatched`, for sources of any length and any sets of tokens.
`TypeOK` is far from inductive, because what a task does depends on the node
ids its callers left in `vals`. The invariant is the discipline of the stack of
tasks: `Remains` says that there is a number of held ids for every place of the
agenda such that each task finds what it takes (`Takes`), leaves what it gives
(`Gives`), and the last, the loop of the translation unit, is reached with
none. `Grown` says that links and held ids are nodes of the tree or null, and
that no node is linked twice, held twice, or linked and held, which is
`LinksFormAForest`; that there is no circle of links takes the order of the
nodes as well (`LinksAreAcyclic`, from `OperandsComeFirst`). `WindowOK` relates the window to what the lexer gave, and `Guarded`
says that a guardrail set where the parser still stands waits behind a task
that consumes a token, so it never has to. Each
parse function has one lemma, which says what it takes from `vals` and what it
puts on the agenda. `OperandsComeFirst` states what no run checks and the code
generator relies on: a node has the links its kind needs, and all but the type
and the name of a declaration point to nodes created before it; those two are
identifiers without links, created after it.

That nothing is skipped and that brackets match are promises about the end of
a parse; in the middle a token may be the tree's or still an argument of a
pending call. `LeafInv` follows each token: it is `Taken` when a node is its
leaf or a declaration on the agenda holds that leaf to create it. Nothing
beyond what was read is taken (`Placed`), no token is taken twice (`Once`), and
each identifier and literal that was read is taken, unless it is a name kept
by offset only (`Kept`). Two details of the code decide the shape of the
invariant. `parseTypeDecl` takes the leaf of a name before it consumes the
token, so the count of what was seen runs one ahead just then (`Naming`,
`Seen`); and the name of a struct or namespace, and the `using` before a base,
are consumed without a leaf, so a task that may consume such a word stands
right behind its keyword (`NamesFollow`). A node whose length is 1 need not be a leaf: a unary
operator has that length too, and `Kinds` tells the two apart. `EofLast` says
that nothing follows an Eof.

`BracketsOK` says that there is a history of what was open after each token,
and that the pending tasks, each demanding at most one bracket, turn what is
open now into nothing (`Closes`). A token on which a leaf stands counts for no
bracket, and a leaf a declaration still holds is created later: `Taken` covers
both, so no step changes what an earlier token meant. At the end only the
unit's loop is left, which demands no bracket; `OpenIs` shows that the history
is then the function `Open` of the property. Each action has one lemma for
both (`...Sound`), from a few rules about what a step may put in the place of
the first task (`Splices`): tasks that read no leaf (`StillGo`), balanced
brackets, a name, a declaration.

*CodeGen* (`CodeGenProofs`): `ScopesBalanced`, `WalkTypes`,
`SuccessfulTreesDeclare` and `BlockOwnersFail`, for every source, stack depth
and tree, the walk's overlapping visits included.
`GInv` says that the stacks are sequences and that the scopes in the chain are
one more than the visits in `todo` that will close one. The composition's
next-state relation leaves the tree alone while the walk runs, so all of
`ParserProofs` holds of what the code generator reads.
`SuccessfulTreesDeclare` uses it. A
visit goes to more nodes than one and a block's loop comes back to nodes its
statements have visited, so no order of the visits is an invariant; how far
they have come is. `Frontier` says that there is a number of nodes reached: all
tasks in `todo` are about these, the open scopes hold only names of declarations
among them, each identifier among them is declared (the last may be the one to
be visited next), and while nodes remain a block is waiting to go on to them. A
visit to an operand cannot go past the frontier, because operands come first; a
block's loop moves it by one node at most. When nothing is left to visit no
block waits, so every node was reached.

`BlockOwnersFail` explains `div_body` and takes the same two facts the other
way. A block that is a variable's initialiser, a function's body, the condition
or a branch of an `if`, or an operand of a binary or unary expression is a node
before the node that owns it (`BracedKids`), and a block visits every node
behind it, its owner included, which visits the block again. Blocks elsewhere
are not covered, and some compile: a struct's, a namespace's, the operand of
`delete`, a call's argument. `Circling` says
that the agenda always holds a task that will come to such an owner
(`Approaches`): a visit to it or to a block before it, a block's loop that has
not passed it, or a branch that still has its block to visit. So the agenda is
never empty while the walk succeeds; it ends in an error or a full stack. The
one way round a block would be to take it for a constant expression, and that
fails. For this, and for `WalkTypes`, one must know what `Constant` gives, which
a recursive definition does not say by itself: `ConstantValues` shows that a
function with the defining equation exists, because the least node that had no
value would have operands before it. `WalkTypes` adds to the walk's invariant
that every symbol in a scope has a value (`ScopesOK`), that a visit which takes
values finds them (`ValuesOK`, `TasksInTree`), and that the block and the
module's entries are of their kinds (`OutputOK`).

*AstFile* (`AstFileProofs`): `TypeCorrect`, `NeverATornTree`, `SavesAreWhole`
and `Refinement`, for every set of trees and so for files of any length.
`LoadedIsSaved` says nothing of the file a load began on, so the invariant
adds five parts: the disk followed by the buffer is a beginning of the last
save's image (`DiskOK`, `BufferOK`); while the stream is good it lacks only
what is not written yet (`WriteOK`); what a load has read is a beginning of
its tree (`LoadOK`); and an answer outlives its call (`AnswerOK`). From there a load that reaches its count has read the
whole image. The refinement has one step per action: `WriteNode` and the steps
of a load after the first stutter, `Flush` is `Reach` or stutters on failure,
and `LoadCount` is the abstract `Load`.

*TypeStore* (`TypeStoreProofs`): `TypeCorrect`, `IdsDense` and
`RecordsSurvive`, for records of any length and any rollbacks. That a record
reads back is not inductive, because it speaks of the arena through fields
stored in the arena; the invariant says instead that each uncut record stands
there word by word (`Written`), which pushes extend and cuts below its end
remove from `records`.

Only model-checked, and why:

- `OutputMatchesPromise`, `NothingLost`, `WellFormedNeverFails`: they compare
  with a recursive reference, and hold only for the fragment of well-formed
  sources the corpora enumerate.
- `ExpressionsGroup`: `Grouped` is recursive over the tokens.
- `Terminates` and every other property under fairness, which is outside the
  prover's reach.

## Not modelled

- The vendored LLVM headers under `extra/LLVM`, which are most of the
  repository's lines and no part of the program's logic; LLVM appears as the
  external assumptions of `CodeGen`.
- `macro_name_pack` and the rest of `common/hashing.h`: no caller in the
  program; `macro_hash_match` is taken as exact on directive words.
- Files without content (`runtime`, `comptime`, `typer`, `evaluator`,
  `literating`), and the driver, which only runs the preprocessor.
- Log output and timing of the preprocessor.
- Character-level lexing inside a unit; source texts in which a `/` or `#`
  joins its neighbour into a different unit than the one it was written as.
- `findInLine`, `findPrev`, `peekToNext`, `skipToNext`, `possible_match`,
  `check_packing`: no caller. (`possible_match` also lacks a return.)
- 32-bit truncation of file and buffer sizes, short reads, paths.
- Of the lexer: sources of 4 GiB and more, whose positions do not fit a
  `Cursor`; the locale of `isxdigit`; the page size of `thisExpr`.
- Disagreements of the preprocessor's text handling, without a run: including an empty
  file fails with -2 (`preprocessor.cpp:621`), although
  `example_preproc_02.lgc:27-28` describes an inclusion without that case; a
  `#param` without a default is accepted (`preprocessor.cpp:845`), although
  `Example.lgc:43` requires one; `#define_m`
  keeps the newline after its names as part of the value although
  `Example.lgc:12-13` shows a block of lines, and the continuation mark of a
  multi-line `#define` stays in the value although `Example.lgc:8` describes
  it as a line joiner.
- An unguarded include cycle, which grows the stack without bound.
- Of the parser: error texts, the name offsets of `struct` and `namespace`
  nodes, the `auto` of `delete`. Of the compiler: operand types, values of
  literals, what `verifyFunction` reports, `dumpIR` and `emitIRToFile`. Of the
  AST: `dumpToString`. `typeflags.h`, whose constants nothing uses.

### Further disagreements

Met while modelling and not given a run:

- An apostrophe in dead text hides directives up to the next one, also
  `#endif` (`preprocessor.cpp:329`, `example_preproc_01.lgc:102`).
- `#if` with nothing but blanks behind it computes a length of nearly 4 GiB
  (`preprocessor.cpp:642`, `preproc_token.h:98`).
- `#if A` with `A` defined as 2 is false (`preprocessor.cpp:253-304`,
  `example_preproc_01.lgc:73`); comparisons are of texts, so that an undefined
  name equals its own spelling and no number; a name without a text is true
  (`Example.lgc:5`).
- 65536 conditionals nested in dead text wrap `nestCount` to 0, and the dead
  text behind them is emitted (`preprocessor.cpp:314,376`).
- After a directive has failed `get_result()` returns what was emitted so far,
  like any other output (`preprocessor.cpp:963`).
- `#define __/__` defines a name `__` (`preprocessor.cpp:443-457`), and
  `#param (int) A == 5` is accepted, with `= 5` as the default
  (`preprocessor.cpp:836`).
- A macro that names itself makes `evalCondition` recurse for ever
  (`preprocessor.cpp:299`, `example_preproc_01.lgc:73`).
- `#import` shows the importer's macros to the imported file
  (`preprocessor.cpp:778`, `Example.lgc:29`).
- A token's length is cut to 16 bits and `extra` stays 0 (`lexer.cpp:141`,
  `token_def.h:294`).
- `codegenTranslationUnit` visits every node after the block's own
  (`compiler.cpp:160`). So the leaf of a declaration's type is visited as a
  variable, and `int x;` alone fails with "Undefined symbol 'int'"; and a
  braced body visits what comes after it in the vector, the node that owns it
  included, until the stack is gone or a visit fails.
- `FunctionInfo::allParams` is "Full param list" (`compiler.h:36`) and never
  filled: calls of known functions pass no arguments.
- `codegenCompileTimeJump` creates `loop.end` in the function and then inserts
  it into the function again (`compiler.cpp:463,475`).
- A loop's body ends with a branch even after a `return`
  (`compiler.cpp:473`); the increment of a `for` is parsed and linked nowhere
  (`parser.cpp:309-316`), and of several call arguments only the first is kept.
- `type_def.h:17` says user-defined types start at `0x20`; `TypeList::push`
  gives the first one the number of primitive types, 14.
- `parser.cpp:373` supports unnamed parameters by taking *any* token for the
  type, a bracket or a literal as well.
- A write that fails in the destructor of the stream is not reported by
  `saveToFile` (`AST_manager.cpp:38`); `SavedIsWhole` makes an exception of it.

## Plan

What is left, most important first.

1. Proofs: what an expression's `agenda` says of the operators above it,
   towards a statement of precedence without the recursive `Grouped`.
2. A composed module in which the preprocessor's `disk` is `FileStore`'s
   store, and one that feeds `Lexer`'s tokens to `Parser`.
3. `NamePack`: `macro_name_pack` as arithmetic on 64 bits, against equality of
   names, once something calls it.
4. The type registry's callers, when the typer is written: whoever rolls back
   one store has to roll back the other.
