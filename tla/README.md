# ChocoPy-LLVM: specifications and proofs

TLA+ specifications of the ChocoPy front end in this repository, their TLC
configurations, and proofs checked by TLAPS.  Paths are relative to
`src/Source/Lib/` where no other root is given.

## 1. The system

`Driver/Driver.cpp` runs the phases one after the other in one thread:

    file -> Lexer -> Parser -> AST -> Sema (on request) -> error count

| Component | Code | State it keeps | Operations | Used by |
|---|---|---|---|---|
| Scanner | `Lexer/Private/Lexer.cpp` | read position, indentation stack, DEDENTs owed, inside a line or not | `lexImpl`, `reset` | token cache |
| Token cache | `Lexer/Private/CachingLexer.cpp`, `Lexer.cppm` | cached tokens, position among them, caching flag, callback | `lex`, `LookAhead`, `reset` | parser |
| Parser | `Parser/Private/Parser.cpp` | current token, the C++ call stack | one procedure per grammar rule, `skipToNextLine` | driver |
| Identifier resolver | `Sema/Private/IdentifierResolver.cpp` | one tagged pointer per symbol, pools of declaration lists | `addDecl`, `removeDecl`, `begin`, `++`, `*` | Sema |
| Scopes and lookup | `Sema/Private/Sema.cpp`, `Scope.cppm` | current and global scope, the traversals under way | registering, `global`, `nonlocal`, super-classes, lookup, popping a scope | driver |
| Type checks | `Sema/Private/Sema.cpp` | inferred types in the tree | assignments, calls, members, operators, return paths | Sema |
| Types, AST context | `AST/Private/ASTContext.cpp` | uniqued types, predefined classes | `getListVType`, `isAssignementCompatibility` | Sema, parser |
| AST, visitors, dump | `AST/Public/*.cppm` | the tree | traversal, JSON output | all |
| Diagnostics | `Basic/Private/Diagnostic.cpp` | error count, the diagnostic in flight | `emitError`, `<<`, `emit` | all |
| Symbol table | `Basic/Public/SymbolTable.cppm` | spelling to symbol | `get`, `add` | scanner |
| Control flow graph | `Analysis/Private/CFG.cpp` | blocks, the block being filled, the block to come next | one visitor per kind of statement and expression | its printer; the driver calls neither |
| Code generation | `CodeGen/Private/*.cpp` | LLVM module | a fragment | nobody yet |

The components meet at narrow places.  The parser pulls tokens through
`lex` and looks one token ahead (`isVarDef`, `return`); the first look ahead
swaps the callback `lex` calls, and the cache swaps it back.  Tokens carry
pointers to symbols; the resolver hangs its entries on the same symbols.  Sema
keeps two structures in step, the sets of declarations of its scopes and the
resolver's chains, and answers some questions from one and some from the other.

### What is hard here

There is no concurrency and nothing is persisted.  What a test hardly reaches
is of another kind, and `PROJECT.json` lists it under `hazards` at the lines
where it bites:

* protocols that hold over many calls: which callback is installed, what is in
  the cache, how many DEDENTs are owed, which form a symbol's entry has;
* loops that must end (`lex`, every recovery loop of the parser) and an order
  that nobody chose (declarations of a scope are popped in address order);
* boundaries: the end of the buffer inside a string, a pool of 512 lists that
  is full, a chain compared by its length;
* a missing type: some kinds of expressions are never given one, and many
  checks cast the null pointer they find; types are compared by address;
* one step of several failing: error recovery in the parser, classes with a
  bad super-class, duplicates that are refused and registered later after all;
* what is found again each time it is needed: super-classes are never stored but
  looked up by name in chains that change while classes are visited;
* a graph built backwards through two pointers that every visitor moves.

## 2. Modules

| Module | Models | Checked in | Proved in |
|---|---|---|---|
| `Lexer` | the scanner | `lexer` | `LexerProofs` |
| `TokenStream` | what the scanner promises | `lexer` | `LexerProofs` |
| `LexerRefinement` | the mapping between the two | `lexer` | `LexerProofs` |
| `CachingLexer` | the token cache | `cachinglexer` | `LexerProofs` |
| `LookaheadStream` | what the cache promises | `cachinglexer` | `LexerProofs` |
| `Parser` | the recursive descent and its recovery | `parser`, `parserhang` | `ParserProofs` |
| `ParserGrammar` | the grammar of the comments and its leftmost derivations | the same | `ParserProofs` |
| `ParserTexts` | the tokens of texts given by their lines, for the runs | the same | |
| `IdentifierResolver` | the resolver's data structure | `resolver` | `ResolverProofs` |
| `ResolverStack` | what the resolver promises | `resolver` | `ResolverProofs` |
| `SemaScopes` | declarations, scopes and lookup | `semascopes` | `SemaScopesProofs` |
| `ClassHierarchy` | checks of classes, search for members | `classes` | `TypesProofs` |
| `TypeContext` | value types and their tables | `typecontext` | `TypesProofs` |
| `TypeCheck` | the type checks of one statement | `typecheck`, `arguments` | `TypeCheckProofs` |
| `FlowGraph` | the builder of control flow graphs | `flowgraph` | `FlowGraphProofs` |
| `FlowPaths` | runs of a function and of its graph; return paths | `flowgraph`, `falloff` | - |
| `Counting` | how often an element occurs in a sequence: lemmas | | itself |
| `MC*` | values of the constants for TLC | | |

Definitions marked *Mutant* in a module are variants of the definition after
them with a plausible mistake.  They take no part in the specification; with
one of them in the place of the correct definition TLC finds the property
violated that `PROJECT.json` pairs it with, which shows that the property
depends on the code it is about.

### Lexer

`text` is the buffer, `bufPtr`, `indentPtr`, `indentStack`, `dedentCount`,
`isLogLineStart` are the members of the class, `ptr`, `indention`, `start` and
`isId` the locals that live across iterations, `pc` the loop a call of
`lexImpl` is in, `tok` and `loc` what was returned last.  One action is one
iteration of a loop or one return.  Characters are the classes of
`ASCIICharInfo`; a `punct` is one whole operator; names and keywords are one
kind, since the scanner looks the kind up after the fact.  The order of the
operators in `TokenKinds.def` (longest first) is not modelled.

`TokenStream` says what a caller may rely on: INDENT opens a block and DEDENT
closes an open one, both only between lines, a line ends with NEWLINE, and eof
comes when all blocks are closed.  `LexerRefinement` maps the scanner to it: the
blocks a caller has seen opened are those on the stack and those owed.

### CachingLexer

The scanner is reduced to the number of tokens it has returned.  Names that the
scanner's module has too begin with `Cache` here (`CacheInit`, `CacheNext`), so
that one module of proofs extends both.  `LexRaw` is
`lex` through the scanner's callback, `LexCached` and `LexPastCache` are
`cachingLexImpl`, `LookInCache` and `LookPastCache` are `LookAhead` with and
without `PeekAhead`, `Reset` is `reset`.  `LookaheadStream` promises: lex
returns the tokens in order, a look ahead changes nothing and shows what will
be returned.

### IdentifierResolver

A symbol's entry is null, one declaration, or a list; lists are numbered by
pool and index, `curIdx` counts up to `PoolSize` (512 in the code).  The iterator
is null, a declaration, or a position in a list, which is what the tag bit
tells apart.  `RemoveOnly` is the code's `removeDecl` for a single declaration,
which does not compare: the module calls it only for what is registered, and
`SemaScopes` shows that Sema does (`ScopesInv`, which implies `ResolverContract`; both
are proved).

### SemaScopes

`frames` is the call stack of the traversal, each frame with the phase of
`traverseProgram`, `traverseClassDef` or `traverseFuncDef` it is in.  `scopes`
holds the sets of declarations, `chain` the resolver as `ResolverStack`
describes it.  Popping takes the declarations of a scope in any order, as the
set ordered by address may.  Statements look up any name; types are left out,
except for whether a variable's initializer has been given one (`typed`), which
is what a cast depends on.  `IsProgram` says which declarations a parsed text has:
a class is at the top, a parameter belongs to a function, a body follows its head.
`FramesOK` and `ChainsOK`, parts of `TypeOK`, say the same of the frames and the
chains.

### ClassHierarchy

The classes of a program in the phases of `traverseProgram`: all are declared
(`DeclareClass`), then each is entered, which adds it to its chain once more and
checks its super-class (`EnterClass`, `SuperErrors`), its members are declared
and checked (`DeclareMember`), then visited (`VisitMember`), and the scope is
popped (`LeaveClass`).  `superclass` is the super-class as `traverseClassDef` holds it
while it declares the members; everything else looks it up anew
(`SuperClass`).  A member access starts a search, which goes on class by class
(`FindHere`, `FindAbove`, `FindNothing`), as `findDeclaration` recurses.  Bodies
are reduced to such accesses; of the predefined classes one that may be extended
and one that may not are kept.  Names that `TypeContext` has too begin with `Class`
(`ClassInit`, `ClassNext`), so that one module of proofs extends both.

`Level` follows the super-classes as the text names them, without the resolver;
`Rules` are the class rules as the text breaks or follows them.  `ClassInv`,
`RulesInv` and `SearchInv` are the inductive invariants behind the properties.

### FlowGraph and FlowPaths

A body is a tree: each node is at the top or once below one other node
(`IsTree`), as the parser builds it, which makes a node where it parses it and puts
it below the one it is parsing.  `block` and `succ` are the builder's members `Block` and
`Succ`, and `todo` the calls under way: a visitor that calls another and then
goes on leaves a call of its own behind it, with the blocks its locals hold
(`endElse`, `header`, `leftOfNested`, ...).  Elements are kept in the order in
which they are appended, the reverse of the order in which they are run.
`Operands` is the order in which the visitors visit operands.

`FlowPaths` replays a function by the meaning of the language and through its
graph with the same outcomes of conditions, and compares the nodes they evaluate.
`Misbuilt` names the shapes for which the builder is wrong; `RunsAsWritten` says
that the graph is right for every other shape and that each of these shapes is
indeed wrong.  By the meaning of the language operands are evaluated from left to
right and a callee, with the object of a method, before the arguments; only where a
name is called does the model read it after them, as the builder does, since what
the name of a function or class stands for does not change.  `checkReturnMissing` is Sema's answer to whether a function
returns on all paths, `FallsOff` the graph's.

### TypeContext

`types` is what has been allocated (an address is the number of an allocation),
`classVTypes` and `listVTypes` are the tables of `ASTContext`.
`convertAnnotationToVType` calls itself for the element type first, so that its
calls end from the innermost name outwards: `ConvertClass` is that innermost
call, `ConvertList` each of the others, `InferList` the lists that the checks of
expressions ask for.  `getFuncType` is never called and is left out.

### TypeCheck

A behaviour is the check of one statement.  `stack` holds the expressions
visited whose parent is still to come, each with the type the code stores in it
(`Nil` for the null pointer) and what a later check looks at.  There is one
action for every kind of expression, statement and target; an action in which
the code casts or reads a null pointer ends with `status = "crashed"`.  Members on
their own, methods called on their own and members that are targets have two
actions, for an object that is a name and for any other (`MemberStmtOfExpr`,
`MethodStmtOfExpr`, `AssignToMemberOfExpr`), since the code looks only at names;
so have calls (`CallOfExpr`).  What the analysis passes over leaves the trait
`unvisited` and its undeclared names the trait `undeclared`, like those it visits.
Declarations are a constant, `ClassNames` the classes their types name: what
`lookupDecl` and `findDeclaration` find, which is what `SemaScopes` is about.  Types are written out, since `TypeContext` shows
that their addresses agree if and only if they do.  `errors` is the set of
diagnostics, `traits` and `assigned` record what was special about the statement
and which value met which target.

### Parser

`stack` is what the calls under way still have to do: tokens to expect,
procedures to call, loops to continue, and the places at which a failure is
caught.  A procedure that returns null unwinds to the nearest such place, which
is what its callers' early returns do.  Tokens are kinds.  `nodes` records the
order in which operators are built.  `Entries` is what can be under way, and
`FailuresReturn` says that the calls always fit together: every procedure is called,
directly or not, from a place that catches its failure, and a place that goes on
after a failure is in the loop it goes on with.

`ParserGrammar` is the grammar in the comments as a set of rules, and what it derives:
`Reaches(t, i, out, rest)` says that a leftmost derivation of the text `t` comes to its
token `i`, having noted the operands and operators `out`, with the symbols `rest` still
to derive.  Three rules are not those of the comments, and marked: the members after the
pass of a class, an assigned target in brackets, and a single conditional in expr1.

## 3. Runs and what they show

| Run | Bounds | Shows |
|---|---|---|
| `lexer` | all texts of `MCLexer` | types; stack never read empty; the assertion of line 197; the inductive invariant, with the order of the stack; locations advance; the end is reached; refinement of `TokenStream` |
| `cachinglexer` | 7 tokens, look ahead 0 to 3 | the inductive invariant: the cache is the tail of the stream; flag and callback agree; refinement of `LookaheadStream` |
| `resolver` | pools of 2, 3 entries per symbol | no list shared or lost at pool boundaries; iterators stay inside; refinement of `ResolverStack` |
| `semascopes` | every program of up to 3 declarations over 2 names, 4 where they nest deeper | resolver and scopes agree; the innermost declaration wins; lexical scoping; when the null cast happens; the analysis ends |
| `classes` | one class with up to 2 of 12 members, two classes with up to 2 members, three classes in all hierarchies with few members | what the resolver holds; errors if and only if the class rules are broken; a search finds the nearest member and ends unless the hierarchy is cyclic |
| `parser` | every text of up to 2 lines over 28 line contents, fewer contents up to 4 lines; expression statements of 3 operators, with prefixes, brackets, conditionals | accepted texts are those derived (`MCParser` follows the leftmost derivations of each text, and compares their operators with an order computed from the precedences); blocks nest; all loops end but two; precedence and association |
| `typecontext` | 2 classes of the program, 4 allocations beyond the predefined ones, lists of lists | one object for every type; annotations become what they say; compatibility is a partial order |
| `typecheck` | every statement of up to 3 expressions over 11 names, 3 kinds of literals, all operators, 4 kinds of members; up to 6 expressions over 2 names and 2 operators, up to 8 over one name and one operator | undeclared names in statements visited as a whole and refused values are reported; plain expressions do not lead to a null cast; the three notions of what fits agree |
| `flowgraph` | bodies of up to 3 statements, loops and branches nested twice; every kind of statement over expressions nested twice, calls of members, elements, calls and conditionals among them; runs of up to 4 decisions | the graph under construction is well-formed; a node has one place; runs of the graph are runs of the function; what Sema accepts returns |
| `parserhang`, `arguments`, `falloff` | as the runs above | violations: see section 6 |

The bounds reach what matters: indentation of three widths with tabs gives
dedents over two levels and dedents to no level; pools of two lists are full
after two; two names and nesting depth two give every way a name can be
shadowed, refused, global or nonlocal; three lines are enough for a header, its
broken body and what follows, four for two nested blocks.  Three expressions make
a mixed list, a call with a wrong argument, a chain of two targets or a sum of
two lists; a conditional with a comparison for a condition takes five, its target
a sixth, hence the second group of statements; a conditional that is refused takes
six, two targets after it make eight, hence the third.  Three classes make a cycle that
the first of them is not part of, a member found two classes up, and a class
refused between two that are not.  Four decisions run a loop three times, or a
loop in a loop and the branch after both.  `typecontext` stops when its allocations are used
up and `typecheck` at the end of the statement, so both allow deadlock.

### Fairness

`FairSpec` asks that the program goes on when it can (`WF_vars(Next)`): nothing
here waits for anything.  In `SemaScopes` the fair part leaves `LookUp` out, since
a body has finitely many statements, and `ClassHierarchy` asks it of a search only.  `TextsAssumption` and the other
assumptions about constants are evaluated in the runs.

## 4. Proofs

* `LexerProofs`.  `LexerInv` is inductive: `TypeOK`, the order of the stack with
  0 at its bottom, `ControlInv` (what each loop may assume; an empty stack means
  the end has been reached), `LocationInv` (where the call began, and that the
  last token ends before it) and `TokenInv`.  From it follow type correctness,
  that the stack is never read empty (`LexerStackSafe`), the assertion
  (`LexerAssertHolds`), the order of locations, and that every step is a step
  of `TokenStream` or leaves it unchanged (`LexerImplementsStream`).  The
  strengthening is needed because the code reads the stack only in states in
  which nothing local says that it is not empty.
* `LexerProofs`, the token cache.  `CacheInv` says that the cached tokens are
  the last ones scanned, in order, ties the flag and the callback to the position
  in the cache, and bounds how far the scanner is ahead
  (`CacheScansNoFurther`).  `CacheStep` is its induction step; `LookaheadStep` maps each step
  to the abstract stream.
* `ResolverProofs`.  `ResolverInv`: used lists have an owner, no two symbols
  share one, a list holds declarations of its symbol, the iterator's place is in
  its list.  `ResolverImplementsStack` maps the three forms of an entry to the
  chain they stand for.

* `TypesProofs`, types.  `ContextInv`: an entry of a table points to an object of
  that description, every object is in its table, an element type is older than
  its list, and the first six objects are the predefined types.  That every
  object is in its table is what makes `TypesUnique` inductive.  From it follow
  uniqueness, `PredefinedShared`, and with both that compatibility is a partial
  order: antisymmetry needs that the types None and Empty are not lists, and
  transitivity that no list of None is at the same time something else.
  `ConversionInv` adds what a conversion under way has built: the name in the brackets
  put so far.  `Spelled`, which says what type an object is, is a recursion; that an
  element type is older than its list gives its equation (`SpellingExists`, by the
  least allocation at which it would fail) and that later allocations change no
  spelling (`SpelledStays`).  So an annotation becomes the type that was written
  (`AnnotationBecomesItsType`).

* `TypesProofs`, classes.  `ClassInv` is `ResolverInv` with the types of the state
  and `MembersOnTop`: in every chain the members lie above the classes.  The last is
  what makes `ResolverInv` inductive, since `actOnPopScope` takes off what is on top
  and must take members, all of them and nothing else.

  `RulesInv` is the argument for `ClassErrorsMeanRules`.  While there is no error, all
  that was seen follows the rules and every chain is known exactly: the class of that
  name once, twice when it has been entered (`Own`), and members of the open class
  only under names of no class.  So the checks, which read chains as long as they
  happen to be at that moment (`checkSuperClass` compares two lengths), see what
  the text says.  A step that reports the first error has met a broken rule
  (`SuperErrors` and `MemberErrors` each against its rule); from then on it stays
  broken, and nothing need be known about the chains.

  `SearchInv` is the argument for `SearchFindsNearest`.  With distinct names every
  class is in the global scope and alone of its name, so that what `getSuperClass`
  finds is what the text names, and a search at its k-th step is at the one class of
  `Level` k, with no member of that name on the levels below.  There are as many levels as
  there are classes: a search that goes on past the last one is in a cycle and at a
  class it has been at, on an earlier level (`LevelAbove`, by the pigeonhole principle),
  so that the levels bound what it can find although they do not bound the search.

* `TypeCheckProofs`.  `CheckInv` is `TypeOK`, `UndeclaredMet` (a name that is not
  declared was reported where it was met, or the check ended there, or it is in a part
  of the statement that is not visited), `UnusualMarked` (an expression without a type, or of a kind that
  the checks take apart, is marked as such or came with a diagnostic) and the
  properties about the statement's end.  `UnusualMarked` is what makes
  `PlainNeverCrashes` inductive: the cast of a null type is far from the expression that
  has none.  Declarations and statements are any that `DeclAssumption` and
  `SamplesAssumption` admit: declared types are well-formed, which `AcceptedFits` needs.

* `FlowGraphProofs`.  `GraphInv` is inductive, with `TypeOK` as its first part:
  `CallsFit` (a call works on a node of its kind), `BlockWhenNeeded` (the builder
  has no block only between statements, or when a visitor that creates one is
  next), `LatchesDiffer` and `EdgesMatchTerminators` (a block has two successors
  if it has a terminator, one if not, none if it is the exit or the latch of a
  loop whose header is to come).  The last two need each other: a header that
  closes a latch gives it its only edge because no other open loop has that
  latch, and the latch of an open loop stays without an edge because everything
  else creates blocks together with their edges.  It is proved for bodies of any
  size and depth.

  `PlacesInv` is the argument for `PlacedOnce`.  A node in a block is one that has been
  visited (`VisitedOnce`); what each call under way will still visit (`Owed`) is
  disjoint from that, from what the other calls and the remaining statements will
  visit, and from what is below an unvisited node.  A step hands what its call owes and the
  nodes below the one it visits to the calls it leaves behind, each to one
  (`PlacesStep`), and it adds one place, for that node (`Adds`).  It is needed because
  nothing in the builder says which nodes it has been to: a logical operator is
  visited by the visitor of the operator above it, a target of a for by the end of
  the loop, and a condition after the branches.

* `SemaScopesProofs`.  `ScopesInv`: the resolver holds a declaration as often as
  open scopes have it, and a class once more from its traversal on.  Registering
  and popping keep the balance one by one; what makes it inductive is `TypeOK`,
  with the frames of the traversal (`FramesOK`: the outermost one, and only that,
  is the program's) and the chains (`ChainsOK`: a chain holds declarations of its
  name only).  The first, with `IsProgram`, makes the program the only place a class
  is entered from, so that none is counted as traversed twice; the second shows that
  a change of one symbol's chain loses no declaration of another.  From it follows that a
  scope pops only what is registered (`PopsOnlyRegistered`), in whatever order the
  set yields it, which is what `removeDecl` takes for granted.

  `LookupInv` describes the chains (`ChainsLayered`): each entry stands for a
  declaration of one open scope, the entries are in the order of the scopes, and
  every declaration of a scope has its entry.  The entry a class is given a second
  time belongs to the outermost layer; it goes on top of its chain, which is right
  because a class is entered while only the program's scope is open
  (`ProgramWaits`) and is in that scope (`VisitedRegistered`), unless it was
  refused as a duplicate.  So the last entry is one of the innermost scope that has
  the name (`LookupFindsInnermost`).  `VisitedTyped` and `GlobalsAtTop` say that a
  variable the program has visited is typed, and bring with them when the null type
  is cast (`NullTypeBeforeDefinition`).

  `LexicalInv` is the argument for `LookupIsLexical`.  Without errors the scope of a
  traversal under way holds what its declarations so far stand for, one under each
  name (`AsWritten`): itself, the program's variable for a global, what the name
  means around the body for a nonlocal.  `FramesNest` says how far that is while a
  traversal waits: a class or the program has declared everything, a function
  what is before the nested one (`WaitingDeclared`), which is where `Around` cuts its
  declarations, too.  `Around` is a recursion over bodies; that a body comes after the
  one it is in gives its equation (`AroundIs`).  The innermost scope that has a name
  then says what it means (`InnermostMeans`), and the layers of the chains say
  that the resolver answers with it.

* `ParserProofs`.  `ParserInv`: `TypeOK` (the parser stays in the text),
  `FailuresReturn` and `BlocksNest`.  `StepKeeps` is the argument for every call:
  what a procedure pushes contains as many ends of blocks as beginnings, so that
  only an expected INDENT or DEDENT changes either side of the balance, and both at
  once (`ExpectedKeeps`).  `FailKeeps` needs `FailuresReturn` twice: that there is a
  place to return to, and that one which leaves its loop (`break`, `nonlocal`,
  `vars`) is in it.  It is proved for texts of any length.

  `AcceptedIsDerived` is the parser's soundness: a text it comes to the end of without
  a failure and without a diagnostic is derived by the grammar, and the
  operators were built in the derivation's order.  The invariant (`SoundInv`,
  `ForecastsHold`) relates the stack to the derivation.  A forecast is what the grammar
  has still to derive, and what is known of the expression read last: whether it is a
  target.  Each entry of the stack turns the forecast before it into the one
  after it (`Foresees`): a call of a procedure takes its rule away, a loop
  may go round again.  The entries' forecasts form a chain (`Predicts`) from where the
  derivation is now to its end, and every action either moves the derivation by the rules
  it applies (`Reaches` of the new place follows from `Closed`) or changes the
  chain alone.  Two facts about the order of entries come with it (`Orderly`): the loops of
  an expression are in the order of their levels, and the loop over the
  program's statements is the last.  Nothing is claimed once a procedure has failed, since
  recovery forgets what was being derived.
  `OnlyDerivedAccepted` and `OrderOfTheGrammar` conclude `OnlyGrammaticalAccepted`
  and `PrecedenceRespected`.  Their hypotheses say what the constants mean:
  `Grammatical` has the texts that are derived, and `Postorder` is the order of
  a derivation.  TLC gives the constants these values by enumeration, and `OrdersAgree`
  checks that the grammar's levels give the order of the precedences.

* `Counting` has the lemmas about occurrences in a sequence both rest on, and that
  a set of naturals has a least element, which stands in for induction where a loop
  stops (`skipToNextLine`, the loops of the scanner).

The constants are arbitrary: any programs and bodies, any texts over the character
classes or the kinds of tokens, any look ahead, any number of symbols and
declarations, any pool size, any class names and number of types, any classes
that `ProgramsAssumption` admits (each is a sequence of records with names, and nothing is
said about what they name), any declarations and samples of statements.

Only model-checked: liveness (`ReachesEof`, `Terminates`, `EndsOrSpins`,
`SearchEnds`); that the parser accepts all that is derived (`GrammaticalAccepted`), for which
a proof would have to follow the derivation while the parser chooses by the next two
tokens; `RunsAsWritten` and `AcceptedBodiesReturn`, which are about what the
recursive operators of `FlowPaths` compute.

## 5. Not modelled

* AST nodes, visitors and the JSON dump: data and formatting.  The order of
  traversal is part of `SemaScopes`, `ClassHierarchy` and `FlowGraph`.
* Diagnostics: a diagnostic is emitted when the expression that built it ends, in
  the order it was asked for; the models record which ones are emitted.
* The printer of control flow graphs, apart from what it takes for granted
  (`PlacedOnce`).
* Code generation: a fragment nothing calls, mostly one call of LLVM per node.
* The driver: arguments, reading the file, one phase after the other.
* The values of literals, the symbol table, memory (lifetimes of references into
  vectors, pool allocation as such).
* Annotations of parameters and local variables: `traverseFuncDef` casts each to a
  class type (`Sema.cpp:111`, 118) and hands the null pointer it gets for a list
  type to `checkTypeAnnotation`, which reads it.
* Where return statements are: `traverseFuncDef` checks those among the statements of
  the function itself (`Sema.cpp:124`), which is what `Return` models; those in an if
  or a loop are traversed, but `checkReturnStmt` never sees them.

## 6. Where code and documentation disagree

1. `parserhang`: the loop over a block's statements (`Parser.cpp:608`, also 358)
   waits for a DEDENT that `skipToNextLine` may have skipped.  The run ends a
   text with a broken line in a block; the parser stays at eof for ever.
2. `arguments`: `checkParams` finds an argument of a wrong type and says nothing
   (`Sema.cpp:513`), where `Test/Sema/Bad/bad_func_def_call.py.err:5` expects a
   report.
3. `falloff`: `checkReturnMissing` stops at the first if statement
   (`Sema.cpp:837`), so that a function which returns after it is reported to
   have a path that does not.

The models show some more, without a run of their own:

* `parseType` returns null without a diagnostic (`Parser.cpp:1004`): a definition
  `x : = 1` is dropped and no error is counted;
* a class may name itself as its super-class (`Sema.cpp:427`), although
  `DiagnosticKinds.def:27` has a report for an undefined one; the search for a
  member no class of such a cycle has does not end (`CyclicAbove`);
* overriding is checked against the direct super-class only (`Sema.cpp:93`): a
  method may change the signature it inherits from further up;
* members after the `pass` of a class are accepted (`Parser.cpp:207`), which the
  comment at line 201 excludes; the rules of `ParserGrammar` have them;
* an index that is no integer literal is reported to be of non-integer type,
  variables of type int included (`Sema.cpp:648`);
* `return self.x` is refused in a method of that type, because a member
  expression itself has no inferred type (`Sema.cpp:817`);
  `Test/Sema/Bad/bad_class_method_invoke.py:7` returns a member that way;
* some parts of a statement are never visited, and an undeclared name there is not
  reported: the condition of an if (`RecursiveASTVisitor.cppm:297`), and an object
  that is no name, as in `f(z).attr` or `[z].attr`, of a member or a method call
  that is a statement (`Sema.cpp:199`, 203, 685) or of a member that is a target
  (`Sema.cpp:148`).  `UndeclaredReported` excepts statements with such a part;
* return statements nested in an if or a loop are not checked against the return
  type (`Sema.cpp:124`);
* targets of type object are skipped before their scope is tested
  (`Sema.cpp:620`);
* a conditional whose condition is no bool is dropped without a report; the
  diagnostic is commented out (`Sema.cpp:578`).

In the control flow graph, `Misbuilt` of `FlowPaths` names what goes wrong:

* arguments of a call, and the targets of an assignment, are run from last to
  first (`CFG.cpp:104`, 278, 342);
* a callee that is no name, and the object of a method, is run after the arguments
  (`CFG.cpp:277`, 341): in `f().m(g())` the call of `g` comes first;
* in `(a or b) and c` the outcome that leads to `c` is chosen by the wrong operator
  (`CFG.cpp:237`);
* a right operand, or the condition of a while, that takes several blocks is
  entered at its last one (`CFG.cpp:219`, 185);
* what stands before a while loop goes to the exit of the function when it is an
  if or a loop at the top level (`CFG.cpp:91`, 139), and into the loop's header
  when it is a simple statement in an inner body;
* a for evaluates its iterable in every iteration and assigns its target once,
  before the loop (`CFG.cpp:131`, 135).

The ends of the process that `TypeCheck` shows are not counted as disagreements with
a document.  A null pointer is cast or read for

* an expression that was given no type (a unary, a member, a method call, a call of
  a variable, a list of mixed elements) as the value of an assignment and, like a
  conditional or an element of a list, as the first element of a list, an argument, or
  an operand that a check looks at;
* a conditional whose condition is no binary expression, as a value (`Sema.cpp:568`);
* a member of an undeclared name, or of a variable whose class is not defined or
  which is a list (`Sema.cpp:687`);
* a call whose callee is no name, as in `f(1)(2)` (`Sema.cpp:530`);
* a method call as a statement whose object is no name (`Sema.cpp:543`);
* an assignment to a member of an object that is no name (`Sema.cpp:593`), unless the
  value is a conditional that is refused first;
* a call of `print`, whose return type is null (`Sema.cpp:534`).

A class name as an expression, or as the name of a member inside an expression, is a
fatal error (`Sema.cpp:993`).  `PlainNeverCrashes` says that statements of literals,
variables, operators, lists and calls, by their names, of functions that return
something end the process in none of these ways before a first report.

## 7. What is left

1. Proofs: that the parser accepts every grammatical text, which needs the first and
   following tokens of the rules; `AcceptedBodiesReturn` of `FlowPaths`, whose operators
   are recursive.
2. Composition: `SemaScopes` over `IdentifierResolver` instead of chains, the
   parser over the token cache, `TypeCheck` inside `SemaScopes`.
3. Annotations of parameters and local variables with the null pointer they lead
   to; `return` at the top level.
4. The driver's phases with the count of diagnostics, if the driver comes to do
   more than call one after the other.
