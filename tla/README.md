# A specification of magnetic-vm

magnetic-vm is an ahead-of-time compiler from Java class files to LLVM IR with
a small run time. It is one thread of control and keeps nothing on disk; what is
hard in it is the order in which things become known. A class is in the pool
before it is defined, code is compiled against classes that are not loaded yet,
and stack code is turned into SSA code in one walk. These modules model that
order. Paths below are relative to `src/compiler/src/` unless they start with
`runtime/`.

## Inventory

| component | source | state | operations | what makes it correct |
|---|---|---|---|---|
| driver | `main.cc` | class path, root | one `Get`, then verify, optimize, print | what is printed is a unit of complete classes |
| class pool | `types/pool/pool.cc` | `classes_` | `Get` | each class is defined once; nobody builds on a half defined class |
| class path | `types/pool/path.cc` | zip, directory | `Find` | the first path that has a class answers |
| class definition | `types/class/class.cc` | super class, vtable, struct type | `EmitDefinition`, casts | super class first; all members declared before any body |
| vtables | `types/class/vtable.cc` | `methods_`, `entries_`, the constant array | copy, add, emit, look up | a slot has one meaning in a whole hierarchy |
| methods | `types/class/method.cc` | owner, bytecode, function in each module | `IsVirtual`, body, thunk, calls | a call runs what Java says; a thunk that is called exists |
| fields | `types/class/field.cc` | kind, offset, accessors in each module | load, store, definition | a field has one kind and one place |
| registries | `context/context.cc` | maps of fields, methods, instantiators | `GetField`, `GetMethod`, `GetInstantiator` | all callers share one declaration |
| instantiators | `types/class/instantiate.cc` | function in each module | reference, definition | an object has its size and its vtable |
| struct layout | `types/class/layout.cc` | element index, byte offset | layout, address | a subclass keeps the layout of its super class |
| descriptors, types | `types/class/descriptor.cc`, `types/type.cc` | none | parse, width | the parameters and their slots |
| name mangler | `types/mangle.cc` | none | mangle | different members, different names |
| control flow graph | `cfg/` | leaders, blocks | build, look up | every block a branch names exists |
| method codegen | `codegen/codegen-method.cc`, `environment.cc`, `local-variables.cc` | operand stack, locals, code iterator | walk over the blocks | the SSA code does what the bytecode does |
| instruction emission | `codegen/instructions.cc` | the above | one function for each kind of opcode | operands in order, references resolved |
| runtime ABI | `codegen/runtime-abi.cc` | getters in each module | string constants | equal literals are one object |
| run time string pool | `runtime/src/strings.cc` | `strings_` | `GetOrInsert` | one object for each value |
| compilation unit | `compilation-unit/` | an LLVM module | verify, optimize, print | (LLVM) |
| arrays | `types/array.cc` | none | none | unfinished, does not compile |

How they interact. `main` calls `ClassPool::Get`, which asks the class path,
enters the class and calls `ClassInfo::EmitDefinition`. That calls `Get` for
the super class, so the two recurse along the hierarchy. `EmitDefinition` then
declares fields and methods in the registries of `Context`, offers each method
to the vtable, freezes the vtable in a constant array and emits fields, bodies
and thunks, and last the instantiator. A body is emitted by `codegen::EmitMethod`,
whose instructions go back to the registries for the members of other classes.
They never load a class: the only classes loaded are super classes.

What is hard:

- the recursion of `Get` and `EmitDefinition`, with classes visible while they
  are half defined, on hierarchies that may be circular or incomplete;
- `IsVirtual` and `CanBeOverridden`, which answer differently as more is known,
  and are asked by callers, by the vtable and by the emission of thunks;
- the kind of a field, fixed by whoever names the field first;
- one compile time operand stack for blocks that execute in another order;
- names, by which units that were compiled apart find each other's members;
- byte offsets that code of one class uses on objects of another;
- a jar whose handle remembers the entry of an earlier lookup.

## Modules

`ClassPool` models the driver, the pool, `EmitDefinition` and the vtables.
`calls` is the C++ stack of `EmitDefinition` frames, and an action is the
stretch of code between two calls, or one turn of one of the two loops over the
methods. `phase[c]` says how far the definition of `c` is:

| phase | `class.cc` | actions |
|---|---|---|
| `super` | 49-56, entered by `Get` | `SuperInPool`, `SuperCreated`, `SuperMissing`, `LinkBase` |
| `link` | 57-64, `Get` has returned or is running | `LinkSuper`, `SuperUnfinished` |
| `methods` | 76-87 | `DeclareNonVirtual`, `DeclareOverride`, `DeclareNewSlot`, `EmitVTable` |
| `bodies` | 89-94 | `EmitNative`, `EmitAbstract`, `EmitDirectMethod`, `EmitVirtualMethod`, `FinishDefinition` |
| `complete` | returned | |

An uncaught exception, an empty optional and a null pointer end the compilation
with an `outcome` of their own. The variable `ancestors` is what is reachable
through `super_class_`. A failed access of an empty optional or of a null
pointer is taken to stop the program.

`VirtualDispatch` is what the tables promise, without slots and frames: a class
is defined in one step after its super class and selects, for each key, the
class whose method runs. `ClassPool` refines it through what its emitted tables
select (`DispatchesAsDeclared`).

`Linkage` extends `ClassPool` with instructions: a body is a sequence of
references. It adds the registry of fields, the struct bodies, and the symbols
that are used and defined. Each action of `ClassPool` appears in it, joined with
what the same code does to these (`Link`, `EmitVTableAndFields`, `EmitBody`,
`FinishWithInstantiator`), or unchanged (`PoolOnly`). A symbol is identified by
what is mangled; `NameMangling` is about the names themselves.

Its class files are legal: they have no member twice (`MembersAssumption`), no
static access names an instance field and no virtual call a static method of a
class on the path (`AccessAssumption`), and nothing overrides what is final
(`FinalAssumption`, over the transitive super classes, `Lineage`). `defined` has
the bodies, thunks, accessors and instantiators that got a definition. The global
of a static field gets a linkage and no initial value, so it is none of these:
`common` records that it has its linkage, and that is all that is said of it.

`StructLayout` is the struct of a class: the vtable pointer or the struct of the
super class, then the instance fields, one action for each element that is added
and one for the body. Where LLVM places an element is external and modelled by
its rule (align, add, round the size up). A class is laid out after its super
class, which is what `SuperCompleteFirst` of `ClassPool` says of the compiler.
`body` flattens a struct to its leaves, for the properties; `byteOffset` is what
the specifiers keep and what code uses.

`Casts` extends it with `GetCastOffset`: the swap, the walk and its end. Only
`EmitUncheckedClassCastTo` calls it, and nothing calls that yet. A class that is
not linked yet is unrelated to every other, as in the code.

`ObjectMemory` extends it with the program that runs: bytes, the instantiator
(allocate, clear, store the vtable pointer), the accessors of fields and the load
of the vtable pointer in a thunk, all with the offsets of the specifiers.
`Objects` is what this promises, objects with named fields, and is refined by it
(`BehavesAsObjects`).

`ClassPath` is `Find` of the composite, of a directory and of a jar, one action
for each call of the zip library. The library is external: `zip_entry_open`
fails and leaves no entry open if there is no such entry, the size is that of the
last entry that was open, a read without an open entry fails. A jar that could
not be opened is one that has nothing.

`Descriptors` is the parser of field and method descriptors, one action for each
character class it reads, and the parameter list of a method with its receiver.
`should_load_classes` is false at every call and is left out.

`MethodCodegen` is `codegen::EmitMethod` for one method: parameters, control
flow graph, one action for each kind of instruction, terminators. An address is
an instruction. A local is loaded and stored by the short forms of the
instructions, so its slot is at most 3 (`MethodsAssumption`); the others are unknown
opcodes. Its methods are verified code without exception handlers
(`VerifiedAssumption`: branches stay inside the code and control does not run off
its end). `MethodExecution` runs its output beside the bytecode: `JvmStep` is the
JVM, `SsaStep` is LLVM, both are external to the repository, and each branch goes
both ways. The slot of a parameter, which the code finds by counting up, is
defined at once, by the number of wide parameters before it (`SlotOf`).

`VerifiedCode` is what a JVM's verifier knows of a method it lets through: for
each address the types on the stack and in the locals (`Frames`, the
`StackMapTable` of the class file with the rest filled in). The compiler does not
read the table, but loads, stores and pops as if it had been checked, and class
files come from compilers whose output passes it. `FramesAssumption` says that
the methods have such a table; `MCMethodExecution` computes one for each. It is
external, as the verifier is no part of the repository. `InStatements` says that a
method leaves nothing on the stack at a branch or a return.

`StringLiterals` is the getter the compiler makes of an `ldc` of a string, and
the pool of the run time it calls. All getters ask for one external name, which
LLVM makes unique in a module by the number of those before it (`NextSymbol`), so
two units with a literal each clash when they are linked (`LinkUnits`). The
driver compiles into one unit.

`NameMangling` is the JNI mangler and the simple one, of which the context is
given one, and the symbol tables of the units. A member is known by its kind and
the three strings that go into its name (`IsMember`). A character is one byte
(`NameChar`), valid if `isalnum` says so or if it is an underscore; `Hex` is what
`fmt` prints of the others, with the sign of a byte outside of ASCII extended
(`HexAssumption`: four digits, different for different bytes).

`MCObjects` composes `Casts` and `ObjectMemory` over one layout, `MCClassFiles`
composes `ClassPath` and `Descriptors`; the other `MC...` modules and
`MCPrograms` hold the small inputs. The `...Proofs` modules hold the theorems. A
definition that begins "Mutant of" in its comment is a plausible bug and is used
by no specification.

## Runs

| run | question | bounds |
|---|---|---|
| `class_pool` | are hierarchies defined in order, do their tables agree and dispatch as declared, does every compilation end, and is every failure explained? | three classes and a missing one; a chain, siblings, a tree asked for from its leaf, two circles, a chain that leaves the class path; five bodies of classes that mix overrides, new slots, final, static, native methods and the constructor; four sequences of roots |
| `linkage` | are the methods, accessors and instantiators that bodies refer to, before, during and after their class is declared, defined when it is complete, have its globals their linkage, and are direct calls right? | three classes; bodies that refer up, down and across the hierarchy and to a class never loaded; legal class files only |
| `method_execution` | are emitted functions well formed, is every operand there, and do they do what the bytecode does? | 7 simple statements, in `if`, `if`-`else`, `while`, `do`, two of them nested, or two in sequence, every path; endless loops that end the code with a branch; an unknown opcode; a legal backward jump with a value on the stack |
| `name_mangling` | do names tell members apart, do units agree, and are names identifiers? | both manglers; every two members of one kind or one class out of 5 classes, 5 names, 5 descriptors, 6 kinds, with every character that is escaped and a byte outside of ASCII; bridge methods for the simple mangler; two units |
| `objects` | do fields and vtable pointers lie where the code of every class of the lineage looks, are casts right, and is memory as good as objects with fields? | layout: chains and siblings of three classes, seven lists of fields of 1, 4 and 8 bytes, and a circle; casts: every pair of four classes in three hierarchies, at every moment of the layout; memory: two objects, two values, two classes with up to three fields |
| `class_files` | is the first readable class file found, and is a descriptor read as it was written? | up to three paths, jars and directories in any order, two names, two lengths, damaged entries, every sequence of lookups; methods with up to two parameters out of letters, classes and arrays of them; class names with `I`, `L`, `/` and `)` in them |

Three classes are enough for a slot to be created, overridden and inherited
further down, and for a circle that the driver does not start in; a fourth adds
no new pair of a super class and a subclass, except for casts, where two classes
can have a common super class that has one itself. Two statements in sequence or
nested are enough for every way in which one block follows another. Names are
compared in pairs, so a universe of pairs is complete for it. In `objects`, 64
bit integers are aligned to 4 bytes, as in LLVM's default data layout (the
compiler sets none); tail padding, padding between fields and none all occur. In
`class_files`, three paths make a jar be asked between two others, or twice.

`main` asks for one root. The longer sequences in `class_pool` and `linkage` are
of drivers that use `Get` as the public entry it is; they make a class be found
in the pool and a hierarchy be loaded from different ends.

The runs stop in states where the program has ended, which has a step of its own
in every module but two. In `literal_cache` a program that clashes, or has no
literals, has nothing left to do after it is linked; in `objects` the class paths
that are only laid out, a circle among them, have nothing left to do after that.
Deadlock is not checked in these two runs.

Fairness. The compiler is a single thread that nothing blocks, so the
specifications with liveness assume weak fairness: of the whole next-state
relation in `ClassPool`, of `Emit` in `MethodCodegen`, of the walk
of a cast (`Walk`) and of the parser (`Parse`). While a step is enabled, one is
taken. The programs that are compiled, and the lookups, have no liveness
properties.

## What the code does not do

Five runs end in a violation and show where the code disagrees with itself.

- `unknown_field`: `getfield` and `putfield` look the field up as a static one
  (`codegen/instructions.cc:152,164`). If the class of the field is not declared
  yet, the access itself registers the field as static and then fails the
  assertion `!object_ref.has_value()` (`types/class/field.cc:41,47`). The
  property `FieldSlots` of the run `linkage` holds only because of that
  assertion: without it the struct of the class would lose the field, which is
  what its mutant shows.
- `assumed_virtual`: a method that is not known yet is assumed to be virtual, so
  a body compiled early calls its thunk. If it turns out final and overrides
  nothing, no thunk is emitted (`types/class/method.cc:60-66,114`).
- `conditional_expression`: values on the stack between blocks get mixed up. The
  run ends in the assertion on the type of a store; with equal types the wrong
  value is used. The statements of the other runs leave the stack empty between
  blocks, as a Java compiler does outside of conditional expressions, and
  `StackEmptyBetweenBlocks` checks that the walk keeps it so.
- `literal_cache`: the cache of a literal is never written
  (`codegen/runtime-abi.cc:104`), against the comment above it.
- `underscore_name`: an underscore is copied although JNI, and a case of the
  same function that cannot be reached, escape it (`types/mangle.cc:156-161`).

More limits were met while reading. No statement of the repository contradicts
them, so no run shows them.

- A call that names a subclass for an inherited method refers to a symbol of that
  subclass, which nobody defines (`codegen/instructions.cc:215`), so
  `UsesDefined` speaks of the members a class declares itself.
- Private methods count as methods that can be overridden and take slots
  (`types/class/method.cc:41`).
- Native methods are in the vtable and may be called, and are never defined
  (`types/class/method.cc:109`).
- Only branches start blocks (`cfg/control-flow-graph.cc:18`), so an exception
  handler falls into the block before it.
- A static field gets common linkage and no initial value
  (`types/class/field.cc:37`), so its global stays a declaration, of a linkage
  that LLVM's verifier refuses for one; what the verifier answers is ignored
  (`compilation-unit/compilation-unit.cc:22`). `UsesDefined` does not speak of
  globals; `GlobalsHaveLinkage` says that they have this linkage.
- Every getter of a string literal is an external `.str.get`
  (`codegen/runtime-abi.cc:85`), so units with a literal each do not link.
- An accessor or thunk compiled before the struct of its class has a body would
  use the offset -1 (`types/class/layout.h:24`). `EmitDefinition` sets the body
  first; the modules of layout and memory take that order for granted.
- JNI drops the result of a method from its name (`types/mangle.cc:177`), so a
  bridge method and the method it bridges to share one. The parameters are taken
  to end at the last parenthesis of the descriptor, where a class name may have
  one. The simple mangler keeps the whole descriptor, but its names of a member
  are not delimited on both sides: a field and its descriptor run into each other
  (field `x` of class `xLA` and field `xLx` of class `A`).
- Bytes, chars and shorts are refused by the parser of descriptors
  (`types/class/descriptor.cc:112`), and at the end of the stream it waits for a
  semicolon or a parenthesis that never comes (79, 126); a descriptor of a class
  file has them.
- What `malloc` returns is not compared with null (`types/class/instantiate.cc:37`).

The build sets no build type, so assertions are compiled in, and a failed one
ends the model.

## Proofs

All proofs are for every value of the constants that satisfies the named
assumptions of the modules, which TLC evaluates on the instances.

`ClassPoolProofs`: for every set of class files (circular, incomplete and
ill-formed ones included), every sequence of roots, and any number of classes
and methods, `Spec` implies all of the safety properties and the refinement that
`class_pool` checks. The argument has layers, each an inductive invariant that
uses those before it.

1. `TypeInv` is `TypeOK` with `VTableCoherent`, `PoolKnown` (a class in the
   pool has a class file) and `StageHasTables` (which phases have a vtable and a
   table). Coherence is needed for the copy: `CopyVTableOK` says that re-entering
   the keys one by one gives the same table, which is false of a vtable with a
   key twice.
2. `FramesAreAChain`: the frames are a chain of super classes without
   repetition. A new frame is pushed only for a class that is not in the pool,
   hence in no frame.
3. `HierarchyInv` adds `AncestorsDone`, `AncestorsPrefix` (the table of a class
   extends that of each of its ancestors slot by slot) and `ThunksCurrent` (a
   thunk has the index of its method in its owner's table). `SlotsAgree` is not
   inductive by itself: that a slot never moves is known only because the
   table of a subclass extends a table that is complete, hence frozen, and this
   uses layer 2, by which only the innermost frame changes anything.
4. `LookupInv`: every method that is virtual has a slot once it was offered.
   Between the offer and the thunk `IsVirtual` does not change its answer,
   because the vtable of the super class is frozen (`IsVirtualStable`).
   `ThunkInv` adds that the bodies the loop has passed have their thunks.
5. `DispatchInv`: the vtable under way selects, for each key, the last method
   offered so far, and otherwise what the table of the super class selects. When
   the table is emitted all methods were offered, which is the step of
   `VirtualDispatch`; every other step is a stutter (`PoolImplementsDispatch`).

`LinkageProofs`: whatever bodies refer to, the pool does what it does without
them (`LinkageImplementsPool`), so the layers above hold of `Linkage` too.
`LinkInv` adds to them `KindsRight` (a field of a linked class has the kind it is
declared with), `KindsBefore` (a field registered before its class is a static
one, and none that is declared as an instance field, or the assertion has
failed), `UsesTyped` (accessors are used of instance fields only) and
`DefinedInv` (what the definition of each class has made so far, by the position
of its loop). `FieldSlots`, `UsesDefined` and `GlobalsHaveLinkage` follow: what a
complete class defines itself is defined, and its globals have their linkage. `DirectCallsSafe` follows from
`CallInv`: a class is linked only to classes of its `Lineage`, every emitted
table has under the key of a final method that method and no other (`FinalInv`,
which uses `DispatchInv` at the step that emits the table), and a direct call
names a constructor or a method that cannot be overridden (`DirectInv`).
`AccessAssumption` is needed: a static access to an instance field, compiled first, would register the
field as static without failing an assertion.

`ObjectsProofs` is about `StructLayout`, `Casts` and `ObjectMemory`. For the layout,
`LayoutInv` has `StructInv` (the elements placed so far lie
one behind the other, aligned, below the end), `LineageInv` and `RootInv` (every
lineage ends in one base class), `VTableInv` (the copies of the offset of the
vtable pointer are the base class's) and `BodyInv` (the leaves of a class are
disjoint, inside, aligned, and where the specifiers say). A struct that is
embedded keeps its tail padding, and its alignment divides the offset it is given,
which is why the leaves of a super class stay aligned.

For casts, `WalkInv` says that the walk has not left the lineage of the lower
class nor passed the goal, and that the sum of the offsets is zero, since a super
struct is the first element; `CastCorrect` then follows from what `LayoutInv`
says of the leaves two classes share.

For memory, `MemoryInv` is `LayoutInv` with `HeapInv`: every object has
the memory of its class, the vtable pointer of its class at the place that any
class of the lineage uses, and in each field the bytes of exactly one value. A
store keeps it because leaves are disjoint. It gives `NoOverrun`, and every step
of memory is one of `Objects` or a stutter (`MemoryImplementsObjects`).

`ClassPathProofs`: `SearchInv` says that the paths before the one that is asked
have nothing readable, that at most the jar being asked has an open entry, and
what is known of the entry at each statement. `BufferFits` depends on the last:
the size may be that of an earlier entry, but then the read fails.

`MethodCodegenProofs`: `TypeInv` (no instruction outside of the code is read, and
terminators lead to blocks) and `TermInv` (blocks behind the walk have
terminators, blocks ahead have none, the block in between has one if and only if
it was left by a branch or a return). They use that branches stay inside the
code and control does not run off its end (`VerifiedAssumption`), and that code
behind a return is a branch target (`NoHandlerAssumption`).

`MethodExecutionProofs`: the emitted code does what the bytecode does, for methods
of any length and shape that have frames, on every path through them. Which
instruction comes next is right for all of them (`SamePoint`). The other four
properties are proved of methods that are `InStatements`: the compiler's stack is
empty between blocks, no operand is missing, stores pop a value of their own type,
and every instruction works on the values that the JVM would give it. Of other
methods they are false, which `conditional_expression` shows.

1. `LayoutInv`: the compiler's stack has the types of the frame it has come to.
   What it pops is there, so `StackEmptyBetweenBlocks`, `OperandsPresent` and
   `StoresTyped` follow.
2. `ExactInv`: every address behind the walk was emitted, and every terminator
   is the one its block calls for. Then `WayInv` keeps both machines at one
   address.
3. What the compiler had on its stack is gone when the program runs, so `KeptInv`
   says that there is a record `S` of it with `Kept(S)`: of each address passed,
   the values on the stack before it. It follows the frames in length, is empty
   where a block begins, has the recorded operands on top, and holds only values
   made at a lower address.
4. `CopiedInv` and the facts about `Slot`: a parameter is copied to the slot the
   JVM gives it, and no two share one.
5. `MatchInv`: of every record `S`, what the JVM has on its stack is in the
   registers of the values in `S`, and a local that the frame knows is in the
   memory cell of its slot and type. An instruction writes the register of its own
   address only, and all values in `S` have lower ones; a jump back leads to a
   block, where `S` is empty. So a loop cannot change a register that is still
   needed, and `SameOperands` follows.

`NamesProofs`, for `Descriptors`: a descriptor of any length, with classes of any
names without a semicolon, is parsed into the types that were written, or refused
for the one reason `ParsedAsWritten` names. `Starts(d)` is where in the
text each type begins (`TextLaid`), and `ParseInv` puts the parser at one type
(`Position`): before its letter, in its brackets or in its class name, with all
types before it read right.

For `NameMangling`: the JNI names are identifiers behind their prefix, whatever
bytes a class file has and whatever members a program refers to
(`NamesAlwaysIdentifiers`): each escape has valid characters only, and what is put
between the parts of a name is underscores. LLVM gives a function a new name only if the name is
taken, so if the mangler tells the members of a program apart (`NamesApart`) all
units agree on all symbols, in whatever order they refer to them (the lemma
`ApartAgree`). That is the question, and the limits above are programs for
which it does not hold.

For the JNI mangler it is proved of members of all kinds (`JniAlwaysAgrees`), if
they are `Separable`, that is, if no name has an underscore or a part that
begins with a digit, and if there are no bridge methods. All members of the
run `name_mangling` are of this kind. An underscore in a name may begin the code
of a character or be that of a slash, so one code begins with another, but only that
of the slash (`JniPrefixFree`), and what comes behind a slash is no digit
(`TextUnmarked`); hence a text can be read back from its code (`ReadBack`). An
underscore the mangler adds reads as a slash: the class ends and the name begins at
the last slash before the first two in a row (`SplitDouble`, `SplitLast`).

For the simple mangler it is proved of the methods, thunks and instantiators of Java programs
(`MethodsAlwaysAgree`): the first number sign ends the class and the first
parenthesis the name, so the parts can be read back. `FromJava` says what this
needs: no class name is empty or has a number sign or one of the prefixes,
no method name a parenthesis, and descriptors of methods begin with one.

Where a proof needs induction over data (the prefixes that `FlattenSeq` puts
together, the minimum of a set of addresses) it takes the least counterexample
instead (`LeastOf`, `MinFacts`), which exists because the sizes of finite sets
are well founded.

`StringLiteralsProofs` proves, for any units and strings, `[]TypeOK`, that a
program that links has all its literals in one unit (`LiteralsInOneUnit`), and
`[]SameValueSamePointer`, from the invariant that adds `PoolInjective` (no object
belongs to two strings) and `GotFromPool` (what was returned is in the pool). The
getter never finds anything in its cache, so it is the pool alone that makes two
loads agree.

Only model-checked:

- liveness: `Termination`, `CompilationEnds`, `CastEnds`,
  `ParsingEnds`. The prover has no fairness.
- that the simple mangler's names of accessors and globals are apart. It is not
  true of every legal program, for the reasons given above; the run `name_mangling`
  checks it of a universe of pairs of members.

## Not modelled

- LLVM: verification, optimization, printing, attributes. Of its data layout
  only sizes and alignments.
- The parsing of class files, which is a library; a class path is a map from
  names to class files.
- The names of vtables, which are private to their module.
- Arithmetic on values: an instruction is known by its address.
- Exceptions at run time: the compiler does not read exception tables.
- Arrays (`types/array.cc`), which are unfinished and do not compile, and the
  build files.

## What is left

1. References to inherited members and invokevirtual of private methods, once the
   code handles them.
2. The composition of `ClassPool` with `StructLayout`, whose guard is the property
   `SuperCompleteFirst` of the former, as one specification.
3. Exception handlers in `MethodCodegen`, once the control flow graph has them.
