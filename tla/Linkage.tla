------------------------------ MODULE Linkage -------------------------------
(***************************************************************************)
(* What the bodies of methods link to.  ClassPool treats a body as opaque; *)
(* here it is a sequence of references to methods, fields and classes, and *)
(* each reference is compiled with what the compiler knows at that moment. *)
(*                                                                         *)
(* Nothing but a super class is ever loaded, and a super class is compiled *)
(* while its subclasses wait: a body refers to classes that are unknown,   *)
(* in the pool but not yet declared, or complete.  The registries of       *)
(* Context answer all three, creating a declaration for the first caller.  *)
(*                                                                         *)
(* Functions and globals are known by their names, so a unit that holds    *)
(* every class and one unit for each class link alike.                     *)
(***************************************************************************)
EXTENDS ClassPool

Invokes == {"invokevirtual", "invokespecial", "invokestatic"}
StaticAccesses == {"getstatic", "putstatic"}
InstanceAccesses == {"getfield", "putfield"}

\* An instruction that names another class; the others link to nothing.
Instruction ==
    [op : Invokes, class : ClassName, member : MethodKey]
    \cup [op : StaticAccesses \cup InstanceAccesses,
          class : ClassName, member : FieldName]
    \cup [op : {"new"}, class : ClassName, member : {None}]

ASSUME CodeAssumption == Code \subseteq Seq(Instruction)

\* No class file has a method or a field twice.
ASSUME MembersAssumption ==
    \A fs \in ClassPaths : \A c \in DOMAIN fs :
        /\ \A i, j \in DOMAIN fs[c].methods :
              fs[c].methods[i].key = fs[c].methods[j].key => i = j
        /\ \A i, j \in DOMAIN fs[c].fields :
              fs[c].fields[i].name = fs[c].fields[j].name => i = j

\* The class files are well typed: a static access names no instance field, and
\* a virtual call no static method.
ASSUME AccessAssumption ==
    \A fs \in ClassPaths : \A c \in DOMAIN fs :
        \A m \in {fs[c].methods[i] : i \in DOMAIN fs[c].methods} :
            m.code # None =>
                \A ref \in {m.code[i] : i \in DOMAIN m.code} :
                    ref.class \in DOMAIN fs =>
                        /\ ref.op \in StaticAccesses =>
                             \A i \in DOMAIN fs[ref.class].fields :
                                fs[ref.class].fields[i].name = ref.member =>
                                    fs[ref.class].fields[i].static
                        /\ ref.op = "invokevirtual" =>
                             \A i \in DOMAIN fs[ref.class].methods :
                                fs[ref.class].methods[i].key = ref.member =>
                                    ~fs[ref.class].methods[i].static

\* A class and all that it extends, by the class files: what every set of
\* classes has that has the class, and with each class its super class.
Lineage(fs, c) ==
    {d \in DOMAIN fs : \A S \in SUBSET DOMAIN fs :
        c \in S /\ (\A x \in S : fs[x].super \in DOMAIN fs => fs[x].super \in S)
            => d \in S}

\* No class extends a final class or overrides a final method.
ASSUME FinalAssumption ==
    \A fs \in ClassPaths : \A c \in DOMAIN fs : \A d \in Lineage(fs, c) \ {c} :
        /\ ~fs[d].final
        /\ \A i \in DOMAIN fs[d].methods : fs[d].methods[i].final =>
              \A j \in DOMAIN fs[c].methods :
                  fs[c].methods[j].key # fs[d].methods[i].key

VARIABLES
    cursor,     \* index of the instruction in the body being emitted
    fieldKind,  \* Context::fields_: (class, field) -> kind of its declaration
    slots,      \* instance fields in the struct body of each declared class
    uses,       \* symbols that some emitted body or thunk refers to
    direct,     \* (class, method) of each invokevirtual compiled to a call
    defined,    \* symbols with a definition
    common,     \* globals that were given common linkage: still declarations
    aborted     \* an assertion of the compiler has failed

linkVars == <<cursor, fieldKind, slots, uses, direct, defined, common, aborted>>
allVars == <<vars, linkVars>>

Kinds == {"static", "instance"}

\* The names that the mangler makes of a member.
Body(c, k) == [kind |-> "method", class |-> c, member |-> k]
Thunk(c, k) == [kind |-> "thunk", class |-> c, member |-> k]
Getter(c, f) == [kind |-> "getter", class |-> c, member |-> f]
Setter(c, f) == [kind |-> "setter", class |-> c, member |-> f]
Global(c, f) == [kind |-> "global", class |-> c, member |-> f]
Instantiator(c) == [kind |-> "instantiator", class |-> c, member |-> None]

Symbol == [kind : {"method", "thunk", "getter", "setter", "global",
                   "instantiator"},
           class : ClassName,
           member : MethodKey \cup FieldName \cup {None}]

-----------------------------------------------------------------------------
(* The registries                                                          *)

\* Context::GetField: the first caller decides what the field is.
FieldKind(c, f, kind) ==
    IF <<c, f>> \in DOMAIN fieldKind THEN fieldKind[<<c, f>>] ELSE kind

DeclaredKind(f) == IF f.static THEN "static" ELSE "instance"

FieldsOf(c) == {files[c].fields[i] : i \in DOMAIN files[c].fields}
MethodsOf(c) == {files[c].methods[i] : i \in DOMAIN files[c].methods}

\* Bodies are emitted after all the methods of their class were given their
\* owner and bytecode; a class further out on the stack has none yet.
Declared(c) == phase[c] \in {"bodies", "complete"}
Known(c, k) == Declared(c) /\ \E m \in MethodsOf(c) : m.key = k
MethodNamed(c, k) == CHOOSE m \in MethodsOf(c) : m.key = k

\* Mutant of RefCanBeOverridden: what is not known cannot be overridden.
RefKnownOverridable(c, k) ==
    /\ k # NoArgCtor
    /\ Known(c, k)
    /\ CanBeOverridden(c, MethodNamed(c, k))

\* MethodDeclaration::CanBeOverridden on the method an invokevirtual names.
RefCanBeOverridden(c, k) ==
    /\ k # NoArgCtor
    /\ Known(c, k) => CanBeOverridden(c, MethodNamed(c, k))

-----------------------------------------------------------------------------
(* Definition of a class                                                   *)

LinkInit ==
    /\ Init
    /\ cursor = 1
    /\ fieldKind = [x \in {} |-> "static"]
    /\ slots = [c \in {} |-> {}]
    /\ uses = {}
    /\ direct = {}
    /\ defined = {}
    /\ common = {}
    /\ aborted = FALSE

\* The fields follow the link to the super class; those whose declaration is an
\* instance field get a place in the struct body.
DeclareFields ==
    LET kind(f) == FieldKind(Top, f.name, DeclaredKind(f))
        own == {f.name : f \in FieldsOf(Top)}
    IN /\ fieldKind' = [x \in DOMAIN fieldKind \cup ({Top} \X own) |->
                          IF x \in DOMAIN fieldKind THEN fieldKind[x]
                          ELSE DeclaredKind(CHOOSE f \in FieldsOf(Top) :
                                               f.name = x[2])]
       /\ slots' = Put(slots, Top, {f.name : f \in {g \in FieldsOf(Top) :
                                               kind(g) = "instance"}})

Link ==
    /\ LinkBase \/ LinkSuper
    /\ DeclareFields
    /\ UNCHANGED <<cursor, uses, direct, defined, common, aborted>>

\* Instance fields get accessors.
Accessors(c) ==
    UNION {{Getter(c, f.name), Setter(c, f.name)} :
             f \in {g \in FieldsOf(c) : fieldKind[<<c, g.name>>] = "instance"}}

\* Mutant of Globals: only the globals that are referred to get their linkage.
GlobalsReferred(c) ==
    {u \in uses : \E f \in {g \in FieldsOf(c) :
                              fieldKind[<<c, g.name>>] = "static"} :
        u = Global(c, f.name)}

\* What defining a static field does to its global is to give it common linkage;
\* it was created without an initial value, and gets none.
Globals(c) == {Global(c, f.name) :
                 f \in {g \in FieldsOf(c) : fieldKind[<<c, g.name>>] = "static"}}

\* The vtable, an array of references to functions that may be defined later or
\* elsewhere; then the globals or accessors of the fields.
EmitVTableAndFields ==
    /\ EmitVTable
    /\ uses' = uses \cup {Body(e.class, e.key) : e \in
                    {vtable[Top].entries[i] : i \in DOMAIN vtable[Top].entries}}
    /\ defined' = defined \cup Accessors(Top)
    /\ common' = common \cup Globals(Top)
    /\ UNCHANGED <<cursor, fieldKind, slots, direct, aborted>>

\* Mutant of EmitBody: a thunk is defined only where a call would use it.
EmitBodyOverridable ==
    /\ AtCode
    /\ cursor > Len(TopMethods[next].code)
    /\ EmitDirectMethod \/ EmitVirtualMethod
    /\ LET m == TopMethods[next]
       IN defined' = defined \cup {Body(Top, m.key)} \cup
             (IF CanBeOverridden(Top, m) THEN {Thunk(Top, m.key)} ELSE {})
    /\ cursor' = 1
    /\ UNCHANGED <<fieldKind, slots, uses, direct, common, aborted>>

\* The body has been emitted; its thunk follows.
EmitBody ==
    /\ AtCode
    /\ cursor > Len(TopMethods[next].code)
    /\ EmitDirectMethod \/ EmitVirtualMethod
    /\ LET m == TopMethods[next]
       IN defined' = defined \cup {Body(Top, m.key)} \cup
             (IF IsVirtual(Top, m) THEN {Thunk(Top, m.key)} ELSE {})
    /\ cursor' = 1
    /\ UNCHANGED <<fieldKind, slots, uses, direct, common, aborted>>

FinishWithInstantiator ==
    /\ FinishDefinition
    /\ defined' = defined \cup {Instantiator(Top)}
    /\ UNCHANGED <<cursor, fieldKind, slots, uses, direct, common, aborted>>

\* Steps of the pool that link nothing.
PoolOnly ==
    /\ \/ RequestAnswered \/ RequestCreates
       \/ SuperInPool \/ SuperCreated \/ SuperMissing \/ SuperUnfinished
       \/ DeclareNonVirtual \/ DeclareOverride \/ DeclareNewSlot
       \/ EmitNative \/ EmitAbstract \/ Finish
    /\ UNCHANGED linkVars

-----------------------------------------------------------------------------
(* Instructions                                                            *)

AtInst(ops) ==
    /\ AtCode
    /\ cursor \in DOMAIN TopMethods[next].code
    /\ TopMethods[next].code[cursor].op \in ops

Ref == TopMethods[next].code[cursor]

Advance ==
    /\ cursor' = cursor + 1
    /\ UNCHANGED <<vars, slots, defined, common, aborted>>

InvokeThunk ==
    /\ AtInst({"invokevirtual"})
    /\ RefCanBeOverridden(Ref.class, Ref.member)
    /\ uses' = uses \cup {Thunk(Ref.class, Ref.member)}
    /\ Advance
    /\ UNCHANGED <<fieldKind, direct>>

InvokeFinal ==
    /\ AtInst({"invokevirtual"})
    /\ ~RefCanBeOverridden(Ref.class, Ref.member)
    /\ uses' = uses \cup {Body(Ref.class, Ref.member)}
    /\ direct' = direct \cup {<<Ref.class, Ref.member>>}
    /\ Advance
    /\ UNCHANGED fieldKind

InvokeNonVirtual ==
    /\ AtInst({"invokespecial", "invokestatic"})
    /\ uses' = uses \cup {Body(Ref.class, Ref.member)}
    /\ Advance
    /\ UNCHANGED <<fieldKind, direct>>

New ==
    /\ AtInst({"new"})
    /\ uses' = uses \cup {Instantiator(Ref.class)}
    /\ Advance
    /\ UNCHANGED <<fieldKind, direct>>

\* All four accesses look the field up as a static one, so an unknown field
\* becomes one.
RefFieldKind == FieldKind(Ref.class, Ref.member, "static")
Register == fieldKind' = Put(fieldKind, <<Ref.class, Ref.member>>, RefFieldKind)

AccessGlobal ==
    /\ AtInst(StaticAccesses)
    /\ RefFieldKind = "static"
    /\ Register
    /\ uses' = uses \cup {Global(Ref.class, Ref.member)}
    /\ Advance
    /\ UNCHANGED direct

GetField ==
    /\ AtInst({"getfield"})
    /\ RefFieldKind = "instance"
    /\ uses' = uses \cup {Getter(Ref.class, Ref.member)}
    /\ Advance
    /\ UNCHANGED <<fieldKind, direct>>

PutField ==
    /\ AtInst({"putfield"})
    /\ RefFieldKind = "instance"
    /\ uses' = uses \cup {Setter(Ref.class, Ref.member)}
    /\ Advance
    /\ UNCHANGED <<fieldKind, direct>>

\* Mutant of AssertionFails: without the assertion, the declaration it guards
\* emits the access of a global.
AssertionIgnored ==
    /\ AtInst(InstanceAccesses)
    /\ RefFieldKind = "static"
    /\ Register
    /\ uses' = uses \cup {Global(Ref.class, Ref.member)}
    /\ Advance
    /\ UNCHANGED direct

\* An object reference for a field declared static, or none for one declared
\* as an instance field: the assertions of EmitLoad and EmitStore.
AssertionFails ==
    /\ \/ AtInst(InstanceAccesses) /\ RefFieldKind = "static"
       \/ AtInst(StaticAccesses) /\ RefFieldKind = "instance"
    /\ Register
    /\ aborted' = TRUE
    /\ UNCHANGED <<vars, cursor, slots, uses, direct, defined, common>>

-----------------------------------------------------------------------------
LinkStep ==
    /\ ~aborted
    /\ \/ PoolOnly \/ Link \/ EmitVTableAndFields \/ EmitBody
       \/ FinishWithInstantiator
       \/ InvokeThunk \/ InvokeFinal \/ InvokeNonVirtual \/ New
       \/ AccessGlobal \/ GetField \/ PutField \/ AssertionFails

Ended == aborted \/ ~Running

LinkNext == LinkStep \/ (Ended /\ UNCHANGED allVars)

LinkSpec == LinkInit /\ [][LinkNext]_allVars

-----------------------------------------------------------------------------
(* Properties                                                              *)

HasBody(c, k) == \E m \in MethodsOf(c) : m.key = k /\ ~m.native

\* A function of a complete class that emitted code refers to is defined if it
\* is the body of a method the class declares and that has bytecode, the thunk
\* of such a method that is virtual, an accessor of a field the class declares,
\* or its instantiator: even where the reference was compiled, and the field
\* registered, before the class was declared.  Natives and inherited members
\* that are named by the subclass are not among them.
UsesDefined ==
    \A u \in uses : phase[u.class] = "complete" =>
        LET c == u.class
            k == u.member
        IN /\ u.kind = "method" /\ HasBody(c, k) => u \in defined
           /\ u.kind = "thunk" /\ HasBody(c, k)
                /\ IsVirtual(c, MethodNamed(c, k)) => u \in defined
           /\ u.kind \in {"getter", "setter"}
                /\ (\E f \in FieldsOf(c) : f.name = k) => u \in defined
           /\ u.kind = "instantiator" => u \in defined

\* The global of a static field that a complete class declares has common
\* linkage, so that the units that refer to it may agree on one, were it created
\* by the class or by a reference that came first.  Nothing more: without an
\* initial value it is a declaration in every unit.
GlobalsHaveLinkage ==
    \A u \in uses :
        /\ u.kind = "global"
        /\ phase[u.class] = "complete"
        /\ \E f \in FieldsOf(u.class) : f.name = u.member /\ f.static
        => u \in common

\* An invokevirtual compiled to a direct call runs what dispatch would have run:
\* no class that is defined, then or later, below the one it names has another
\* method in that slot.  (FinalAssumption: class files that override a final
\* method are illegal.)
DirectCallsSafe ==
    \A x \in direct : \A d \in DOMAIN table : x[1] \in ancestors[d] =>
        \A i \in DOMAIN table[d] :
            table[d][i].key = x[2] => table[d][i].class = x[1]

\* Every instance field of a linked class has a place of its own in the objects
\* of the class, and no static one has, whoever named the field first.
FieldSlots ==
    \A c \in DOMAIN slots :
        slots[c] = {f.name : f \in {g \in FieldsOf(c) : ~g.static}}

\* field.cc asserts that a field read or written through an object is not
\* declared static; the class files here are well typed.
AssertionsHold == ~aborted

\* method.cc: a method does not have to be virtual if it cannot be overridden
\* and overrides nothing.  So nothing calls the thunk of a method that, once
\* known, turns out not to be virtual.
NonVirtualNeedsNoThunk ==
    \A u \in uses : u.kind = "thunk" /\ Known(u.class, u.member) =>
        IsVirtual(u.class, MethodNamed(u.class, u.member))
=============================================================================
