------------------------------ MODULE ClassPool ------------------------------
(***************************************************************************)
(* The class pool and the definition of a class: ClassPool::Get,           *)
(* ClassInfo::EmitDefinition and the virtual tables they build.            *)
(*                                                                         *)
(* The compiler is one thread of control, yet Get and EmitDefinition call  *)
(* each other: a class enters the pool BEFORE its definition is emitted,   *)
(* and its definition first asks the pool for the super class.  What is    *)
(* interleaved here are the frames of that recursion, so a step of this    *)
(* specification is one stretch of EmitDefinition between two calls, or    *)
(* one iteration of one of its loops over the methods.                     *)
(*                                                                         *)
(* A method body is opaque here (Code); Linkage gives it instructions.     *)
(***************************************************************************)
EXTENDS Naturals, Sequences

CONSTANTS
    ClassName,      \* fully qualified class names
    MethodKey,      \* name + descriptor: the key of VTable::methods_
    FieldName,      \* name + descriptor of a field
    NoArgCtor,      \* the key "<init>()V"
    Code,           \* the bodies of methods (code attributes)
    None,           \* nullptr: no super class, no code attribute
    ClassPaths,     \* what ClassPath::Find may know: maps name -> class file
    Drivers         \* the roots main (or another driver) asks the pool for

Method == [key    : MethodKey,
           static : BOOLEAN,
           final  : BOOLEAN,
           native : BOOLEAN,
           code   : Code \cup {None}]

Field == [name : FieldName, static : BOOLEAN]

\* The class file as cjbp parses it.  The fields matter to Linkage only.
ClassFile == [super   : ClassName \cup {None},
              final   : BOOLEAN,
              fields  : Seq(Field),
              methods : Seq(Method)]

ASSUME NoneAssumption == None \notin ClassName /\ None \notin Code

ASSUME ClassPathAssumption ==
    \A fs \in ClassPaths : /\ DOMAIN fs \subseteq ClassName
                           /\ fs \in [DOMAIN fs -> ClassFile]

ASSUME DriverAssumption == \A d \in Drivers : d \in Seq(ClassName)

VARIABLES
    files,      \* the class path of this compilation; never changes
    requests,   \* roots the driver has still to Get
    calls,      \* the EmitDefinition frames on the C++ stack, outermost first
    phase,      \* how far the definition of each class has come
    next,       \* index of the loop the innermost frame is in
    vtable,     \* ClassInfo::vtable_, for the classes that have one
    ancestors,  \* the class and all it reaches through super_class_
    table,      \* the constant array emitted for a class's vtable
    thunks,     \* virtual dispatch thunks emitted, with their slot
    outcome     \* "running", or how the compilation ended

vars == <<files, requests, calls, phase, next, vtable, ancestors, table,
          thunks, outcome>>

Phases == {"absent", "super", "link", "methods", "bodies", "complete"}

Failures == {"BadBytecode", "bad_optional_access", "no_virtual_method",
             "null_code", "null_unit"}

Outcomes == {"running", "emitted"} \cup Failures

-----------------------------------------------------------------------------
(* Virtual tables                                                          *)

\* A map with one more, or one changed, entry (std::map::emplace).
Put(f, k, v) == [x \in DOMAIN f \cup {k} |-> IF x = k THEN v ELSE f[x]]

Slot == [class : ClassName, key : MethodKey]

\* entries_ holds the slots in order; methods_ maps a key to its entry, known
\* here by the index the entry carries: the size of entries_ when it was pushed.
EmptyVTable == [entries |-> <<>>, methods |-> [k \in {} |-> 0]]

KeysOf(entries) == {entries[i].key : i \in DOMAIN entries}

FirstOf(entries, k) ==
    CHOOSE i \in DOMAIN entries :
        /\ entries[i].key = k
        /\ \A j \in DOMAIN entries : entries[j].key = k => i <= j

\* Mutant of CopyVTable: a subclass starts with an empty table.
CopyNothing(vt) == EmptyVTable

\* The copy re-enters each entry in a map of its own, and emplace keeps the
\* first entry of a key.
CopyVTable(vt) ==
    [entries |-> vt.entries,
     methods |-> [k \in KeysOf(vt.entries) |-> FirstOf(vt.entries, k) - 1]]

\* Mutant of ReplaceSlot: the override leaves the inherited entry as it was.
ReplaceNothing(vt, k, c) == vt

ReplaceSlot(vt, k, c) ==
    [entries |-> [vt.entries EXCEPT ![vt.methods[k] + 1] =
                                        [class |-> c, key |-> k]],
     methods |-> vt.methods]

\* Mutants of AppendSlot: the index is one too high; methods_ is not updated.
AppendOffByOne(vt, k, c) ==
    [entries |-> Append(vt.entries, [class |-> c, key |-> k]),
     methods |-> Put(vt.methods, k, Len(vt.entries) + 1)]

AppendEntryOnly(vt, k, c) ==
    [vt EXCEPT !.entries = Append(vt.entries, [class |-> c, key |-> k])]

AppendSlot(vt, k, c) ==
    [entries |-> Append(vt.entries, [class |-> c, key |-> k]),
     methods |-> Put(vt.methods, k, Len(vt.entries))]

HasMethod(vt, k) == k \in DOMAIN vt.methods

-----------------------------------------------------------------------------
(* Methods whose owner and bytecode are known                              *)

CanBeOverridden(c, m) ==
    /\ ~m.static
    /\ m.key # NoArgCtor
    /\ ~m.final
    /\ ~files[c].final

InheritsSlot(c, m) ==
    /\ files[c].super # None
    /\ HasMethod(vtable[files[c].super], m.key)

IsVirtual(c, m) ==
    /\ ~m.static
    /\ m.key # NoArgCtor
    /\ CanBeOverridden(c, m) \/ InheritsSlot(c, m)

-----------------------------------------------------------------------------
Init ==
    /\ files \in ClassPaths
    /\ requests \in Drivers
    /\ calls = <<>>
    /\ phase = [c \in ClassName |-> "absent"]
    /\ next = 1
    /\ vtable = [c \in {} |-> EmptyVTable]
    /\ ancestors = [c \in {} |-> {}]
    /\ table = [c \in {} |-> <<>>]
    /\ thunks = {}
    /\ outcome = "running"

Running == outcome = "running"
Top == calls[Len(calls)]
TopMethods == files[Top].methods
TopSuper == files[Top].super

\* The innermost frame is EmitDefinition, stopped at phase p.
At(p) == Running /\ calls # <<>> /\ phase[Top] = p

InPool(c) == phase[c] # "absent"

-----------------------------------------------------------------------------
(* The driver and ClassPool::Get                                           *)

\* main calls Get and looks at nothing it returns: a class found in the pool,
\* or one the class path does not know, is passed over.
RequestAnswered ==
    /\ Running /\ calls = <<>> /\ requests # <<>>
    /\ InPool(Head(requests)) \/ Head(requests) \notin DOMAIN files
    /\ requests' = Tail(requests)
    /\ UNCHANGED <<files, calls, phase, next, vtable, ancestors, table,
                   thunks, outcome>>

\* The class goes into classes_ first and is defined after that.
RequestCreates ==
    /\ Running /\ calls = <<>> /\ requests # <<>>
    /\ ~InPool(Head(requests))
    /\ Head(requests) \in DOMAIN files
    /\ requests' = Tail(requests)
    /\ calls' = <<Head(requests)>>
    /\ phase' = [phase EXCEPT ![Head(requests)] = "super"]
    /\ UNCHANGED <<files, next, vtable, ancestors, table, thunks, outcome>>

\* EmitDefinition asks the pool for the super class and finds it there,
\* complete or not.
SuperInPool ==
    /\ At("super")
    /\ TopSuper # None
    /\ InPool(TopSuper)
    /\ phase' = [phase EXCEPT ![Top] = "link"]
    /\ UNCHANGED <<files, requests, calls, next, vtable, ancestors, table,
                   thunks, outcome>>

\* Mutant of SuperCreated: the class enters the pool after its definition.
SuperCreatedOutside ==
    /\ At("super")
    /\ TopSuper # None
    /\ ~InPool(TopSuper)
    /\ TopSuper \in DOMAIN files
    /\ calls' = Append(calls, TopSuper)
    /\ phase' = [phase EXCEPT ![Top] = "link"]
    /\ UNCHANGED <<files, requests, next, vtable, ancestors, table, thunks,
                   outcome>>

SuperCreated ==
    /\ At("super")
    /\ TopSuper # None
    /\ ~InPool(TopSuper)
    /\ TopSuper \in DOMAIN files
    /\ calls' = Append(calls, TopSuper)
    /\ phase' = [phase EXCEPT ![Top] = "link", ![TopSuper] = "super"]
    /\ UNCHANGED <<files, requests, next, vtable, ancestors, table, thunks,
                   outcome>>

\* Mutant of SuperMissing: Get answers null for a class it has not loaded yet.
SuperNotLoaded ==
    /\ At("super")
    /\ TopSuper # None
    /\ ~InPool(TopSuper)
    /\ outcome' = "BadBytecode"
    /\ UNCHANGED <<files, requests, calls, phase, next, vtable, ancestors,
                   table, thunks>>

SuperMissing ==
    /\ At("super")
    /\ TopSuper # None
    /\ ~InPool(TopSuper)
    /\ TopSuper \notin DOMAIN files
    /\ outcome' = "BadBytecode"
    /\ UNCHANGED <<files, requests, calls, phase, next, vtable, ancestors,
                   table, thunks>>

-----------------------------------------------------------------------------
(* ClassInfo::EmitDefinition                                               *)

LinkBase ==
    /\ At("super")
    /\ TopSuper = None
    /\ vtable' = Put(vtable, Top, EmptyVTable)
    /\ ancestors' = Put(ancestors, Top, {Top})
    /\ phase' = [phase EXCEPT ![Top] = "methods"]
    /\ next' = 1
    /\ UNCHANGED <<files, requests, calls, table, thunks, outcome>>

\* Mutant of LinkSuper: a super class without a vtable counts as an empty one.
LinkAnySuper ==
    /\ At("link")
    /\ LET known == TopSuper \in DOMAIN vtable
       IN /\ vtable' = Put(vtable, Top,
                            IF known THEN CopyVTable(vtable[TopSuper])
                                     ELSE EmptyVTable)
          /\ ancestors' = Put(ancestors, Top, {Top} \cup
                            (IF known THEN ancestors[TopSuper]
                                      ELSE {TopSuper}))
    /\ phase' = [phase EXCEPT ![Top] = "methods"]
    /\ next' = 1
    /\ UNCHANGED <<files, requests, calls, table, thunks, outcome>>

LinkSuper ==
    /\ At("link")
    /\ TopSuper \in DOMAIN vtable
    /\ vtable' = Put(vtable, Top, CopyVTable(vtable[TopSuper]))
    /\ ancestors' = Put(ancestors, Top, ancestors[TopSuper] \cup {Top})
    /\ phase' = [phase EXCEPT ![Top] = "methods"]
    /\ next' = 1
    /\ UNCHANGED <<files, requests, calls, table, thunks, outcome>>

\* The super class is in the pool but has no vtable yet: optional::value().
SuperUnfinished ==
    /\ At("link")
    /\ TopSuper \notin DOMAIN vtable
    /\ outcome' = "bad_optional_access"
    /\ UNCHANGED <<files, requests, calls, phase, next, vtable, ancestors,
                   table, thunks>>

\* One iteration of the loop that declares the methods and offers each to
\* VTable::MaybeAddVirtualMethod.
AtMethod == At("methods") /\ next \in DOMAIN TopMethods

DeclareNonVirtual ==
    /\ AtMethod
    /\ ~IsVirtual(Top, TopMethods[next])
    /\ next' = next + 1
    /\ UNCHANGED <<files, requests, calls, phase, vtable, ancestors, table,
                   thunks, outcome>>

\* Mutant of DeclareOverride: the subclass shares the table of its super class.
OverrideInPlace ==
    /\ AtMethod
    /\ LET k == TopMethods[next].key
           vt == ReplaceSlot(vtable[Top], k, Top)
       IN /\ IsVirtual(Top, TopMethods[next])
          /\ HasMethod(vtable[Top], k)
          /\ vtable' = Put([vtable EXCEPT ![TopSuper] = vt], Top, vt)
    /\ next' = next + 1
    /\ UNCHANGED <<files, requests, calls, phase, ancestors, table, thunks,
                   outcome>>

DeclareOverride ==
    /\ AtMethod
    /\ LET k == TopMethods[next].key
       IN /\ IsVirtual(Top, TopMethods[next])
          /\ HasMethod(vtable[Top], k)
          /\ vtable' = Put(vtable, Top, ReplaceSlot(vtable[Top], k, Top))
    /\ next' = next + 1
    /\ UNCHANGED <<files, requests, calls, phase, ancestors, table, thunks,
                   outcome>>

DeclareNewSlot ==
    /\ AtMethod
    /\ LET k == TopMethods[next].key
       IN /\ IsVirtual(Top, TopMethods[next])
          /\ ~HasMethod(vtable[Top], k)
          /\ vtable' = Put(vtable, Top, AppendSlot(vtable[Top], k, Top))
    /\ next' = next + 1
    /\ UNCHANGED <<files, requests, calls, phase, ancestors, table, thunks,
                   outcome>>

\* Mutants of EmitVTable: the array is emitted as it was before the methods
\* were offered; the loop over the bodies starts at index 0.
EmitInherited ==
    /\ At("methods")
    /\ next > Len(TopMethods)
    /\ table' = Put(table, Top, IF TopSuper = None THEN <<>>
                                ELSE vtable[TopSuper].entries)
    /\ phase' = [phase EXCEPT ![Top] = "bodies"]
    /\ next' = 1
    /\ UNCHANGED <<files, requests, calls, vtable, ancestors, thunks, outcome>>

EmitVTableFromZero ==
    /\ At("methods")
    /\ next > Len(TopMethods)
    /\ table' = Put(table, Top, vtable[Top].entries)
    /\ phase' = [phase EXCEPT ![Top] = "bodies"]
    /\ next' = 0
    /\ UNCHANGED <<files, requests, calls, vtable, ancestors, thunks, outcome>>

\* VTable::EmitDefinition freezes the entries in a constant array.
EmitVTable ==
    /\ At("methods")
    /\ next > Len(TopMethods)
    /\ table' = Put(table, Top, vtable[Top].entries)
    /\ phase' = [phase EXCEPT ![Top] = "bodies"]
    /\ next' = 1
    /\ UNCHANGED <<files, requests, calls, vtable, ancestors, thunks, outcome>>

\* One iteration of the loop over MethodDeclaration::EmitDefinition.
AtBody == At("bodies") /\ next \in DOMAIN TopMethods

\* Mutant of EmitNative: the loop does not advance over a native method.
EmitNativeForever == AtBody /\ TopMethods[next].native /\ UNCHANGED vars

EmitNative ==
    /\ AtBody
    /\ TopMethods[next].native
    /\ next' = next + 1
    /\ UNCHANGED <<files, requests, calls, phase, vtable, ancestors, table,
                   thunks, outcome>>

\* No code attribute to dereference.
EmitAbstract ==
    /\ AtBody
    /\ ~TopMethods[next].native
    /\ TopMethods[next].code = None
    /\ outcome' = "null_code"
    /\ UNCHANGED <<files, requests, calls, phase, next, vtable, ancestors,
                   table, thunks>>

AtCode == AtBody /\ ~TopMethods[next].native /\ TopMethods[next].code # None

EmitDirectMethod ==
    /\ AtCode
    /\ ~IsVirtual(Top, TopMethods[next])
    /\ next' = next + 1
    /\ UNCHANGED <<files, requests, calls, phase, vtable, ancestors, table,
                   thunks, outcome>>

\* Mutant of EmitVirtualMethod: no thunk for a final method that overrides.
EmitOverridableThunk ==
    /\ AtCode
    /\ IsVirtual(Top, TopMethods[next])
    /\ IF CanBeOverridden(Top, TopMethods[next])
       THEN LET k == TopMethods[next].key
            IN thunks' = thunks \cup {[class |-> Top, key |-> k,
                                       index |-> vtable[Top].methods[k]]}
       ELSE UNCHANGED thunks
    /\ next' = next + 1
    /\ UNCHANGED <<files, requests, calls, phase, vtable, ancestors, table,
                   outcome>>

\* The body, then the thunk: its slot is looked up in the owner's vtable, and
\* the lookup throws when there is none.
EmitVirtualMethod ==
    /\ AtCode
    /\ LET k == TopMethods[next].key
           methods == vtable[Top].methods
       IN /\ IsVirtual(Top, TopMethods[next])
          /\ IF k \in DOMAIN methods
             THEN /\ thunks' = thunks \cup
                        {[class |-> Top, key |-> k, index |-> methods[k]]}
                  /\ UNCHANGED outcome
             ELSE outcome' = "no_virtual_method" /\ UNCHANGED thunks
    /\ next' = next + 1
    /\ UNCHANGED <<files, requests, calls, phase, vtable, ancestors, table>>

\* The instantiator is emitted and EmitDefinition returns, to Get and then to
\* the frame of the subclass that asked for this class, or to the driver.
FinishDefinition ==
    /\ At("bodies")
    /\ next > Len(TopMethods)
    /\ phase' = [phase EXCEPT ![Top] = "complete"]
    /\ calls' = SubSeq(calls, 1, Len(calls) - 1)
    /\ UNCHANGED <<files, requests, next, vtable, ancestors, table, thunks,
                   outcome>>

-----------------------------------------------------------------------------
\* Mutant of Finish: the unit is printed whether or not there is one.
FinishRegardless ==
    /\ Running /\ calls = <<>> /\ requests = <<>>
    /\ outcome' = "emitted"
    /\ UNCHANGED <<files, requests, calls, phase, next, vtable, ancestors,
                   table, thunks>>

\* The driver verifies, optimizes and prints the global unit, which exists
\* only if some class was created.
Finish ==
    /\ Running /\ calls = <<>> /\ requests = <<>>
    /\ outcome' = IF \E c \in ClassName : InPool(c) THEN "emitted"
                                                    ELSE "null_unit"
    /\ UNCHANGED <<files, requests, calls, phase, next, vtable, ancestors,
                   table, thunks>>

\* The process has ended.
Terminated == ~Running /\ UNCHANGED vars

Next ==
    \/ RequestAnswered \/ RequestCreates
    \/ SuperInPool \/ SuperCreated \/ SuperMissing
    \/ LinkBase \/ LinkSuper \/ SuperUnfinished
    \/ DeclareNonVirtual \/ DeclareOverride \/ DeclareNewSlot
    \/ EmitVTable
    \/ EmitNative \/ EmitAbstract \/ EmitDirectMethod \/ EmitVirtualMethod
    \/ FinishDefinition
    \/ Finish
    \/ Terminated

Spec == Init /\ [][Next]_vars

\* The compiler is a single thread that runs until it stops.
FairSpec == Spec /\ WF_vars(Next)

-----------------------------------------------------------------------------
(* Properties                                                              *)

IsVTable(vt) ==
    /\ vt = [entries |-> vt.entries, methods |-> vt.methods]
    /\ vt.entries \in Seq(Slot)
    /\ vt.methods \in [DOMAIN vt.methods -> Nat]
    /\ DOMAIN vt.methods \subseteq MethodKey

\* Every variable holds a value of its type.
TypeOK ==
    /\ DOMAIN files \subseteq ClassName
    /\ files \in [DOMAIN files -> ClassFile]
    /\ requests \in Seq(ClassName)
    /\ calls \in Seq(ClassName)
    /\ phase \in [ClassName -> Phases]
    /\ next \in Nat \ {0}
    /\ DOMAIN vtable \subseteq ClassName
    /\ \A c \in DOMAIN vtable : IsVTable(vtable[c])
    /\ DOMAIN ancestors = DOMAIN vtable
    /\ \A c \in DOMAIN ancestors : ancestors[c] \subseteq ClassName
    /\ DOMAIN table \subseteq DOMAIN vtable
    /\ \A c \in DOMAIN table : table[c] \in Seq(Slot)
    /\ thunks \subseteq [class : ClassName, key : MethodKey, index : Nat]
    /\ outcome \in Outcomes

Linked(c) == phase[c] \in {"methods", "bodies", "complete"}

Coherent(vt) ==
    /\ \A k \in DOMAIN vt.methods :
          /\ vt.methods[k] < Len(vt.entries)
          /\ vt.entries[vt.methods[k] + 1].key = k
    /\ \A i \in DOMAIN vt.entries :
          /\ vt.entries[i].key \in DOMAIN vt.methods
          /\ vt.methods[vt.entries[i].key] = i - 1

\* The map and the vector of every vtable describe the same slots: each key has
\* one slot, at the index recorded for it (vtable.cc keeps the two in step over
\* copies, overrides and additions).
VTableCoherent == \A c \in DOMAIN vtable : Coherent(vtable[c])

\* A thunk compiled against a class finds the method it names in the emitted
\* table of every class below it: a slot never moves, vanishes or changes its
\* key further down, in whatever order the hierarchy was loaded.
SlotsAgree ==
    \A t \in thunks : \A d \in DOMAIN table :
        t.class \in ancestors[d] =>
            /\ t.index < Len(table[d])
            /\ table[d][t.index + 1].key = t.key

\* The emitted array is the vtable the thunks were compiled against: nothing is
\* declared after the array was frozen.
TableCurrent == \A c \in DOMAIN table : table[c] = vtable[c].entries

\* A class copies its vtable from, and is linked to, a super class whose own
\* definition is complete; one with no super class has itself as sole ancestor.
SuperCompleteFirst ==
    \A c \in ClassName : Linked(c) =>
        LET s == files[c].super
        IN IF s = None THEN ancestors[c] = {c}
           ELSE /\ phase[s] = "complete"
                /\ ancestors[c] = ancestors[s] \cup {c}
                /\ c \notin ancestors[s]

\* EmitVirtualLookup never throws: a method that is virtual when its thunk is
\* emitted was virtual when it was offered to the vtable.
LookupNeverFails == outcome # "no_virtual_method"

\* The frames of EmitDefinition are a chain from a class to its super class, no
\* class is in two of them, and every class being defined is in one.
FramesAreAChain ==
    /\ \A i, j \in DOMAIN calls : calls[i] = calls[j] => i = j
    /\ \A i \in 1..(Len(calls) - 1) :
          /\ phase[calls[i]] = "link"
          /\ files[calls[i]].super = calls[i + 1]
    /\ \A c \in ClassName :
          phase[c] \notin {"absent", "complete"} <=>
              \E i \in DOMAIN calls : calls[i] = c

\* A complete class has a thunk, at the slot of its own vtable, for each of its
\* virtual methods that has a body.
ThunkForEveryVirtual ==
    \A c \in ClassName : phase[c] = "complete" =>
        \A i \in DOMAIN files[c].methods :
            LET m == files[c].methods[i]
            IN (IsVirtual(c, m) /\ ~m.native) =>
                  \E t \in thunks : /\ t.class = c
                                    /\ t.key = m.key
                                    /\ t.index = vtable[c].methods[m.key]

\* The compilation fails on a super class only for the reason it reports: an
\* unfinished super class is one whose definition waits for this one (the
\* hierarchy is circular), a missing one is not on the class path.  And the
\* unit that is handed on is never partial: no class in the pool is left half
\* defined by the recursion of Get, and there is at least one.
OutcomeExplained ==
    /\ outcome = "bad_optional_access" =>
          \E i \in DOMAIN calls : calls[i] = TopSuper
    /\ outcome = "BadBytecode" =>
          TopSuper # None /\ TopSuper \notin DOMAIN files
    /\ outcome = "emitted" =>
          /\ \A c \in ClassName : phase[c] \in {"absent", "complete"}
          /\ \E c \in ClassName : phase[c] = "complete"

\* What the emitted tables make a virtual call run, slot by slot.
Dispatch ==
    INSTANCE VirtualDispatch WITH
        selects <- [c \in DOMAIN table |->
                      [k \in KeysOf(table[c]) |->
                          (CHOOSE s \in {table[c][i] : i \in DOMAIN table[c]} :
                              s.key = k).class]]

\* The tables dispatch as the class files say: each class runs its own virtual
\* methods and inherits the others from its super class, whatever the order in
\* which the classes were asked for.
DispatchesAsDeclared == Dispatch!Spec

\* A complete class is never touched again: its vtable, its ancestors and its
\* emitted table stay, whatever subclasses are defined later.
CompleteIsFrozen ==
    [][\A c \in ClassName : phase[c] = "complete" =>
          /\ phase'[c] = "complete"
          /\ vtable'[c] = vtable[c]
          /\ ancestors'[c] = ancestors[c]
          /\ table'[c] = table[c]]_vars

\* Every compilation ends, also on circular class files.
Termination == <>(outcome # "running")
=============================================================================
