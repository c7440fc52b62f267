----------------------------- MODULE LinkageProofs -----------------------------
(***************************************************************************)
(* Proofs about Linkage, for any class files that have no member twice and *)
(* whose static accesses name no instance field.  Linkage implements       *)
(* ClassPool, so what is proved of the pool holds of it as well.           *)
(***************************************************************************)
EXTENDS Linkage, ClassPoolProofs

-----------------------------------------------------------------------------
(* The invariant                                                           *)

PoolInv == TypeInv /\ FramesAreAChain /\ HierarchyInv

\* A field of a linked class has the kind it is declared with.
KindsRight ==
    \A c \in ClassName : Linked(c) => \A f \in FieldsOf(c) :
        /\ <<c, f.name>> \in DOMAIN fieldKind
        /\ fieldKind[<<c, f.name>>] = DeclaredKind(f)

\* A field that is registered before its class is linked is a static one.
KindsBefore ==
    ~aborted => \A c \in ClassName : ~Linked(c) =>
        \A k : <<c, k>> \in DOMAIN fieldKind =>
            /\ fieldKind[<<c, k>>] = "static"
            /\ c \in DOMAIN files =>
                  \A f \in FieldsOf(c) : f.name = k => f.static

\* Accessors are called only of fields that are known to be instance fields.
UseTyped(u) ==
    /\ u = [kind |-> u.kind, class |-> u.class, member |-> u.member]
    /\ u.class \in ClassName
    /\ u.kind = "instantiator" => u.member = None
    /\ u.kind \in {"getter", "setter"} =>
          /\ <<u.class, u.member>> \in DOMAIN fieldKind
          /\ fieldKind[<<u.class, u.member>>] = "instance"

UsesTyped == \A u \in uses : UseTyped(u)

\* What the definition of a class has defined so far.
DefinedOf(c) ==
    /\ Declared(c) =>
          /\ Accessors(c) \subseteq defined /\ Globals(c) \subseteq common
          /\ \A i \in DOMAIN files[c].methods :
               LET m == files[c].methods[i]
               IN (phase[c] = "bodies" => i < next) /\ ~m.native =>
                     /\ Body(c, m.key) \in defined
                     /\ IsVirtual(c, m) => Thunk(c, m.key) \in defined
    /\ phase[c] = "complete" => Instantiator(c) \in defined

DefinedInv == \A c \in ClassName : DefinedOf(c)

FieldInv == FieldSlots /\ KindsRight /\ KindsBefore

LinkInv == FieldInv /\ UsesTyped /\ DefinedInv

-----------------------------------------------------------------------------
(* The pool                                                                *)

LEMMA LinkStepIsPoolStep == [LinkNext]_allVars => [Next]_vars
  BY DEF LinkNext, LinkStep, PoolOnly, Link, EmitVTableAndFields, EmitBody,
         FinishWithInstantiator, InvokeThunk, InvokeFinal, InvokeNonVirtual,
         New, AccessGlobal, GetField, PutField, AssertionFails, Advance,
         allVars, Next

\* Whatever bodies refer to, the pool does what it does without them.
THEOREM LinkageImplementsPool == LinkSpec => Spec
<1>1. LinkInit => Init
  BY DEF LinkInit
<1> QED BY <1>1, LinkStepIsPoolStep, PTL DEF LinkSpec, Spec

LEMMA PoolAlways == LinkSpec => []PoolInv
  BY LinkageImplementsPool, HierarchyAlways, PTL DEF PoolInv

-----------------------------------------------------------------------------
(* Class files                                                             *)

FilesOK == files \in ClassPaths

LEMMA FilesAlways == LinkSpec => []FilesOK
<1>1. LinkInit => FilesOK
  BY DEF LinkInit, Init, FilesOK
<1>2. FilesOK /\ [LinkNext]_allVars => FilesOK'
  BY LinkStepIsPoolStep, FilesFixed DEF FilesOK
<1> QED BY <1>1, <1>2, PTL DEF LinkSpec

\* The members of a class are known by their names.
LEMMA MemberFacts ==
    ASSUME FilesOK, NEW c \in DOMAIN files
    PROVE  /\ c \in ClassName /\ files[c] \in ClassFile
           /\ \A f \in FieldsOf(c) : f \in Field
           /\ \A f, g \in FieldsOf(c) : f.name = g.name => f = g
           /\ \A m, n \in MethodsOf(c) : m.key = n.key => m = n
<1>1. c \in ClassName /\ files[c] \in ClassFile
  BY ClassPathAssumption DEF FilesOK
<1>2. files[c].fields \in Seq(Field)
  BY <1>1 DEF ClassFile
<1>3. \A f \in FieldsOf(c) : f \in Field
  BY <1>2 DEF FieldsOf
<1> QED BY <1>1, <1>3, MembersAssumption DEF FilesOK, FieldsOf, MethodsOf

\* The instruction that is compiled.
LEMMA RefFacts ==
    ASSUME FilesOK, TypeInv, NEW ops, AtInst(ops)
    PROVE  /\ Ref \in Instruction /\ Ref.class \in ClassName /\ Ref.op \in ops
           /\ Ref.op \in StaticAccesses /\ Ref.class \in DOMAIN files =>
                \A f \in FieldsOf(Ref.class) : f.name = Ref.member => f.static
           /\ Ref.op = "invokevirtual" /\ Ref.class \in DOMAIN files =>
                \A n \in MethodsOf(Ref.class) : n.key = Ref.member => ~n.static
<1> DEFINE m == TopMethods[next]
<1>1. /\ Top \in DOMAIN files /\ m \in Method /\ next \in DOMAIN TopMethods
      /\ m.code # None /\ cursor \in DOMAIN m.code /\ m.code[cursor].op \in ops
  BY TopFacts DEF AtInst, AtCode, AtBody, At
<1>2. m.code \in Seq(Instruction)
  BY <1>1, CodeAssumption DEF Method
<1>3. Ref \in Instruction /\ Ref.op \in ops
  BY <1>1, <1>2 DEF Ref
<1>4. Ref.class \in ClassName
  BY <1>3 DEF Instruction
<1>5. m \in {files[Top].methods[i] : i \in DOMAIN files[Top].methods}
      /\ Ref \in {m.code[i] : i \in DOMAIN m.code}
  BY <1>1 DEF TopMethods, Ref
<1>6. Ref.class \in DOMAIN files =>
         /\ Ref.op \in StaticAccesses =>
              \A i \in DOMAIN files[Ref.class].fields :
                 files[Ref.class].fields[i].name = Ref.member =>
                    files[Ref.class].fields[i].static
         /\ Ref.op = "invokevirtual" =>
              \A i \in DOMAIN files[Ref.class].methods :
                 files[Ref.class].methods[i].key = Ref.member =>
                    ~files[Ref.class].methods[i].static
  <2> HIDE DEF m
  <2> QED BY <1>1, <1>5, AccessAssumption DEF FilesOK
<1> QED BY <1>3, <1>4, <1>6 DEF FieldsOf, MethodsOf

-----------------------------------------------------------------------------
(* Fields                                                                  *)

\* A registered field keeps its kind.
LEMMA KindsKept ==
    ASSUME LinkStep
    PROVE  \A x \in DOMAIN fieldKind : /\ x \in DOMAIN fieldKind'
                                       /\ fieldKind'[x] = fieldKind[x]
<1>1. CASE fieldKind' = fieldKind
  BY <1>1
<1>2. CASE Link
  BY <1>2 DEF Link, DeclareFields
<1>3. CASE Register
  <2> DEFINE x == <<Ref.class, Ref.member>>
  <2>1. fieldKind' = Put(fieldKind, x, RefFieldKind)
    BY <1>3 DEF Register
  <2>2. x \in DOMAIN fieldKind => RefFieldKind = fieldKind[x]
    BY DEF RefFieldKind, FieldKind
  <2> QED BY <2>1, <2>2 DEF Put
<1> QED BY <1>1, <1>2, <1>3
        DEF LinkStep, PoolOnly, linkVars, EmitVTableAndFields, EmitBody,
            FinishWithInstantiator, InvokeThunk, InvokeFinal, InvokeNonVirtual,
            New, AccessGlobal, GetField, PutField, AssertionFails

\* Only the link to the super class links a class.
LEMMA LinkedKept ==
    ASSUME TypeInv, LinkStep
    PROVE  /\ files' = files
           /\ \A c \in ClassName : Linked(c) => Linked(c)'
           /\ \A c \in ClassName : Link \/ (Linked(c)' => Linked(c))
<1>0. files' = files
  BY LinkStepIsPoolStep, FilesFixed DEF LinkNext
<1>1. phase \in [ClassName -> Phases]
  BY DEF TypeInv, TypeOK
<1>2. CASE phase' = phase
  BY <1>0, <1>2 DEF Linked
<1>3. CASE RequestCreates
  BY <1>0, <1>1, <1>3 DEF RequestCreates, Linked, InPool
<1>4. CASE SuperInPool
  BY <1>0, <1>1, <1>4 DEF SuperInPool, At, Linked
<1>5. CASE SuperCreated
  BY <1>0, <1>1, <1>5 DEF SuperCreated, At, Linked, InPool
<1>6. CASE Link
  BY <1>0, <1>1, <1>6 DEF Link, LinkBase, LinkSuper, Linked
<1>7. CASE EmitVTable
  BY <1>0, <1>1, <1>7 DEF EmitVTable, At, Linked
<1>8. CASE FinishDefinition
  BY <1>0, <1>1, <1>8 DEF FinishDefinition, At, Linked
<1> QED BY <1>2, <1>3, <1>4, <1>5, <1>6, <1>7, <1>8
        DEF LinkStep, PoolOnly, EmitVTableAndFields, EmitBody,
            FinishWithInstantiator, InvokeThunk, InvokeFinal, InvokeNonVirtual,
            New, AccessGlobal, GetField, PutField, AssertionFails, Advance,
            RequestAnswered, SuperMissing, SuperUnfinished, DeclareNonVirtual,
            DeclareOverride, DeclareNewSlot, EmitNative, EmitAbstract, Finish,
            EmitDirectMethod, EmitVirtualMethod, vars

\* The fields of a class that is linked get the kinds they are declared with,
\* those that were registered before too.
LEMMA LinkFields ==
    ASSUME FilesOK, PoolInv, FieldInv, ~aborted, LinkStep, Link
    PROVE  FieldInv'
<1>0. /\ Top \in ClassName /\ Top \in DOMAIN files /\ files' = files
      /\ ~Linked(Top) /\ phase' = [phase EXCEPT ![Top] = "methods"]
      /\ phase \in [ClassName -> Phases] /\ aborted' = aborted
  BY TopFacts, LinkedKept
     DEF PoolInv, Link, LinkBase, LinkSuper, At, Linked, TypeInv, TypeOK
<1>1. PICK t \in ClassName : t = Top
  BY <1>0
<1>2. \A f \in FieldsOf(t) : FieldKind(t, f.name, DeclaredKind(f)) = DeclaredKind(f)
  BY <1>0, <1>1 DEF FieldInv, KindsBefore, FieldKind, DeclaredKind
<1>3. \A f, g \in FieldsOf(t) : f.name = g.name => f = g
  BY <1>0, <1>1, MemberFacts
<1>4. \A f \in FieldsOf(t) :
         /\ <<t, f.name>> \in DOMAIN fieldKind'
         /\ fieldKind'[<<t, f.name>>] = DeclaredKind(f)
  <2> SUFFICES ASSUME NEW f \in FieldsOf(t)
               PROVE  /\ <<t, f.name>> \in DOMAIN fieldKind'
                      /\ fieldKind'[<<t, f.name>>] = DeclaredKind(f)
    OBVIOUS
  <2> DEFINE x == <<t, f.name>>
             own == {g.name : g \in FieldsOf(t)}
  <2>1. fieldKind' =
          [y \in DOMAIN fieldKind \cup ({t} \X own) |->
             IF y \in DOMAIN fieldKind THEN fieldKind[y]
             ELSE DeclaredKind(CHOOSE g \in FieldsOf(t) : g.name = y[2])]
    BY <1>1 DEF Link, DeclareFields
  <2>2. (CHOOSE g \in FieldsOf(t) : g.name = f.name) = f
    BY <1>3
  <2>3. x \in {t} \X own
    OBVIOUS
  <2>4. x \in DOMAIN fieldKind => fieldKind[x] = DeclaredKind(f)
    BY <1>2 DEF FieldKind
  <2> QED BY <2>1, <2>2, <2>3, <2>4
<1>5. slots' = Put(slots, t, {f.name : f \in {g \in FieldsOf(t) : ~g.static}})
  <2>1. slots' = Put(slots, t,
           {f.name : f \in {g \in FieldsOf(t) :
              FieldKind(t, g.name, DeclaredKind(g)) = "instance"}})
    BY <1>1 DEF Link, DeclareFields
  <2>2. {g \in FieldsOf(t) : FieldKind(t, g.name, DeclaredKind(g)) = "instance"}
          = {g \in FieldsOf(t) : ~g.static}
    BY <1>2 DEF DeclaredKind
  <2> QED BY <2>1, <2>2
<1>6. FieldSlots'
  BY <1>0, <1>5 DEF FieldInv, FieldSlots, Put, FieldsOf
<1>7. KindsRight'
  <2> SUFFICES ASSUME NEW c \in ClassName, Linked(c)', NEW f \in FieldsOf(c)'
               PROVE  /\ <<c, f.name>> \in DOMAIN fieldKind'
                      /\ fieldKind'[<<c, f.name>>] = DeclaredKind(f)
    BY DEF KindsRight, DeclaredKind
  <2>1. f \in FieldsOf(c)
    BY <1>0 DEF FieldsOf
  <2>2. CASE c = t
    BY <1>4, <2>1, <2>2
  <2>3. CASE c # t
    <3>1. Linked(c)
      BY <1>0, <1>1, <2>3 DEF Linked
    <3> QED BY <2>1, <3>1, KindsKept DEF FieldInv, KindsRight
  <2> QED BY <2>2, <2>3
<1>8. KindsBefore'
  <2> SUFFICES ASSUME NEW c \in ClassName, ~Linked(c)', NEW k,
                      <<c, k>> \in DOMAIN fieldKind'
               PROVE  /\ fieldKind'[<<c, k>>] = "static"
                      /\ c \in DOMAIN files =>
                           \A f \in FieldsOf(c) : f.name = k => f.static
    BY <1>0 DEF KindsBefore, FieldsOf
  <2>1. c # t /\ ~Linked(c)
    BY <1>0, <1>1 DEF Linked
  <2>2. <<c, k>> \in DOMAIN fieldKind
    BY <1>1, <2>1 DEF Link, DeclareFields
  <2> QED BY <2>1, <2>2, KindsKept DEF FieldInv, KindsBefore
<1> QED BY <1>6, <1>7, <1>8 DEF FieldInv

LEMMA FieldStep ==
    ASSUME FilesOK, PoolInv, FieldInv, LinkStep
    PROVE  FieldInv'
<1>0. TypeInv /\ files' = files /\ ~aborted
  BY LinkedKept DEF PoolInv, LinkStep
<1>1. CASE Link
  BY <1>0, <1>1, LinkFields
<1>2. ASSUME ~Link, slots' = slots
      PROVE  FieldSlots' /\ KindsRight'
  <2>1. FieldSlots'
    BY <1>0, <1>2 DEF FieldInv, FieldSlots, FieldsOf
  <2>2. \A c \in ClassName : Linked(c)' => Linked(c)
    BY <1>0, <1>2, LinkedKept
  <2>3. KindsRight'
    BY <1>0, <2>2, KindsKept DEF FieldInv, KindsRight, FieldsOf, DeclaredKind
  <2> QED BY <2>1, <2>3
<1>3. CASE ~Link /\ AssertionFails
  <2>1. slots' = slots /\ aborted'
    BY <1>3 DEF AssertionFails
  <2> QED BY <1>2, <1>3, <2>1 DEF FieldInv, KindsBefore
<1>4. CASE ~Link /\ AccessGlobal
  <2>1. /\ slots' = slots /\ aborted' = aborted /\ phase' = phase
        /\ RefFieldKind = "static"
        /\ fieldKind' = Put(fieldKind, <<Ref.class, Ref.member>>, "static")
        /\ AtInst(StaticAccesses)
    BY <1>4 DEF AccessGlobal, Register, Advance, vars
  <2>2. KindsBefore'
    <3> SUFFICES ASSUME NEW c \in ClassName, ~Linked(c), NEW k,
                        <<c, k>> \in DOMAIN fieldKind'
                 PROVE  /\ fieldKind'[<<c, k>>] = "static"
                        /\ c \in DOMAIN files =>
                             \A f \in FieldsOf(c) : f.name = k => f.static
      BY <1>0, <2>1 DEF KindsBefore, FieldsOf, Linked
    <3>1. CASE <<c, k>> \in DOMAIN fieldKind
      BY <1>0, <3>1, KindsKept DEF FieldInv, KindsBefore
    <3>2. CASE <<c, k>> \notin DOMAIN fieldKind
      <4>1. c = Ref.class /\ k = Ref.member
        BY <2>1, <3>2 DEF Put
      <4> QED BY <1>0, <2>1, <4>1, RefFacts DEF Put
    <3> QED BY <3>1, <3>2
  <2> QED BY <1>2, <1>4, <2>1, <2>2 DEF FieldInv
<1>5. CASE ~Link /\ UNCHANGED <<slots, fieldKind, aborted>>
  <2>1. \A c \in ClassName : Linked(c) => Linked(c)'
    BY <1>0, LinkedKept
  <2>2. KindsBefore'
    BY <1>0, <1>5, <2>1 DEF FieldInv, KindsBefore, FieldsOf
  <2> QED BY <1>2, <1>5, <2>2 DEF FieldInv
<1> QED BY <1>1, <1>3, <1>4, <1>5
        DEF LinkStep, PoolOnly, linkVars, EmitVTableAndFields, EmitBody,
            FinishWithInstantiator, InvokeThunk, InvokeFinal, InvokeNonVirtual,
            New, GetField, PutField, Advance

-----------------------------------------------------------------------------
(* Uses                                                                    *)

\* Every reference names a class; an accessor is referred to only if the field
\* was found to be an instance field, which it stays.
LEMMA UsesStep ==
    ASSUME FilesOK, PoolInv, UsesTyped, LinkStep
    PROVE  UsesTyped'
<1>0. TypeInv /\ \A u \in uses : UseTyped(u)
  BY DEF PoolInv, UsesTyped, UseTyped
<1>1. \A u \in uses : UseTyped(u)'
  BY <1>0, KindsKept DEF UseTyped
<1>2. SUFFICES ASSUME NEW u \in uses', u \notin uses
               PROVE  UseTyped(u)'
  BY <1>1 DEF UsesTyped, UseTyped
<1>3. CASE EmitVTableAndFields
  <2>1. PICK i \in DOMAIN vtable[Top].entries :
           u = Body(vtable[Top].entries[i].class, vtable[Top].entries[i].key)
    BY <1>2, <1>3 DEF EmitVTableAndFields
  <2>2. Top \in DOMAIN vtable
    BY <1>0, <1>3, TopFacts
       DEF EmitVTableAndFields, EmitVTable, At, TypeInv, StageHasTables, Linked
  <2>3. vtable[Top].entries[i] \in Slot
    BY <1>0, <2>1, <2>2 DEF TypeInv, TypeOK, IsVTable
  <2> QED BY <2>1, <2>3 DEF UseTyped, Body, Slot
<1>4. CASE InvokeThunk
  BY <1>0, <1>2, <1>4, RefFacts DEF InvokeThunk, UseTyped, Thunk
<1>5. CASE InvokeFinal
  BY <1>0, <1>2, <1>5, RefFacts DEF InvokeFinal, UseTyped, Body
<1>6. CASE InvokeNonVirtual
  BY <1>0, <1>2, <1>6, RefFacts DEF InvokeNonVirtual, UseTyped, Body
<1>7. CASE New
  BY <1>0, <1>2, <1>7, RefFacts DEF New, UseTyped, Instantiator
<1>8. CASE AccessGlobal
  BY <1>0, <1>2, <1>8, RefFacts DEF AccessGlobal, UseTyped, Global
<1>9. CASE GetField
  BY <1>0, <1>2, <1>9, RefFacts
     DEF GetField, UseTyped, Getter, RefFieldKind, FieldKind
<1>10. CASE PutField
  BY <1>0, <1>2, <1>10, RefFacts
     DEF PutField, UseTyped, Setter, RefFieldKind, FieldKind
<1>11. CASE uses' = uses
  BY <1>2, <1>11
<1> QED BY <1>3, <1>4, <1>5, <1>6, <1>7, <1>8, <1>9, <1>10, <1>11
        DEF LinkStep, PoolOnly, linkVars, Link, EmitBody,
            FinishWithInstantiator, AssertionFails

-----------------------------------------------------------------------------
(* Definitions                                                             *)

\* What a class has to define is settled when it is linked.
LEMMA MembersStable ==
    ASSUME FilesOK, PoolInv, FieldInv, LinkStep, NEW c \in ClassName, Linked(c)
    PROVE  /\ Accessors(c)' = Accessors(c) /\ Globals(c)' = Globals(c)
           /\ \A i : IsVirtual(c, files[c].methods[i])' <=>
                        IsVirtual(c, files[c].methods[i])
<1>1. /\ files' = files /\ TypeInv /\ SuperCompleteFirst /\ [Next]_vars
  BY LinkedKept, LinkStepIsPoolStep DEF PoolInv, HierarchyInv, LinkNext
<1>2. \A f \in FieldsOf(c) :
         fieldKind'[<<c, f.name>>] = fieldKind[<<c, f.name>>]
  BY KindsKept DEF FieldInv, KindsRight
<1>3. FieldsOf(c)' = FieldsOf(c)
  BY <1>1 DEF FieldsOf
<1>4. Accessors(c)' = Accessors(c)
  BY <1>2, <1>3 DEF Accessors
<1>5. Globals(c)' = Globals(c)
  BY <1>2, <1>3 DEF Globals
<1> QED BY <1>1, <1>4, <1>5, IsVirtualStable

\* What the definition of a class has made stays, and is what it has to make as
\* long as its loop over the bodies does not move.
LEMMA DefinedCarry ==
    ASSUME FilesOK, PoolInv, FieldInv, LinkStep,
           NEW c \in ClassName, DefinedOf(c),
           defined \subseteq defined', common \subseteq common',
           Declared(c)' => Declared(c),
           phase'[c] = "complete" => phase[c] = "complete",
           phase[c] = "bodies" => next' = next
    PROVE  DefinedOf(c)'
<1>1. files' = files
  BY LinkedKept DEF PoolInv
<1>2. phase'[c] = "complete" => Instantiator(c) \in defined'
  BY DEF DefinedOf
<1>3. ASSUME Declared(c)'
      PROVE  /\ Accessors(c)' \subseteq defined'
             /\ Globals(c)' \subseteq common'
             /\ \A i \in DOMAIN files[c].methods :
                  /\ phase'[c] = "bodies" => i < next'
                  /\ ~files[c].methods[i].native
                  => /\ Body(c, files[c].methods[i].key) \in defined'
                     /\ IsVirtual(c, files[c].methods[i])' =>
                           Thunk(c, files[c].methods[i].key) \in defined'
  <2>1. Linked(c) /\ Declared(c)
    BY <1>3 DEF Declared, Linked
  <2>2. phase[c] = "bodies" => phase'[c] = "bodies"
    BY <1>3, <2>1 DEF Declared
  <2> QED BY <2>1, <2>2, MembersStable DEF DefinedOf
<1> QED BY <1>1, <1>2, <1>3 DEF DefinedOf

\* The class whose bodies are being emitted.
LEMMA OnlyTopEmits ==
    ASSUME PoolInv, NEW c \in ClassName,
           phase[c] \in {"super", "methods", "bodies"}
    PROVE  calls # <<>> /\ c = Top
  BY OnlyTopRuns DEF PoolInv

\* The vtable is followed by the accessors and globals of the fields.
LEMMA DefinedFields ==
    ASSUME FilesOK, PoolInv, FieldInv, LinkStep, EmitVTableAndFields,
           NEW c \in ClassName, c = Top
    PROVE  DefinedOf(c)'
<1>1. /\ files' = files /\ Linked(c) /\ phase'[c] = "bodies" /\ next' = 1
      /\ DOMAIN files[c].methods = 1..Len(TopMethods)
      /\ defined' = defined \cup Accessors(c)
      /\ common' = common \cup Globals(c)
  BY LinkedKept, TopFacts
     DEF PoolInv, EmitVTableAndFields, EmitVTable, At, Linked, TopMethods,
         TypeInv, TypeOK
<1>2. \A i \in DOMAIN files[c].methods : ~(i < next')
  BY <1>1
<1>3. Accessors(c)' \subseteq defined' /\ Globals(c)' \subseteq common'
  BY <1>1, MembersStable
<1> QED BY <1>1, <1>2, <1>3 DEF DefinedOf

\* A body is followed by its thunk, a native method has neither.
LEMMA DefinedBody ==
    ASSUME FilesOK, PoolInv, FieldInv, LinkStep, DefinedInv,
           (EmitNative /\ UNCHANGED linkVars) \/ EmitBody,
           NEW c \in ClassName, c = Top
    PROVE  DefinedOf(c)'
<1> DEFINE m == TopMethods[next]
<1>1. /\ files' = files /\ phase[c] = "bodies" /\ phase' = phase
      /\ next' = next + 1 /\ next \in DOMAIN TopMethods
      /\ TopMethods = files[c].methods
      /\ DOMAIN TopMethods = 1..Len(TopMethods) /\ next \in Nat
      /\ defined \subseteq defined' /\ common \subseteq common'
      /\ ~m.native => /\ Body(c, m.key) \in defined'
                      /\ IsVirtual(c, m) => Thunk(c, m.key) \in defined'
  <2>1. TypeInv /\ calls # <<>>
    BY DEF PoolInv, EmitNative, EmitBody, AtCode, AtBody, At
  <2>2. files' = files /\ next \in Nat /\ TopMethods = files[c].methods
        /\ DOMAIN TopMethods = 1..Len(TopMethods)
    BY <2>1, LinkedKept, TopFacts DEF TopMethods, TypeInv, TypeOK
  <2>3. CASE EmitNative /\ UNCHANGED linkVars
    BY <2>2, <2>3 DEF EmitNative, AtBody, At, linkVars
  <2>4. CASE EmitBody
    BY <2>2, <2>4 DEF EmitBody, EmitDirectMethod, EmitVirtualMethod, AtCode,
                      AtBody, At
  <2> QED BY <2>3, <2>4
<1>2. Linked(c) /\ Declared(c) /\ DefinedOf(c)
  BY <1>1 DEF Linked, Declared, DefinedInv
<1>3. ASSUME NEW i \in DOMAIN files[c].methods, i < next',
             ~files[c].methods[i].native
      PROVE  /\ Body(c, files[c].methods[i].key) \in defined'
             /\ IsVirtual(c, files[c].methods[i])' =>
                   Thunk(c, files[c].methods[i].key) \in defined'
  <2>1. i < next \/ i = next
    BY <1>1, <1>3
  <2>2. IsVirtual(c, files[c].methods[i])' <=> IsVirtual(c, files[c].methods[i])
    BY <1>2, MembersStable
  <2>3. CASE i = next
    BY <1>1, <1>3, <2>2, <2>3
  <2>4. CASE i < next
    BY <1>1, <1>2, <1>3, <2>2, <2>4 DEF DefinedOf
  <2> QED BY <2>1, <2>3, <2>4
<1>4. Accessors(c)' \subseteq defined' /\ Globals(c)' \subseteq common'
  BY <1>1, <1>2, MembersStable DEF DefinedOf
<1> QED BY <1>1, <1>3, <1>4 DEF DefinedOf

\* The instantiator is last, when every body was emitted.
LEMMA DefinedFinish ==
    ASSUME FilesOK, PoolInv, FieldInv, LinkStep, DefinedInv,
           FinishWithInstantiator, NEW c \in ClassName, c = Top
    PROVE  DefinedOf(c)'
<1>1. /\ files' = files /\ phase[c] = "bodies" /\ phase'[c] = "complete"
      /\ \A i \in DOMAIN files[c].methods : i < next
      /\ defined \subseteq defined' /\ common' = common
      /\ Instantiator(c) \in defined'
  <2>1. TypeInv /\ calls # <<>>
    BY DEF PoolInv, FinishWithInstantiator, FinishDefinition, At
  <2> QED BY <2>1, LinkedKept, TopFacts
          DEF FinishWithInstantiator, FinishDefinition, At, TopMethods,
              TypeInv, TypeOK
<1>2. Linked(c) /\ Declared(c) /\ DefinedOf(c)
  BY <1>1 DEF Linked, Declared, DefinedInv
<1>3. Accessors(c)' \subseteq defined' /\ Globals(c)' \subseteq common'
  BY <1>1, <1>2, MembersStable DEF DefinedOf
<1>4. ASSUME NEW i \in DOMAIN files[c].methods, ~files[c].methods[i].native
      PROVE  /\ Body(c, files[c].methods[i].key) \in defined'
             /\ IsVirtual(c, files[c].methods[i])' =>
                   Thunk(c, files[c].methods[i].key) \in defined'
  BY <1>1, <1>2, <1>4, MembersStable DEF DefinedOf
<1> QED BY <1>1, <1>3, <1>4 DEF DefinedOf

LEMMA DefinedStep ==
    ASSUME FilesOK, PoolInv, FieldInv, DefinedInv, LinkStep
    PROVE  DefinedInv'
<1>0. phase \in [ClassName -> Phases]
  BY DEF PoolInv, TypeInv, TypeOK
<1>1. defined \subseteq defined' /\ common \subseteq common'
  BY DEF LinkStep, PoolOnly, linkVars, Link, EmitVTableAndFields, EmitBody,
         FinishWithInstantiator, InvokeThunk, InvokeFinal, InvokeNonVirtual,
         New, AccessGlobal, GetField, PutField, AssertionFails, Advance
<1>2. ASSUME NEW c \in ClassName,
             Declared(c)' => Declared(c),
             phase'[c] = "complete" => phase[c] = "complete",
             phase[c] = "bodies" => next' = next
      PROVE  DefinedOf(c)'
  BY <1>1, <1>2, DefinedCarry DEF DefinedInv
<1>3. CASE UNCHANGED <<phase, next>>
  BY <1>2, <1>3 DEF DefinedInv, Declared
<1>4. CASE RequestCreates
  BY <1>0, <1>2, <1>4 DEF RequestCreates, DefinedInv, Declared
<1>5. CASE SuperInPool
  BY <1>0, <1>2, <1>5 DEF SuperInPool, DefinedInv, Declared
<1>6. CASE SuperCreated
  BY <1>0, <1>2, <1>6 DEF SuperCreated, DefinedInv, Declared
<1>7. CASE Link
  <2>1. /\ phase' = [phase EXCEPT ![Top] = "methods"]
        /\ phase[Top] \in {"super", "link"}
    BY <1>7 DEF Link, LinkBase, LinkSuper, At
  <2>2. \A c \in ClassName : phase[c] # "bodies"
    BY <2>1, OnlyTopEmits
  <2> QED BY <1>0, <1>2, <2>1, <2>2 DEF DefinedInv, Declared
<1>8. CASE DeclareNonVirtual \/ DeclareOverride \/ DeclareNewSlot
  <2>1. phase' = phase /\ phase[Top] = "methods"
    BY <1>8 DEF DeclareNonVirtual, DeclareOverride, DeclareNewSlot, AtMethod, At
  <2>2. \A c \in ClassName : phase[c] # "bodies"
    BY <2>1, OnlyTopEmits
  <2> QED BY <1>2, <2>1, <2>2 DEF DefinedInv, Declared
<1>9. CASE (EmitNative /\ UNCHANGED linkVars) \/ EmitBody
  <2>1. phase' = phase
    BY <1>9 DEF EmitNative, EmitBody, EmitDirectMethod, EmitVirtualMethod
  <2>2. \A c \in ClassName : c = Top => DefinedOf(c)'
    BY <1>9, DefinedBody
  <2>3. \A c \in ClassName : c # Top => DefinedOf(c)'
    BY <1>2, <2>1, OnlyTopEmits DEF Declared
  <2> QED BY <2>2, <2>3 DEF DefinedInv
<1>10. CASE EmitVTableAndFields
  <2>1. phase' = [phase EXCEPT ![Top] = "bodies"]
    BY <1>10 DEF EmitVTableAndFields, EmitVTable
  <2>2. \A c \in ClassName : c = Top => DefinedOf(c)'
    BY <1>10, DefinedFields
  <2>3. \A c \in ClassName : c # Top => DefinedOf(c)'
    BY <1>0, <1>2, <2>1, OnlyTopEmits DEF Declared
  <2> QED BY <2>2, <2>3 DEF DefinedInv
<1>11. CASE FinishWithInstantiator
  <2>1. phase' = [phase EXCEPT ![Top] = "complete"] /\ next' = next
    BY <1>11 DEF FinishWithInstantiator, FinishDefinition
  <2>2. \A c \in ClassName : c = Top => DefinedOf(c)'
    BY <1>11, DefinedFinish
  <2>3. \A c \in ClassName : c # Top => DefinedOf(c)'
    BY <1>0, <1>2, <2>1 DEF Declared
  <2> QED BY <2>2, <2>3 DEF DefinedInv
<1> QED BY <1>3, <1>4, <1>5, <1>6, <1>7, <1>8, <1>9, <1>10, <1>11
        DEF LinkStep, PoolOnly, InvokeThunk, InvokeFinal, InvokeNonVirtual,
            New, AccessGlobal, GetField, PutField, AssertionFails, Advance,
            RequestAnswered, SuperMissing, SuperUnfinished, EmitAbstract,
            Finish, vars

-----------------------------------------------------------------------------
(* Direct calls                                                            *)

\* A class is linked to what it extends by the class files.
LineageInv ==
    \A c \in ClassName : Linked(c) => ancestors[c] \subseteq Lineage(files, c)

\* A method that cannot be overridden is what the tables of all classes below
\* its class have under its key, if they have it at all; constructors are in no
\* table.
FinalInv ==
    \A d \in DOMAIN table : \A i \in DOMAIN table[d] :
        /\ table[d][i].key # NoArgCtor
        /\ \A c \in ancestors[d] : \A m \in MethodsOf(c) :
              /\ ~m.static /\ ~CanBeOverridden(c, m)
              /\ table[d][i].key = m.key
              => table[d][i].class = c

\* A direct call names a constructor or a method known to be final.
DirectInv ==
    \A x \in direct :
        \/ x[2] = NoArgCtor
        \/ \E m \in MethodsOf(x[1]) : /\ m.key = x[2] /\ ~m.static
                                      /\ ~CanBeOverridden(x[1], m)

DispatchedInv == LineageInv /\ FinalInv

LEMMA LineageFacts ==
    ASSUME FilesOK, NEW c \in DOMAIN files
    PROVE  /\ c \in Lineage(files, c)
           /\ \A s \in DOMAIN files : files[c].super = s =>
                 Lineage(files, s) \subseteq Lineage(files, c)
           /\ \A d \in Lineage(files, c) \ {c} :
                 /\ ~files[d].final
                 /\ \A m \in MethodsOf(d) : m.final =>
                       \A n \in MethodsOf(c) : n.key # m.key
<1>1. c \in Lineage(files, c)
  BY DEF Lineage
<1>2. ASSUME NEW s \in DOMAIN files, files[c].super = s,
             NEW d \in Lineage(files, s)
      PROVE  d \in Lineage(files, c)
  BY <1>2 DEF Lineage
<1>3. \A d \in Lineage(files, c) \ {c} :
         /\ ~files[d].final
         /\ \A m \in MethodsOf(d) : m.final =>
               \A n \in MethodsOf(c) : n.key # m.key
  BY FinalAssumption DEF FilesOK, MethodsOf
<1> QED BY <1>1, <1>2, <1>3

\* Only the link to the super class changes what a class is linked to.
LEMMA AncestorsKept ==
    ASSUME LinkStep, ~Link
    PROVE  ancestors' = ancestors
  BY DEF LinkStep, PoolOnly, EmitVTableAndFields, EmitBody,
         FinishWithInstantiator, InvokeThunk, InvokeFinal, InvokeNonVirtual,
         New, AccessGlobal, GetField, PutField, AssertionFails, Advance, vars,
         RequestAnswered, RequestCreates, SuperInPool, SuperCreated,
         SuperMissing, SuperUnfinished, DeclareNonVirtual, DeclareOverride,
         DeclareNewSlot, EmitVTable, EmitNative, EmitAbstract, Finish,
         EmitDirectMethod, EmitVirtualMethod, FinishDefinition

LEMMA LineageStep ==
    ASSUME FilesOK, PoolInv, LineageInv, LinkStep
    PROVE  LineageInv'
<1>1. /\ files' = files /\ TypeInv
      /\ \A c \in ClassName : Link \/ (Linked(c)' => Linked(c))
  BY LinkedKept DEF PoolInv
<1>2. CASE ~Link
  BY <1>1, <1>2, AncestorsKept DEF LineageInv
<1>3. CASE Link
  <2>1. /\ Top \in ClassName /\ Top \in DOMAIN files
        /\ phase' = [phase EXCEPT ![Top] = "methods"]
        /\ phase \in [ClassName -> Phases]
    BY <1>1, <1>3, TopFacts DEF Link, LinkBase, LinkSuper, At, TypeInv, TypeOK
  <2>2. PICK t \in ClassName : t = Top
    BY <2>1
  <2>3. ancestors'[t] \subseteq Lineage(files, t)
    <3>1. CASE LinkBase
      <4>1. ancestors'[t] = {t}
        BY <2>2, <3>1 DEF LinkBase, Put
      <4> QED BY <2>1, <2>2, <4>1, LineageFacts
    <3>2. CASE LinkSuper
      <4> DEFINE s == files[t].super
      <4>1. /\ s \in DOMAIN vtable /\ ancestors'[t] = ancestors[s] \cup {t}
        BY <2>2, <3>2 DEF LinkSuper, Put, TopSuper
      <4>2. s \in ClassName /\ Linked(s) /\ s \in DOMAIN files
        BY <1>1, <4>1 DEF TypeInv, TypeOK, StageHasTables, PoolKnown, Linked,
                          InPool
      <4>3. ancestors[s] \subseteq Lineage(files, s)
        BY <4>2 DEF LineageInv
      <4> QED BY <2>1, <2>2, <4>1, <4>2, <4>3, LineageFacts
    <3> QED BY <1>3, <3>1, <3>2 DEF Link
  <2>4. ASSUME NEW c \in ClassName, Linked(c)', c # t
        PROVE  ancestors'[c] \subseteq Lineage(files, c)
    <3>1. Linked(c)
      BY <2>1, <2>2, <2>4 DEF Linked
    <3>2. ancestors'[c] = ancestors[c]
      <4>1. c \in DOMAIN ancestors
        BY <1>1, <3>1 DEF TypeInv, TypeOK, StageHasTables
      <4> QED BY <1>3, <2>2, <2>4, <4>1 DEF Link, LinkBase, LinkSuper, Put
    <3> QED BY <3>1, <3>2 DEF LineageInv
  <2> QED BY <1>1, <2>3, <2>4 DEF LineageInv
<1> QED BY <1>2, <1>3

\* The slots of a coherent vtable are what it selects.
LEMMA SlotSelects ==
    ASSUME NEW vt, IsVTable(vt), Coherent(vt)
    PROVE  /\ \A i \in DOMAIN vt.entries :
                /\ vt.entries[i].key \in DOMAIN Selects(vt)
                /\ vt.entries[i].class = Selects(vt)[vt.entries[i].key]
           /\ \A k \in DOMAIN Selects(vt) :
                \E i \in DOMAIN vt.entries :
                   /\ vt.entries[i].key = k
                   /\ vt.entries[i].class = Selects(vt)[k]
<1>1. /\ vt.entries \in Seq(Slot) /\ DOMAIN vt.entries = 1..Len(vt.entries)
      /\ Len(vt.entries) \in Nat /\ DOMAIN Selects(vt) = DOMAIN vt.methods
      /\ \A k \in DOMAIN vt.methods : vt.methods[k] \in Nat
  BY DEF IsVTable, Selects
<1>2. \A i \in DOMAIN vt.entries : /\ vt.entries[i].key \in DOMAIN vt.methods
                                   /\ vt.methods[vt.entries[i].key] + 1 = i
  BY <1>1 DEF Coherent
<1>3. \A k \in DOMAIN vt.methods :
         /\ vt.methods[k] + 1 \in DOMAIN vt.entries
         /\ vt.entries[vt.methods[k] + 1].key = k
  BY <1>1 DEF Coherent
<1> QED BY <1>1, <1>2, <1>3 DEF Selects

\* The table that is emitted for a class keeps what the table of its super class
\* has of final methods, and has those of the class itself.
LEMMA FinalEmitted ==
    ASSUME FilesOK, PoolInv, DispatchInv, DispatchedInv, EmitVTable,
           NEW t, t = Top, NEW i \in DOMAIN vtable[t].entries
    PROVE  LET e == vtable[t].entries[i]
           IN /\ e.key # NoArgCtor
              /\ \A c \in ancestors[t] : \A m \in MethodsOf(c) :
                    /\ ~m.static /\ ~CanBeOverridden(c, m)
                    /\ e.key = m.key
                    => e.class = c
<1> DEFINE e == vtable[t].entries[i]
           k == e.key
           s == files[t].super
<1>1. /\ t \in ClassName /\ t \in DOMAIN files /\ phase[t] = "methods"
      /\ Linked(t) /\ SuperCompleteFirst /\ TableCurrent /\ TypeInv
      /\ IsVTable(vtable[t]) /\ Coherent(vtable[t])
      /\ next > Len(TopMethods) /\ next \in Nat
      /\ DOMAIN files[t].methods = 1..Len(TopMethods) /\ Len(TopMethods) \in Nat
  BY TopFacts DEF PoolInv, EmitVTable, At, Linked, HierarchyInv, TypeInv,
                  TypeOK, StageHasTables, VTableCoherent, TopMethods
<1>2. /\ k \in DOMAIN Selects(vtable[t]) /\ e.class = Selects(vtable[t])[k]
      /\ Selects(vtable[t]) = Selection(OwnBefore(t, next), t, Base(t))
  BY <1>1, SlotSelects DEF DispatchInv
<1>3. \A m \in MethodsOf(t) : IsVirtual(t, m) => m.key \in OwnBefore(t, next)
  <2>1. \A j \in DOMAIN files[t].methods : j < next
    BY <1>1
  <2> QED BY <2>1 DEF OwnBefore, MethodsOf
<1>4. CASE k \in OwnBefore(t, next)
  <2>1. k # NoArgCtor /\ \E n \in MethodsOf(t) : n.key = k
    BY <1>4 DEF OwnBefore, MethodsOf, IsVirtual
  <2>2. e.class = t
    BY <1>2, <1>4 DEF Selection
  <2>3. ASSUME NEW c \in ancestors[t], c # t, NEW m \in MethodsOf(c),
               ~m.static, ~CanBeOverridden(c, m), k = m.key
        PROVE  FALSE
    <3>1. c \in Lineage(files, t) \ {t}
      BY <1>1, <2>3 DEF DispatchedInv, LineageInv
    <3>2. ~files[c].final /\ ~m.final
      BY <1>1, <2>1, <2>3, <3>1, LineageFacts
    <3> QED BY <2>1, <2>3, <3>2 DEF CanBeOverridden
  <2> QED BY <2>1, <2>2, <2>3
<1>5. CASE k \notin OwnBefore(t, next)
  <2>1. /\ k \in DOMAIN Base(t) /\ e.class = Base(t)[k]
    BY <1>2, <1>5 DEF Selection
  <2>2. s # None
    BY <2>1 DEF Base
  <2>3. /\ s \in DOMAIN table /\ s \in DOMAIN vtable
        /\ table[s] = vtable[s].entries
        /\ IsVTable(vtable[s]) /\ Coherent(vtable[s])
    BY <1>1, <2>2, SuperFacts DEF TypeInv, TypeOK, StageHasTables,
                                  VTableCoherent, TableCurrent
  <2>4. PICK j \in DOMAIN table[s] : /\ table[s][j].key = k
                                     /\ table[s][j].class = e.class
    BY <2>1, <2>2, <2>3, SlotSelects DEF Base
  <2>5. k # NoArgCtor
    BY <2>3, <2>4 DEF DispatchedInv, FinalInv
  <2>6. ancestors[t] = ancestors[s] \cup {t}
    BY <1>1, <2>2 DEF SuperCompleteFirst
  <2>7. ASSUME NEW c \in ancestors[t], NEW m \in MethodsOf(c),
               ~m.static, ~CanBeOverridden(c, m), k = m.key
        PROVE  e.class = c
    <3>1. CASE c \in ancestors[s]
      BY <2>3, <2>4, <2>7, <3>1 DEF DispatchedInv, FinalInv
    <3>2. CASE c = t
      <4>1. HasMethod(vtable[s], m.key)
        BY <2>1, <2>2, <2>7 DEF Base, Selects, HasMethod
      <4>2. IsVirtual(t, m)
        BY <2>2, <2>5, <2>7, <4>1 DEF IsVirtual, InheritsSlot
      <4> QED BY <1>3, <1>5, <2>7, <3>2, <4>2
    <3> QED BY <2>6, <3>1, <3>2
  <2> QED BY <2>5, <2>7
<1> QED BY <1>4, <1>5

LEMMA FinalStep ==
    ASSUME FilesOK, PoolInv, DispatchInv, DispatchedInv, LinkStep
    PROVE  FinalInv'
<1>1. /\ files' = files /\ TypeInv
      /\ \A c : /\ MethodsOf(c)' = MethodsOf(c)
               /\ \A m : CanBeOverridden(c, m)' <=> CanBeOverridden(c, m)
  BY LinkedKept DEF PoolInv, MethodsOf, CanBeOverridden
<1>2. \A d \in DOMAIN table : ancestors'[d] = ancestors[d]
  <2>1. CASE ~Link
    BY <2>1, AncestorsKept
  <2>2. CASE Link
    <3>1. Top \notin DOMAIN table
      BY <1>1, <2>2, TopFacts
         DEF Link, LinkBase, LinkSuper, At, TypeInv, StageHasTables
    <3>2. \A d \in DOMAIN table : d \in DOMAIN ancestors
      BY <1>1 DEF TypeInv, TypeOK, StageHasTables, Linked
    <3> QED BY <2>2, <3>1, <3>2 DEF Link, LinkBase, LinkSuper, Put
  <2> QED BY <2>1, <2>2
<1>3. CASE table' = table
  BY <1>1, <1>2, <1>3 DEF DispatchedInv, FinalInv
<1>4. CASE EmitVTable
  <2>1. /\ Top \in ClassName /\ ancestors' = ancestors
        /\ table' = Put(table, Top, vtable[Top].entries)
    BY <1>1, <1>4, TopFacts DEF EmitVTable, At
  <2>2. PICK t \in ClassName : t = Top
    BY <2>1
  <2>3. SUFFICES ASSUME NEW d \in DOMAIN table', NEW i \in DOMAIN table'[d]
                 PROVE  /\ table'[d][i].key # NoArgCtor
                        /\ \A c \in ancestors[d] : \A m \in MethodsOf(c) :
                              /\ ~m.static /\ ~CanBeOverridden(c, m)
                              /\ table'[d][i].key = m.key
                              => table'[d][i].class = c
    BY <1>1, <2>1 DEF FinalInv
  <2>4. CASE d = t
    BY <1>4, <2>1, <2>2, <2>3, <2>4, FinalEmitted DEF Put
  <2>5. CASE d # t
    BY <2>1, <2>2, <2>3, <2>5 DEF Put, DispatchedInv, FinalInv
  <2> QED BY <2>4, <2>5
<1> QED BY <1>3, <1>4, LinkStepIsPoolStep, TableOnlyEmitted DEF LinkNext

LEMMA DirectStep ==
    ASSUME FilesOK, PoolInv, DirectInv, LinkStep
    PROVE  DirectInv'
<1>1. /\ files' = files /\ TypeInv
      /\ \A c : /\ MethodsOf(c)' = MethodsOf(c)
               /\ \A m : CanBeOverridden(c, m)' <=> CanBeOverridden(c, m)
  BY LinkedKept DEF PoolInv, MethodsOf, CanBeOverridden
<1>2. CASE direct' = direct
  BY <1>1, <1>2 DEF DirectInv
<1>3. CASE InvokeFinal
  <2> DEFINE c == Ref.class
             k == Ref.member
  <2>1. /\ direct' = direct \cup {<<c, k>>}
        /\ k = NoArgCtor \/ (Known(c, k) /\ ~CanBeOverridden(c, MethodNamed(c, k)))
        /\ AtInst({"invokevirtual"})
    BY <1>3 DEF InvokeFinal, RefCanBeOverridden
  <2>2. /\ c \in ClassName
        /\ c \in DOMAIN files => \A n \in MethodsOf(c) : n.key = k => ~n.static
    BY <1>1, <2>1, RefFacts
  <2>3. ASSUME k # NoArgCtor
        PROVE  \E m \in MethodsOf(c) : /\ m.key = k /\ ~m.static
                                       /\ ~CanBeOverridden(c, m)
    <3>1. MethodNamed(c, k) \in MethodsOf(c) /\ MethodNamed(c, k).key = k
      BY <2>1, <2>3 DEF Known, MethodNamed
    <3>2. c \in DOMAIN files
      BY <1>1, <2>1, <2>2, <2>3
         DEF Known, Declared, TypeInv, PoolKnown, InPool
    <3> QED BY <2>1, <2>2, <2>3, <3>1, <3>2
  <2> HIDE DEF c, k
  <2>4. ASSUME NEW x \in direct', x \notin direct
        PROVE  \/ x[2] = NoArgCtor
               \/ \E m \in MethodsOf(x[1]) : /\ m.key = x[2] /\ ~m.static
                                             /\ ~CanBeOverridden(x[1], m)
    <3>1. x[1] = c /\ x[2] = k
      BY <2>1, <2>4
    <3> QED BY <2>3, <3>1
  <2> QED BY <1>1, <2>4 DEF DirectInv
<1> QED BY <1>2, <1>3
        DEF LinkStep, PoolOnly, linkVars, Link, EmitVTableAndFields, EmitBody,
            FinishWithInstantiator, InvokeThunk, InvokeNonVirtual, New,
            AccessGlobal, GetField, PutField, AssertionFails, Advance

CallInv == DispatchedInv /\ DirectInv

LEMMA CallInvInit == LinkInit => CallInv
  BY DEF LinkInit, Init, CallInv, DispatchedInv, LineageInv, FinalInv,
         DirectInv, Linked

LEMMA CallInvStep ==
    FilesOK /\ PoolInv /\ DispatchInv /\ CallInv /\ [LinkNext]_allVars => CallInv'
<1> SUFFICES ASSUME FilesOK, PoolInv, DispatchInv, CallInv, [LinkNext]_allVars
             PROVE  CallInv'
  OBVIOUS
<1>1. CASE LinkStep
  BY <1>1, LineageStep, FinalStep, DirectStep DEF CallInv, DispatchedInv
<1>2. CASE UNCHANGED allVars
  <2>1. /\ files' = files /\ phase' = phase /\ ancestors' = ancestors
        /\ table' = table /\ direct' = direct
    BY <1>2 DEF allVars, vars, linkVars
  <2>2. LineageInv'
    BY <2>1 DEF CallInv, DispatchedInv, LineageInv, Linked
  <2>3. FinalInv' /\ DirectInv'
    BY <2>1 DEF CallInv, DispatchedInv, FinalInv, DirectInv, MethodsOf,
                CanBeOverridden
  <2> QED BY <2>2, <2>3 DEF CallInv, DispatchedInv
<1> QED BY <1>1, <1>2 DEF LinkNext

-----------------------------------------------------------------------------
(* Theorems                                                                *)

LEMMA LinkInvInit == LinkInit => LinkInv
  BY DEF LinkInit, Init, LinkInv, FieldInv, FieldSlots, KindsRight, KindsBefore,
         UsesTyped, DefinedInv, DefinedOf, Declared, Linked

LEMMA LinkInvStep ==
    FilesOK /\ PoolInv /\ LinkInv /\ [LinkNext]_allVars => LinkInv'
<1> SUFFICES ASSUME FilesOK, PoolInv, LinkInv, [LinkNext]_allVars
             PROVE  LinkInv'
  OBVIOUS
<1>1. CASE LinkStep
  BY <1>1, FieldStep, UsesStep, DefinedStep DEF LinkInv
<1>2. CASE UNCHANGED allVars
  <2>1. /\ files' = files /\ phase' = phase /\ next' = next
        /\ vtable' = vtable /\ aborted' = aborted /\ slots' = slots
        /\ fieldKind' = fieldKind /\ uses' = uses
        /\ defined' = defined /\ common' = common
    BY <1>2 DEF allVars, vars, linkVars
  <2>2. FieldInv'
    BY <2>1 DEF LinkInv, FieldInv, FieldSlots, KindsRight, KindsBefore,
                FieldsOf, Linked
  <2>3. UsesTyped'
    BY <2>1 DEF LinkInv, UsesTyped, UseTyped
  <2>4. \A c \in ClassName :
           /\ Accessors(c)' = Accessors(c) /\ Globals(c)' = Globals(c)
           /\ Declared(c)' <=> Declared(c)
           /\ \A i : IsVirtual(c, files[c].methods[i])' <=>
                        IsVirtual(c, files[c].methods[i])
    BY <2>1 DEF Accessors, Globals, FieldsOf, Declared, IsVirtual,
                CanBeOverridden, InheritsSlot, HasMethod
  <2>5. ASSUME NEW c \in ClassName, DefinedOf(c)
        PROVE  DefinedOf(c)'
    BY <2>1, <2>4, <2>5 DEF DefinedOf
  <2>6. DefinedInv'
    BY <2>5 DEF LinkInv, DefinedInv
  <2> QED BY <2>2, <2>3, <2>6 DEF LinkInv
<1> QED BY <1>1, <1>2 DEF LinkNext

THEOREM LinkCorrect == LinkSpec => [](FilesOK /\ PoolInv /\ LinkInv)
<1>1. LinkSpec => LinkInit /\ [][LinkNext]_allVars
  BY DEF LinkSpec
<1> QED BY <1>1, FilesAlways, PoolAlways, LinkInvInit, LinkInvStep, PTL

\* The struct of a class has a place for each of its instance fields and for no
\* static one, whoever names the fields first and in whatever order the classes
\* are compiled.
THEOREM FieldSlotsAlways == LinkSpec => []FieldSlots
<1>1. LinkInv => FieldSlots
  BY DEF LinkInv, FieldInv
<1> QED BY <1>1, LinkCorrect, PTL

\* An invokevirtual that was compiled to a direct call runs what dispatch would
\* have run, in every class that is defined below, before the call or after it.
THEOREM DirectCallsAlwaysSafe == LinkSpec => []DirectCallsSafe
<1>1. LinkSpec => []DispatchInv
  BY LinkageImplementsPool, DispatchAlways, PTL
<1>2. LinkSpec => []CallInv
  BY <1>1, FilesAlways, PoolAlways, CallInvInit, CallInvStep, PTL DEF LinkSpec
<1>3. CallInv => DirectCallsSafe
  BY DEF CallInv, DispatchedInv, FinalInv, DirectInv, DirectCallsSafe
<1> QED BY <1>2, <1>3, PTL

\* A complete class has defined each function that bodies refer to, were they
\* compiled before, during or after its definition, and that is the body of a
\* method it declares with bytecode, the thunk of a virtual one of these, an
\* accessor of a field it declares or its instantiator.
THEOREM UsesAlwaysDefined == LinkSpec => []UsesDefined
<1>1. ASSUME FilesOK, PoolInv, LinkInv, NEW u \in uses,
             phase[u.class] = "complete"
      PROVE  LET c == u.class
                 k == u.member
             IN /\ u.kind = "method" /\ HasBody(c, k) => u \in defined
                /\ u.kind = "thunk" /\ HasBody(c, k)
                     /\ IsVirtual(c, MethodNamed(c, k)) => u \in defined
                /\ u.kind \in {"getter", "setter"}
                     /\ (\E f \in FieldsOf(c) : f.name = k) => u \in defined
                /\ u.kind = "instantiator" => u \in defined
  <2> DEFINE c == u.class
             k == u.member
  <2>1. /\ UseTyped(u) /\ c \in ClassName /\ Linked(c) /\ Declared(c)
        /\ DefinedOf(c) /\ c \in DOMAIN files
    BY <1>1 DEF LinkInv, UsesTyped, UseTyped, DefinedInv, Linked, Declared,
                PoolInv, TypeInv, PoolKnown, InPool
  <2>2. Accessors(c) \subseteq defined /\ Instantiator(c) \in defined
    BY <1>1, <2>1 DEF DefinedOf
  <2>3. \A m \in MethodsOf(c) : ~m.native =>
           /\ Body(c, m.key) \in defined
           /\ IsVirtual(c, m) => Thunk(c, m.key) \in defined
    BY <1>1, <2>1 DEF DefinedOf, MethodsOf
  <2>4. ASSUME u.kind = "method", HasBody(c, k)
        PROVE  u \in defined
    BY <2>1, <2>3, <2>4 DEF HasBody, Body, UseTyped
  <2>5. ASSUME u.kind = "thunk", HasBody(c, k), IsVirtual(c, MethodNamed(c, k))
        PROVE  u \in defined
    <3>1. PICK m \in MethodsOf(c) : m.key = k /\ ~m.native
      BY <2>5 DEF HasBody
    <3>2. MethodNamed(c, k) = m
      BY <1>1, <2>1, <3>1, MemberFacts DEF MethodNamed
    <3>3. u = Thunk(c, k)
      BY <2>1, <2>5 DEF Thunk, UseTyped
    <3> QED BY <2>3, <2>5, <3>1, <3>2, <3>3
  <2>6. ASSUME u.kind \in {"getter", "setter"},
               NEW f \in FieldsOf(c), f.name = k
        PROVE  u \in defined
    <3>1. fieldKind[<<c, f.name>>] = "instance"
      BY <2>1, <2>6 DEF UseTyped
    <3>2. Getter(c, f.name) \in Accessors(c) /\ Setter(c, f.name) \in Accessors(c)
      BY <3>1 DEF Accessors
    <3>3. u = Getter(c, f.name) \/ u = Setter(c, f.name)
      BY <2>1, <2>6 DEF Getter, Setter, UseTyped
    <3> QED BY <2>2, <3>2, <3>3
  <2>7. u.kind = "instantiator" => u \in defined
    BY <2>1, <2>2 DEF Instantiator, UseTyped
  <2> QED BY <2>4, <2>5, <2>6, <2>7
<1>2. FilesOK /\ PoolInv /\ LinkInv => UsesDefined
  BY <1>1 DEF UsesDefined
<1> QED BY <1>2, LinkCorrect, PTL

\* The global of a static field that a complete class declares has common
\* linkage, whether the class or an earlier reference created it.
THEOREM GlobalsAlwaysLinked == LinkSpec => []GlobalsHaveLinkage
<1>1. ASSUME FilesOK, PoolInv, LinkInv, NEW u \in uses, u.kind = "global",
             phase[u.class] = "complete",
             NEW f \in FieldsOf(u.class), f.name = u.member, f.static
      PROVE  u \in common
  <2> DEFINE c == u.class
  <2>1. /\ UseTyped(u) /\ c \in ClassName /\ Linked(c) /\ Declared(c)
        /\ DefinedOf(c) /\ c \in DOMAIN files
    BY <1>1 DEF LinkInv, UsesTyped, UseTyped, DefinedInv, Linked, Declared,
                PoolInv, TypeInv, PoolKnown, InPool
  <2>2. Globals(c) \subseteq common
    BY <1>1, <2>1 DEF DefinedOf
  <2>3. fieldKind[<<c, f.name>>] = "static"
    BY <1>1, <2>1 DEF LinkInv, FieldInv, KindsRight, DeclaredKind
  <2>4. Global(c, f.name) \in Globals(c)
    BY <1>1, <2>3 DEF Globals
  <2>5. u = Global(c, f.name)
    BY <1>1, <2>1 DEF Global, UseTyped
  <2> QED BY <2>2, <2>4, <2>5
<1>2. FilesOK /\ PoolInv /\ LinkInv => GlobalsHaveLinkage
  BY <1>1 DEF GlobalsHaveLinkage
<1> QED BY <1>2, LinkCorrect, PTL
=============================================================================
