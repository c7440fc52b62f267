----------------------------- MODULE Descriptors -----------------------------
(***************************************************************************)
(* Descriptors of fields and methods: the parser that reads them character *)
(* by character from a stream, and the parameters that a method has when   *)
(* it is called.  What a class file means by a descriptor is a list of     *)
(* types; Spell is how the class file format writes it, and the parser     *)
(* must get back the types that LLVM is told of.                           *)
(***************************************************************************)
EXTENDS Naturals, Sequences, SequencesExt

CONSTANTS
    ClassNames,    \* names of classes, sequences of characters
    Descriptors    \* the descriptors a run may be given

\* A type of the class file: the dimensions of an array, and what it is of.
\* Every type but a class is one letter.
Semicolon == ";"
Letters == {"B", "C", "D", "F", "I", "J", "S", "Z", "V"}
Bases == {<<c>> : c \in Letters}
         \cup {<<"L">> \o n \o <<Semicolon>> : n \in ClassNames}
FieldType == [dimensions : Nat, base : Bases]

Descriptor == [kind : {"field", "static", "instance"},
               params : Seq(FieldType), result : FieldType]

ASSUME DescriptorsAssumption ==
    /\ \A n \in ClassNames : n \in Seq(Range(n)) /\ ~Contains(n, Semicolon)
    /\ Descriptors \subseteq Descriptor
    /\ \A d \in Descriptors : d.kind = "field" => d.params = <<>>

Spell(t) == [i \in 1..t.dimensions |-> "["] \o t.base
SpellAll(ts) == FlattenSeq([i \in DOMAIN ts |-> Spell(ts[i])])
SpellDescriptor(d) ==
    IF d.kind = "field" THEN Spell(d.result)
    ELSE <<"(">> \o SpellAll(d.params) \o <<")">> \o Spell(d.result)

VARIABLES
    descriptor,     \* what the class file means
    text,           \* the stream
    pos,            \* its next character
    at,             \* where the parser is
    result,         \* whether the type that is read is the result
    array,          \* whether it is the element of an array
    params,         \* the parameters read so far
    returned,       \* the type of the field, or of the method's result
    called          \* instance_params, which LLVM's function type is made of

parseVars == <<descriptor, text, pos, at, result, array, params, returned, called>>

Peek == text[pos]

ParseInit ==
    /\ descriptor \in Descriptors
    /\ text = SpellDescriptor(descriptor)
    /\ pos = 1
    /\ at = IF descriptor.kind = "field" THEN "type" ELSE "open"
    /\ result = (descriptor.kind = "field")
    /\ array = FALSE
    /\ params = <<>>
    /\ returned = "none"
    /\ called = <<>>

-----------------------------------------------------------------------------
(* ParseMethodDescriptor                                                   *)

SkipOpening ==
    /\ at = "open"
    /\ pos' = pos + 1
    /\ at' = "params"
    /\ UNCHANGED <<descriptor, text, result, array, params, returned, called>>

NextParam ==
    /\ at = "params"
    /\ Peek # ")"
    /\ at' = "type"
    /\ UNCHANGED <<descriptor, text, pos, result, array, params, returned, called>>

SkipClosing ==
    /\ at = "params"
    /\ Peek = ")"
    /\ pos' = pos + 1
    /\ at' = "type"
    /\ result' = TRUE
    /\ UNCHANGED <<descriptor, text, array, params, returned, called>>

-----------------------------------------------------------------------------
(* ParseTypeFromStream                                                     *)

\* The letters the parser knows.
TypeOfLetter == [Z |-> "int", I |-> "int", J |-> "long", F |-> "float",
                 D |-> "double", V |-> "void"]

\* "this" is a parameter of its own, the first.
Called(ps) == IF descriptor.kind = "instance" THEN <<"object">> \o ps ELSE ps

\* Mutant of Read: a type inside an array is read as if it were alone.
ReadElement(type) ==
    /\ array' = FALSE
    /\ IF result
       THEN /\ returned' = type
            /\ called' = Called(params)
            /\ at' = "done"
            /\ UNCHANGED params
       ELSE /\ params' = Append(params, type)
            /\ at' = "params"
            /\ UNCHANGED <<returned, called>>

\* A type was read, and an array of it is an object.
Read(type) ==
    LET whole == IF array THEN "object" ELSE type
    IN /\ array' = FALSE
       /\ IF result
          THEN /\ returned' = whole
               /\ called' = Called(params)
               /\ at' = "done"
               /\ UNCHANGED params
          ELSE /\ params' = Append(params, whole)
               /\ at' = "params"
               /\ UNCHANGED <<returned, called>>

ReadLetter ==
    /\ at = "type"
    /\ Peek \in DOMAIN TypeOfLetter
    /\ pos' = pos + 1
    /\ Read(TypeOfLetter[Peek])
    /\ UNCHANGED <<descriptor, text, result>>

\* Mutant of ReadArray: the bracket stays in the stream.
ReadArrayAgain ==
    /\ at = "type"
    /\ Peek = "["
    /\ array' = TRUE
    /\ UNCHANGED <<descriptor, text, pos, at, result, params, returned, called>>

\* The call of the parser for the element of an array.
ReadArray ==
    /\ at = "type"
    /\ Peek = "["
    /\ pos' = pos + 1
    /\ array' = TRUE
    /\ UNCHANGED <<descriptor, text, at, result, params, returned, called>>

ReadClass ==
    /\ at = "type"
    /\ Peek = "L"
    /\ pos' = pos + 1
    /\ at' = "class"
    /\ UNCHANGED <<descriptor, text, result, array, params, returned, called>>

\* Bytes, chars and shorts are no types of the compiler: the parser throws.
Refuse ==
    /\ at = "type"
    /\ Peek \notin DOMAIN TypeOfLetter \cup {"[", "L"}
    /\ pos' = pos + 1
    /\ at' = "threw"
    /\ UNCHANGED <<descriptor, text, result, array, params, returned, called>>

\* ParseClassNameFromStream: the name is not used.
SkipClassCharacter ==
    /\ at = "class"
    /\ Peek # Semicolon
    /\ pos' = pos + 1
    /\ UNCHANGED <<descriptor, text, at, result, array, params, returned, called>>

EndClass ==
    /\ at = "class"
    /\ Peek = Semicolon
    /\ pos' = pos + 1
    /\ Read("object")
    /\ UNCHANGED <<descriptor, text, result>>

Ended == at \in {"done", "threw"}

Parse == SkipOpening \/ NextParam \/ SkipClosing \/ ReadLetter \/ ReadArray
         \/ ReadClass \/ Refuse \/ SkipClassCharacter \/ EndClass

ParseNext == Parse \/ (Ended /\ UNCHANGED parseVars)

ParseSpec == ParseInit /\ [][ParseNext]_parseVars /\ WF_parseVars(Parse)

-----------------------------------------------------------------------------
(* Properties                                                              *)

\* The type that the compiler has for a type of the class file.
Meaning(t) ==
    IF t.dimensions > 0 \/ t.base[1] = "L" THEN "object"
    ELSE TypeOfLetter[t.base[1]]

\* A descriptor is parsed into the types that were written, with nothing left
\* over, or is refused, for a byte, a char or a short and for nothing else.
ParsedAsWritten ==
    Ended =>
        LET written == {descriptor.result} \cup
                       {descriptor.params[i] : i \in DOMAIN descriptor.params}
        IN IF \E t \in written : t.base \in {<<"B">>, <<"C">>, <<"S">>}
           THEN at = "threw"
           ELSE /\ at = "done"
                /\ pos = Len(text) + 1
                /\ returned = Meaning(descriptor.result)
                /\ params = [i \in DOMAIN descriptor.params |->
                                Meaning(descriptor.params[i])]
                /\ called = IF descriptor.kind = "instance"
                            THEN <<"object">> \o params ELSE params

\* The parser comes to an end.
ParsingEnds == <>Ended
=============================================================================
