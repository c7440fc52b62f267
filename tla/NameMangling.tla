---------------------------- MODULE NameMangling ----------------------------
(***************************************************************************)
(* Symbols: how a name mangler names a member, and what the modules of     *)
(* LLVM make of the names.  Each compilation unit declares a function or a *)
(* global the first time it refers to a member; the units are linked by    *)
(* name, so they must agree on one name for each member.  There are two    *)
(* manglers, and the context is given one of them before anything else.    *)
(*                                                                         *)
(* A name is a sequence of the characters of the compiler, each of them    *)
(* one byte.  No prefix of a kind of member begins with that of another    *)
(* kind, so a prefix is taken as one character.  A vtable is private to    *)
(* its unit and is left out.                                               *)
(***************************************************************************)
EXTENDS Naturals, Sequences, FiniteSets, SequencesExt

CONSTANTS
    Unit,       \* compilation units
    NameChar,   \* the characters of class files' strings
    Hex,        \* character -> its code in four digits, as fmt prints it
    Programs    \* mangler -> sets of members, what a program may refer to

Kinds == {"method", "thunk", "global", "getter", "setter", "instantiator"}

\* A member, by the strings of the class file that are in its symbol.
IsMember(x) ==
    /\ x = [kind |-> x.kind, class |-> x.class,
            name |-> x.name, descriptor |-> x.descriptor]
    /\ x.kind \in Kinds
    /\ \A s \in {x.class, x.name, x.descriptor} : s \in Seq(NameChar)

ASSUME ManglerAssumption ==
    /\ DOMAIN Programs \subseteq {"jni", "simple"}
    /\ \A m \in DOMAIN Programs :
          \A ms \in Programs[m] : \A x \in ms : IsMember(x)

VARIABLES
    mangler,    \* Context::name_mangler_
    members,    \* what this program refers to
    table       \* unit -> member -> its symbol in the module of the unit

vars == <<mangler, members, table>>

Put(f, k, v) == [x \in DOMAIN f \cup {k} |-> IF x = k THEN v ELSE f[x]]

-----------------------------------------------------------------------------
(* SimpleNameMangler                                                       *)

SimplePrefix ==
    [method |-> <<>>, global |-> <<>>, thunk |-> <<"virtual@@">>,
     getter |-> <<"get@@">>, setter |-> <<"set@@">>,
     instantiator |-> <<"new@@">>]

\* Mutant of MangleReference: the descriptor is left out.
MangleUntyped(x) == x.class \o <<"#">> \o x.name

\* The result of a method is part of its name, as all of its descriptor is.
MangleReference(x) == x.class \o <<"#">> \o x.name \o x.descriptor

SimpleName(x) ==
    SimplePrefix[x.kind] \o
       (IF x.kind = "instantiator" THEN x.class ELSE MangleReference(x))

-----------------------------------------------------------------------------
(* JNINameMangler                                                          *)

Prefix == [method |-> "Java_",         thunk |-> "Magnetic_v_",
           global |-> "Magnetic_sf_",  getter |-> "Magnetic_ifg_",
           setter |-> "Magnetic_ifs_", instantiator |-> "Magnetic_new_"]

Digits == {"0", "1", "2", "3", "4", "5", "6", "7", "8", "9"}

\* isalnum: no byte outside of ASCII is.
Alphanumeric == Digits \cup
    {"A", "B", "C", "D", "E", "F", "G", "H", "I", "J", "K", "L", "M",
     "N", "O", "P", "Q", "R", "S", "T", "U", "V", "W", "X", "Y", "Z",
     "a", "b", "c", "d", "e", "f", "g", "h", "i", "j", "k", "l", "m",
     "n", "o", "p", "q", "r", "s", "t", "u", "v", "w", "x", "y", "z"}

IsValidCIdentifier(c) == c \in Alphanumeric \/ c = "_"

HexDigit == Digits \cup {"a", "b", "c", "d", "e", "f"}

\* No two characters have one code.
ASSUME HexAssumption ==
    /\ \A c \in NameChar : ~IsValidCIdentifier(c) => Hex[c] \in [1..4 -> HexDigit]
    /\ \A c, d \in NameChar :
          ~IsValidCIdentifier(c) /\ ~IsValidCIdentifier(d) /\ Hex[c] = Hex[d]
             => c = d

\* Mutant of Escape: the bracket of an array is left as it is.
EscapeButArrays(c) ==
    CASE IsValidCIdentifier(c) \/ c = "[" -> <<c>>
      [] c = "/" -> <<"_">>
      [] c = ";" -> <<"_", "2">>
      [] OTHER -> <<"_", "0">> \o Hex[c]

\* An underscore is valid, so the case that would escape it is never reached.
Escape(c) ==
    CASE IsValidCIdentifier(c) -> <<c>>
      [] c = "/" -> <<"_">>
      [] c = ";" -> <<"_", "2">>
      [] c = "[" -> <<"_", "3">>
      [] OTHER -> <<"_", "0">> \o Hex[c]

MangleUnicodeCharacters(s) == FlattenSeq([i \in DOMAIN s |-> Escape(s[i])])

Slashes(s) == [i \in DOMAIN s |-> IF s[i] = "." THEN "/" ELSE s[i]]

MangleClass(c) == MangleUnicodeCharacters(Slashes(c))

\* Mutant of Params: overloaded methods are not told apart.
NoParams(d) == <<>>

\* What stands between the parentheses of a method descriptor: the type of the
\* result is dropped.
Params(d) == SubSeq(d, 2, SelectLastInSeq(d, LAMBDA c : c = ")") - 1)

\* A field is mangled with all of its descriptor, a method with its parameters.
Signature(x) ==
    IF x.kind \in {"method", "thunk"} THEN Params(x.descriptor)
                                      ELSE x.descriptor

JniName(x) ==
    <<Prefix[x.kind]>> \o MangleClass(x.class) \o
       (IF x.kind = "instantiator" THEN <<>>
        ELSE <<"_">> \o MangleUnicodeCharacters(x.name) \o <<"_", "_">>
             \o MangleUnicodeCharacters(Signature(x)))

Mangled(x) == IF mangler = "jni" THEN JniName(x) ELSE SimpleName(x)

-----------------------------------------------------------------------------
(* The modules                                                             *)

\* LLVM renames what it is given under a name that is taken.  A symbol is the
\* name asked for and how many of that name there were before.
NewSymbol(u, name) ==
    [name |-> name,
     copy |-> Cardinality({x \in DOMAIN table[u] : table[u][x].name = name})]

Init ==
    /\ mangler \in DOMAIN Programs
    /\ members \in Programs[mangler]
    /\ table = [u \in Unit |-> [x \in {} |-> <<>>]]

\* The first reference in a unit declares the member under its mangled name;
\* the next ones find it in the map of its declaration.
Refer(u, x) ==
    /\ x \notin DOMAIN table[u]
    /\ table' = [table EXCEPT ![u] = Put(@, x, NewSymbol(u, Mangled(x)))]
    /\ UNCHANGED <<mangler, members>>

\* Every unit has referred to everything.
Done == (\A u \in Unit : DOMAIN table[u] = members) /\ UNCHANGED vars

Next == (\E u \in Unit, x \in members : Refer(u, x)) \/ Done

Spec == Init /\ [][Next]_vars

-----------------------------------------------------------------------------
(* Properties                                                              *)

\* The units link as the program means: whichever member a unit names first,
\* it has the symbol that every other unit gives it, and no other member has.
UnitsAgree ==
    \A u, v \in Unit : \A x \in DOMAIN table[u], y \in DOMAIN table[v] :
        x = y <=> table[u][x] = table[v][y]

\* mangle.cc: the names of JNI are valid C identifiers.  Behind its prefix, a
\* name has only what isalnum answers for, and underscores.
NamesAreIdentifiers ==
    mangler = "jni" => \A u \in Unit : \A x \in DOMAIN table[u] :
        LET name == table[u][x].name
        IN \A i \in 2..Len(name) : IsValidCIdentifier(name[i])

\* What JNI prescribes for the characters of a name.
JniEscape(c) == IF c = "_" THEN <<"_", "1">> ELSE Escape(c)
JniEscapes(s) == FlattenSeq([i \in DOMAIN s |-> JniEscape(s[i])])

\* mangle.cc: the mangling of methods is that of JNI.
MethodsMangledAsJni ==
    \A u \in Unit : \A x \in DOMAIN table[u] :
        x.kind = "method" =>
            table[u][x].name =
                <<"Java_">> \o JniEscapes(Slashes(x.class)) \o <<"_">>
                \o JniEscapes(x.name) \o <<"_", "_">>
                \o JniEscapes(Params(x.descriptor))
=============================================================================
