--------------------------- MODULE MCNameMangling ---------------------------
(* Any two members of a universe of classes with and without packages and    *)
(* inner classes, names and descriptors, in two units.                       *)
EXTENDS NameMangling

CONSTANTS U, V

\* The characters that are escaped, and the first byte of a letter with an
\* accent: fmt is given a signed character.
MCHex ==
    ("$" :> <<"0", "0", "2", "4">>) @@ ("(" :> <<"0", "0", "2", "8">>)
    @@ (")" :> <<"0", "0", "2", "9">>) @@ ("-" :> <<"0", "0", "2", "d">>)
    @@ ("." :> <<"0", "0", "2", "e">>) @@ ("/" :> <<"0", "0", "2", "f">>)
    @@ (";" :> <<"0", "0", "3", "b">>) @@ ("<" :> <<"0", "0", "3", "c">>)
    @@ (">" :> <<"0", "0", "3", "e">>) @@ ("[" :> <<"0", "0", "5", "b">>)
    @@ ("byte c3" :> <<"f", "f", "c", "3">>)

MCNameChar == DOMAIN MCHex \cup {"A", "I", "L", "V", "i", "n", "p", "t", "_"}

LOCAL Classes == {<<"A">>, <<"p">>, <<"p", ".", "A">>, <<"p", ".", "p">>,
                  <<"A", "$", "p">>}
LOCAL Names == {<<"p">>, <<"A">>, <<"<", "i", "n", "i", "t", ">">>,
                <<"p", "$", "A">>, <<"p", "-", "byte c3">>}
LOCAL Types == {<<"I">>, <<"[", "I">>, <<"L", "A", ";">>,
                <<"L", "p", "/", "A", ";">>}

LOCAL Member(kinds, classes, names, descriptors) ==
    [kind : kinds, class : classes, name : names, descriptor : descriptors]

LOCAL Descriptors(types) == {<<"(">> \o t \o <<")", "V">> : t \in types}

LOCAL Members ==
    Member({"method", "thunk"}, Classes, Names,
           Descriptors(Types \cup {<<>>}))
    \cup Member({"global", "getter", "setter"}, Classes,
                Names \ {<<"<", "i", "n", "i", "t", ">">>}, Types)
    \cup Member({"instantiator"}, Classes, {<<>>}, {<<>>})

\* Two members of one kind, or of one class.
LOCAL Pairs == {{x, y} : <<x, y>> \in {p \in Members \X Members :
             p[1].kind = p[2].kind \/ p[1].class = p[2].class}}

\* A bridge method has the parameters of the method it calls, not its result.
LOCAL Bridges == Member({"method", "thunk"}, Classes, Names,
                        {<<"(", "I", ")">> \o t : t \in Types})

BridgePairs == {{x, y} : <<x, y>> \in {p \in (Members \cup Bridges)
                                              \X (Members \cup Bridges) :
                   \/ p[1].kind = p[2].kind /\ p[1].class = p[2].class
                   \/ p[1].name = p[2].name /\ p[1].kind # p[2].kind}}

MCPrograms == [jni |-> Pairs, simple |-> BridgePairs]

\* A method and a class whose names have an underscore.
Underscores ==
    [jni |-> {Member({"method"}, {<<"p", ".", "A">>, <<"p", "_", "A">>},
                     {<<"p">>}, Descriptors({<<>>}))}]
=============================================================================
