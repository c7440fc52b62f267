----------------------------- MODULE MCClassFiles -----------------------------
(* From the class path to the types of members: one thread that parses the   *)
(* descriptor of a member and then looks classes up.  The two share nothing, *)
(* so either has all of its cases with a simple instance of the other.       *)
EXTENDS ClassPath, Descriptors, TLC

CONSTANTS main, object, short, long, missing, damaged

-----------------------------------------------------------------------------
(* One to three paths, jars and directories in any order, two names and two  *)
(* class files of different lengths; an entry of a jar may be damaged.       *)

MCSizeOf == short :> 1 @@ long :> 2 @@ damaged :> 1

LOCAL Files(held) == [{main, object} -> held]
LOCAL Kinds ==
    [kind : {"jar"}, files : Files({short, long, missing, damaged})]
    \cup [kind : {"directory"}, files : Files({short, missing})]

MCLayouts == {<<>>} \cup {<<p>> : p \in Kinds} \cup (Kinds \X Kinds)
             \cup {<<p, q, p>> : p \in Kinds, q \in Kinds}

-----------------------------------------------------------------------------
(* Fields of every type, and methods with up to two parameters, of letters,  *)
(* classes and arrays of both.  The names of classes have the letters that   *)
(* mean something elsewhere in a descriptor.                                 *)

Names == {<<"I">>, <<"p", "/", "L">>, <<"a", ")", "b">>}

LOCAL Types(bases) == [dimensions : 0..2, base : bases]

LOCAL Methods(bases) ==
    LET types == Types(bases \ {<<"V">>})
        results == types \cup {[dimensions |-> 0, base |-> <<"V">>]}
    IN [kind : {"static", "instance"},
        params : {<<>>} \cup {<<t>> : t \in types}
                 \cup {<<t, u>> : t \in types, u \in types},
        result : results]

LOCAL Fields == [kind : {"field"}, params : {<<>>},
                 result : Types(Bases \ {<<"V">>})]

MCDescriptors ==
    Methods({<<"J">>, <<"B">>, <<"L", "I", ";">>, <<"L", "p", "/", "L", ";">>})
    \cup Methods({<<"I">>, <<"L", "a", ")", "b", ";">>})
    \cup Fields

Simple == [kind |-> "field", params |-> <<>>,
           result |-> [dimensions |-> 0, base |-> <<"I">>]]

-----------------------------------------------------------------------------
MCInit ==
    /\ Init
    /\ ParseInit
    /\ paths = <<>> \/ descriptor = Simple

MCNext ==
    \/ Parse /\ UNCHANGED vars
    \/ Ended /\ (Search \/ \E n \in Name : Find(n)) /\ UNCHANGED parseVars

MCSpec ==
    /\ MCInit
    /\ [][MCNext]_<<vars, parseVars>>
    /\ WF_<<vars, parseVars>>(Parse /\ UNCHANGED vars)
=============================================================================
