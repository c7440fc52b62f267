-------------------------- MODULE MCMethodExecution --------------------------
EXTENDS VerifiedCode, MCPrograms

\* The frames of a method, found along all of its paths.  Where two paths meet,
\* the locals that both know are kept.
RECURSIVE Explore(_, _, _)
Explore(m, frames, ways) ==
    IF ways = {} THEN frames
    ELSE LET w == CHOOSE w \in ways : TRUE
             a == w.to
             f == IF a \in DOMAIN frames
                  THEN [w.frame EXCEPT !.locals = @ \cap frames[a].locals]
                  ELSE w.frame
             i == m.code[a + 1]
             next == [stack |-> After(i, f.stack, i.type),
                      locals |-> LocalsAfter(i, f.locals)]
         IN IF a \in DOMAIN frames /\ f = frames[a]
            THEN Explore(m, frames, ways \ {w})
            ELSE Explore(m, Put(frames, a, f), (ways \ {w}) \cup
                            {[to |-> b, frame |-> next] : b \in Nexts(i, a)})

\* Nothing is known where no path leads.
FramesOf(m) ==
    LET entry == [stack |-> <<>>,
                  locals |-> {<<SlotOf(m.params, i), m.params[i]>> :
                                 i \in DOMAIN m.params}]
        unknown == [stack |-> <<>>, locals |-> {}]
        found == Explore(m, [a \in {} |-> entry], {[to |-> 0, frame |-> entry]})
    IN [a \in 0..(Len(m.code) - 1) |->
           IF a \in DOMAIN found THEN found[a] ELSE unknown]

MCFrames == [m \in AllMethods \cup Conditional |-> FramesOf(m)]

\* The theorems are about these methods, and not about those.
ASSUME LayoutAssumption ==
    /\ \A m \in JavaMethods \cup Refused : InStatements(m)
    /\ \A m \in Backwards \cup Conditional :
          Verified(m, Frames[m]) /\ ~InStatements(m)
=============================================================================
