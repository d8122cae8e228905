-------------------------- MODULE MCConfiguration --------------------------
(* The documents that TLC submits to Configuration: overrides at one place *)
(* of the schema, or at two.                                               *)
EXTENDS Configuration

CONSTANT Together      \* keys whose overrides are also submitted two at a time

Last(p) == p[Len(p)]

\* The document with this value at this place.
Nest(p, value) == [q \in Above(p) \cup {p} |-> IF q = p THEN value ELSE Section]

Word == [t |-> "other", n |-> 0]

\* At the bounds, beside them, with a fraction that is zero or not, and no number.
Samples(f) ==
    LET ns == {f.default.n, f.lo, f.hi, f.lo - f.step, f.hi + f.step, f.lo + f.step \div 2}
    IN  {[t |-> t, n |-> n] : t \in {"int", "float"}, n \in {m \in ns : m % Unit = 0}}
        \cup {[t |-> "float", n |-> n] : n \in ns} \cup {Word, Section}

Overrides ==
    UNION {{<<p, v>> : v \in Samples(Schema[p])} : p \in Fields}
    \cup {<<p, v>> : p \in Sections, v \in {Word, Section}}
    \cup {<<p \o <<"unknown">>, Word>> : p \in {<<>>, <<"epochs">>, <<"game", "rewards">>}}

Submissions ==
    LET close == {o \in Overrides : o[1] # <<>> /\ Last(o[1]) \in Together}
        doc(o) == Nest(o[1], o[2])
    IN  {doc(o) : o \in Overrides} \cup {Merge(doc(a), doc(b)) : a \in close, b \in close}
============================================================================
