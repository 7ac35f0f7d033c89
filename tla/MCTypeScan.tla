----------------------------- MODULE MCTypeScan -----------------------------
(* TypeScan on all tables of a base type, a pointer type and Composed      *)
(* composed types: structures and unions of one or two members, arrays of  *)
(* one or two elements, of types earlier in the table.                     *)
EXTENDS TypeScan

CONSTANT Composed

MCType == 1 .. Composed + 2

Leaf(kind) == [kind |-> kind, pos_maxoff |-> 1, related |-> <<>>, length |-> 0]

Structure(a, b, size) ==
    [kind |-> "composite", pos_maxoff |-> size[a] + size[b], length |-> 0,
     related |-> <<[type |-> a, off |-> 0], [type |-> b, off |-> size[a]]>>]

Union(a, b, size) ==
    [kind |-> "composite", length |-> 0,
     pos_maxoff |-> IF size[a] > size[b] THEN size[a] ELSE size[b],
     related |-> <<[type |-> a, off |-> 0], [type |-> b, off |-> 0]>>]

Array(a, n, size) ==
    [kind |-> "array", pos_maxoff |-> n * size[a], length |-> n,
     related |-> <<[type |-> a, off |-> 0]>>]

(* The tables of n types.                                                  *)
MCTables ==
    LET Extend(S) ==
          UNION { LET size == [t \in DOMAIN T |-> T[t].pos_maxoff]
                      D == DOMAIN T
                  IN  {Append(T, Structure(a, b, size)) : a, b \in D}
                      \cup {Append(T, Union(a, b, size)) : a, b \in D}
                      \cup {Append(T, Array(a, n, size)) : a \in D, n \in 1 .. 2} :
                  T \in S }
        Tab[n \in Nat] == IF n = 0 THEN {<<Leaf("base"), Leaf("pointer")>>}
                                   ELSE Extend(Tab[n - 1])
    IN  Tab[Composed]

=============================================================================
