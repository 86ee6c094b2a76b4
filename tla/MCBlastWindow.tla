---------------------------- MODULE MCBlastWindow ----------------------------
(* Small instances of BlastWindow for TLC. *)
EXTENDS BlastWindow, TLC

CONSTANTS p1, p2

\* One window ends well before the rows are purged, the other with them.
TwoWindows == (p1 :> Retention - 1) @@ (p2 :> Retention)

Num(n) == [num |-> n]
Word(s) == [word |-> s]
Text(v) == [text |-> v]

\* ids is counted, id must not be 0, tag must be neither 0 nor "x", mode must be
\* "rw"; size, a string of a pattern, is asked for in another environment only.
FourRules ==
  {[arg |-> "id", kind |-> "not_in", vals |-> {Num(0)}, env |-> {"prod"}, optional |-> TRUE],
   [arg |-> "tag", kind |-> "not_in", vals |-> {Num(0), Word("x")}, env |-> {"prod"}, optional |-> TRUE],
   [arg |-> "mode", kind |-> "in", vals |-> {Word("rw")}, env |-> {"prod"}, optional |-> FALSE],
   [arg |-> "size", kind |-> "regex", vals |-> {Word("s")}, env |-> {"dev"}, optional |-> FALSE]}

\* Calls that pass, with two objects and with one, and values the
\* upstream reads differently.
SomeArgs ==
  {[ids |-> ids, mode |-> Word("rw")] :
     ids \in {Text([list |-> <<Null, Null>>]), [deep |-> <<Null, Null, Null>>],
              [dict |-> 3], Text([list |-> <<Null, Null, Null>>])}}
    \cup {[id |-> id, tag |-> tag, mode |-> Word("rw")] :
            id \in {[list |-> <<Num(1)>>], [list |-> <<Num(1), Num(0)>>], [bool |-> 0],
                    Text(Num(0)), Text([list |-> <<Num(0)>>])},
            tag \in {Text(Num(0)), Word("x"), [bool |-> 0]}}
    \cup {[mode |-> mode] : mode \in {Null, Text(Null), Word("ro"), [long |-> "rw"]}}
    \cup {[id |-> Num(1)]}

Symmetry == Permutations(Calls)
=============================================================================
