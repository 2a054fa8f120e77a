------------------------------ MODULE MCProgram ------------------------------
(* Instances of Program for TLC.                                           *)
EXTENDS Program

CONSTANTS k1, k2, a, b, bad, w1, w2, lan1, lan2, public, h1, h2

Array(items) == [array |-> TRUE, items |-> items]

SomeParts == {Array(<<>>), Array(<<a>>), Array(<<b, a>>), Array(<<a, bad>>),
              [array |-> FALSE, items |-> <<>>]}
UpTo3     == UNION {[1..n -> SomeParts] : n \in 0..3}

Model(parts) ==
  [object |-> TRUE, name |-> TRUE, version |-> TRUE, list |-> TRUE, parts |-> parts]

GoodValues == {Model(parts) : parts \in UpTo3}
BadValues  == {[Model(<<>>) EXCEPT !.object = FALSE], [Model(<<>>) EXCEPT !.name = FALSE],
               [Model(<<>>) EXCEPT !.version = FALSE], [Model(<<>>) EXCEPT !.list = FALSE]}
FewValues  == {Model(<<Array(<<a>>), Array(<<b>>)>>), Model(<<Array(<<b>>), Array(<<>>)>>),
               [Model(<<>>) EXCEPT !.list = FALSE]}

Object(members) == [form |-> "object", members |-> members]
Member(k, v)    == [key |-> k, value |-> v]

MCFiles ==
  {[form |-> f, members |-> <<>>] : f \in {"unreadable", "broken", "scalar", "object"}}
  \cup {Object(<<Member(k1, v)>>) : v \in GoodValues \cup BadValues}
  \cup {Object(<<Member(k, v), Member(l, w)>>) :
          k \in {k1, NoKey}, l \in {k1, k2, NoKey}, v \in FewValues, w \in FewValues}

\* Interfaces, in the order of the kernel, and what is behind them in the buffer.
MCMachines ==
  {Append(ifs, behind) :
     ifs \in {<<Loopback, lan1>>, <<Loopback, public, lan1>>, <<lan1>>, <<lan1, Loopback>>},
     behind \in {Loopback, lan2, public}}

=============================================================================
