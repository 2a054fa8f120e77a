------------------------------ MODULE MCPostman ------------------------------
(* Instances of Postman for TLC: keys 0..7 in three ranges of two keys.    *)
EXTENDS Postman

MCNotKey == -1

Request(form, items, count) == [form |-> form, items |-> items, count |-> count]

\* Sorted, repeated and unsorted features, some or all of them above the last
\* range, some with an empty slice in the middle.
Features ==
  UNION {[1..n -> {0, 1, 2, 4, 6, 7}] : n \in 1..2}
  \cup {<<0, 2, 4>>, <<0, 1, 1, 5>>, <<3, 6>>, <<1, 4, 7>>, <<5, 0, 2>>}

GoodRequests == {Request("array", f, Len(f)) : f \in Features}

BadRequests ==
  {Request(form, <<>>, -1) :
     form \in {"absent", "broken", "scalar", "noFeatures", "notArray", "array"}}
  \cup {Request("array", <<0, MCNotKey>>, -1),
        Request("array", <<0, 2>>, 3),
        Request("array", <<0, 2>>, -2)}

AllRequests == GoodRequests \cup BadRequests \cup {Request("array", <<0, 2>>, -1)}

AllAnswers == {"whole", "short", "long", "empty", "broken", "scalar", "unknown",
               "refused", "integers", "failed"}

=============================================================================
