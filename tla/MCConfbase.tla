----------------------------- MODULE MCConfbase -----------------------------
(* Answers with values of every type, at the boundaries of every length,    *)
(* for bytes of 14 values, lists of at most four and maps of at most three. *)
EXTENDS Confbase

LengthOf == [short |-> 1, eleven |-> 11, twelve |-> 12, most |-> 195, more |-> 196]
Text(n, first) == [i \in 1..n |-> IF i = 1 THEN first ELSE 7]
MCSpelling ==
    ("" :> << >>) @@ [s \in DOMAIN LengthOf |-> Text(LengthOf[s], 13)]
      @@ ("ok" :> <<1>>) @@ ("config" :> <<2>>) @@ ("k" :> <<3>>) @@ ("k2" :> <<3, 3>>)
      @@ ("k3" :> <<3, 4>>) @@ ("k4" :> <<3, 5>>) @@ ("node.agent.ip" :> <<4>>)
      @@ ("node.agent.port" :> <<5>>) @@ ("cmd" :> <<6>>) @@ ("get" :> <<7>>)
      @@ ("id" :> <<8>>) @@ ("kube_namespace" :> <<9>>) @@ ("filetime" :> <<10>>)
      @@ ("regist" :> <<11>>) @@ ("kube.micro" :> <<12>>) @@ ("onode_name" :> <<1, 1>>)
      @@ ("oid" :> <<1, 2>>) @@ ("container_id" :> <<1, 3>>) @@ ("node" :> <<1, 4>>)
      @@ ("10.0.0.1" :> <<1, 5>>)

Entry(k, x) == [key |-> k, val |-> x]
Is(b)       == Value(VALUE_BOOLEAN, b)
Decimal(n)  == Value(VALUE_DECIMAL, n)
TextOf(s)   == Value(VALUE_TEXT, s)
Numbers(type, n) == Value(type, [i \in 1..n |-> -i])
Edges(n) == {-(Power(n) \div 2) - 1, -(Power(n) \div 2), Power(n) \div 2 - 1, Power(n) \div 2}

\* A number and its negative, infinity, the two zeros and the two NaNs that
\* have every bit, all but the sign's or all, set.
MCFraction == [n \in {4, 8} |-> Power(n - 1)]
Floats(n)  ==
    {1, 1 - Power(n) \div 2, Power(n) \div 2 - MCFraction[n], 0, -(Power(n) \div 2),
     Power(n) \div 2 - 1, -1}

Scalars ==
    {Value(VALUE_NULL, 0), Is(TRUE), Is(FALSE)}
      \cup {Decimal(n) : n \in {-1, 0, 1, -(Power(8) \div 2), Power(8) \div 2 - 1}
                                  \cup UNION {Edges(k) : k \in 1..5}}
      \cup {Value(t, n) : t \in {VALUE_FLOAT, VALUE_TEXT_HASH}, n \in Floats(4)}
      \cup {Value(VALUE_DOUBLE, n) : n \in Floats(8)}
      \cup {TextOf(s) : s \in {""} \cup DOMAIN LengthOf}
      \cup {Value(VALUE_BLOB, Text(n, 0)) : n \in {1, 11, 12, 13, 195, 196}}
      \cup {Value(VALUE_IP4ADDR, <<10, 0, 0, 1>>)}

Lists(type) == {Value(type, [i \in 1..n |-> Decimal(i)]) : n \in {0, 4, 5}}
Map(n)      == [i \in 1..n |-> Entry(<<"k", "k2", "k3", "k4">>[i], Decimal(i))]
IntMap(x)   == Value(INT_VALUE_MAP, <<Entry(-1, Decimal(7)), Entry(1, x)>>)

Composed ==
    {Numbers(ARRAY_INT, n) : n \in {0, 97, 98}}
      \cup {Value(ARRAY_FLOAT, SetToSeq(Floats(4))), Numbers(ARRAY_LONG, 2)}
      \cup {Value(ARRAY_TEXT, [i \in 1..n |-> "twelve"]) : n \in {0, 5, 6}}
      \cup Lists(VALUE_LIST) \cup Lists(LIST_STRUCT)
      \cup {Value(VALUE_MAP, Map(n)) : n \in {0, 3, 4}}
      \cup {IntMap(x) : x \in {Is(TRUE)} \cup Lists(VALUE_LIST) \cup Lists(LIST_STRUCT)}

\* The numbers of a fixed width and the summaries are written and not read.
WrittenOnly ==
    {Value(VALUE_DECIMAL_INT, 1), Value(VALUE_DECIMAL_LONG, 1),
     Value(VALUE_DOUBLE_SUMMARY, [sum |-> -1, count |-> 2, min |-> 1, max |-> 2]),
     Value(VALUE_LONG_SUMMARY, [sum |-> 3, count |-> 2, min |-> 1, max |-> 2])}

Settings == PutList(PutString(<< >>, "k", "twelve"), "k2", <<Is(TRUE)>>)
Node(port) == <<Entry("ok", Is(TRUE)), Entry("node.agent.ip", TextOf("10.0.0.1")),
                Entry("node.agent.port", port)>>

MCAnswers ==
    [config |-> {<<Entry("ok", Is(b)), Entry("config", Value(VALUE_MAP, Settings))>> : b \in BOOLEAN}
                  \cup {<<Entry("ok", Is(TRUE))>>,
                        <<Entry("ok", Is(TRUE)), Entry("config", Value(VALUE_MAP, Map(4)))>>},
     access |-> {Node(Decimal(6600)), Node(Value(VALUE_DECIMAL_INT, 6600)), << >>},
     perf   |-> {<<Entry("k", x)>> : x \in Scalars \cup Composed \cup WrittenOnly}
                  \cup {Map(3), <<Entry("most", TextOf("more")), Entry("k", Numbers(ARRAY_INT, 60))>>}]
=============================================================================
