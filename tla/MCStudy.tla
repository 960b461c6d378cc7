------------------------------ MODULE MCStudy ------------------------------
EXTENDS Study

MCIndex == ("0" :> 0) @@ ("1" :> 1) @@ ("2" :> 2) @@ ("-1" :> -1)
Dict == Other("dict")

\* {"sim": {"steps", "laser": [{"focus"}, {"focus"}], "bc": {"0"}}, "note"}
MCBaseSpec ==
    (<<>> :> Dict) @@ (<<"note">> :> Other("str")) @@ (<<"sim">> :> Dict)
    @@ (<<"sim", "steps">> :> Num(5)) @@ (<<"sim", "laser">> :> Other("list"))
    @@ (<<"sim", "laser", "0">> :> Dict) @@ (<<"sim", "laser", "0", "focus">> :> Num(1))
    @@ (<<"sim", "laser", "1">> :> Dict) @@ (<<"sim", "laser", "1", "focus">> :> Num(1))
    @@ (<<"sim", "bc">> :> Dict) @@ (<<"sim", "bc", "0">> :> Other("str"))

Steps == <<"sim", "steps">>
\* Good paths, a typo, positions out of range, a numeric key of a dict, a path through a
\* value, and one outside the wire payload.
MCSetups ==
    {<<Steps, <<Num(1000), Num(2000)>>>>, <<Steps, <<Num(2000), Num(1000), Num(3000)>>>>,
     <<Steps, <<>>>>, <<<<>>, <<>>>>, <<<<>>, <<Num(1000)>>>>,
     <<Steps, <<Num(1000), Num(1000)>>>>, <<Steps, <<Other("json")>>>>,
     <<Steps, <<Num(1000), Num(9)>>>>, <<Steps, <<Num(8)>>>>, <<<<"sim", "bc", "0">>, <<Other("bool")>>>>, <<Steps, <<Num(7)>>>>}
    \cup {<<p, <<Num(1000), Other("str")>>>> :
            p \in {<<"sim", "step">>, <<"sim", "laser", "-1", "focus">>, <<"sim", "laser", "1">>,
                   <<"sim", "laser", "2", "focus">>, <<"sim", "laser", "x">>, <<"sim", "bc", "0">>,
                   <<"sim", "bc", "1">>, <<"sim", "steps", "x">>, <<"note">>}}

\* The strings "a/b" and "a_b", which are escaped alike.
Text(k) == [kind |-> "str", n |-> k]
MCSweeps == {<<Num(1000), Num(4000)>>, <<Text(1), Text(2)>>, <<Text(1)>>}
MCSpellings ==
    (Num(1000) :> "1000") @@ (Num(4000) :> "4000") @@ (Text(1) :> "a_b") @@ (Text(2) :> "a_b")
MCBroken ==
    [unsupported |-> {Num(9)}, schema |-> {Other("json")}, inconsistent |-> {Num(8)}, big |-> {Num(7)}]
MCExtra == {Num(9)}

MCMeasure(o, c) ==
    CASE o = "slow" -> 1000000 + 10 * c
      [] o = "falling" -> 1000000 - 10 * c
      [] o = "peak" -> 100000 - 10 * (IF c > 2000 THEN c - 2000 ELSE 2000 - c)
      [] o = "flat" -> 1000
============================================================================
