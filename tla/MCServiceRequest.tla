--------------------------- MODULE MCServiceRequest ---------------------------
(* Small inputs of ServiceRequest.                                           *)
EXTENDS ServiceRequest

SmallPath == <<"a", "b">>
Item(path, methods) == [path |-> path, methods |-> methods]
SomePaths ==
    {{}, {Item(<<"a", "b">>, {"get"})}, {Item(<<"a", "{}">>, {"get", "put"})},
     {Item(<<"{}", "b">>, {"post", "patch"})},
     {Item(<<"a", "{}">>, {"get", "post", "put", "delete"}), Item(<<"{}", "b">>, {"get"})},
     {Item(<<"{}", "{}">>, {}), Item(<<"a">>, {"get"})}}
FewPaths ==
    {{}, {Item(<<"a", "{}">>, {"get", "put"})},
     {Item(<<"a", "{}">>, {"get", "post", "put", "delete"}), Item(<<"{}", "b">>, {"get"})}}

Any == [ref |-> "", type |-> "", properties |-> <<>>, required |-> {},
        closed |-> FALSE, nullable |-> FALSE, items |-> "", allOf |-> {}, anyOf |-> {}, oneOf |-> {}]
Props(fs, s) == [f \in fs |-> s]
Text == [Any EXCEPT !.type = "string"]
Objects == {[Any EXCEPT !.properties = Props(fs, "text"), !.closed = closed,
                        !.required = required] :
               fs \in {{"x"}, {"y"}, {"x", "y"}}, closed \in BOOLEAN,
               required \in {{}, {"x"}}}
Roots == {[Any EXCEPT !.ref = n] : n \in {"a", "root", "loop"}}
         \cup {[Any EXCEPT !.allOf = ns] : ns \in {{"a"}, {"a", "b"}}}
         \cup {[Any EXCEPT !.anyOf = {"a", "b"}], [Any EXCEPT !.oneOf = {"a", "b"}],
               [Any EXCEPT !.items = "a"], [Any EXCEPT !.items = "root"],
               [Any EXCEPT !.allOf = {"a"}, !.closed = TRUE, !.nullable = TRUE]}
SmallDocuments ==
    {[root |-> r, a |-> a, b |-> b, text |-> Text, loop |-> [Any EXCEPT !.ref = "root"]] :
        r \in Roots, a \in Objects, b \in Objects}
Value(kind) == [kind |-> kind, fields |-> <<>>]
SmallValues ==
    {Value("null"), Value("string")} \cup
    {[kind |-> "object", fields |-> [f \in fs |-> Value(k)]] :
        fs \in {{}, {"x"}, {"y"}, {"x", "y"}}, k \in {"string", "null"}}
    \cup {[kind |-> "array", fields |-> <<v, v>>] :
             v \in {Value("string"), [kind |-> "object", fields |-> [x |-> Value("string")]]}}

Operations == [bodySchema : {"", "s"}, pathBodySchema : {"", "s"},
               consumes : {{}, {"text"}}, produces : {{}, {"json"}, {"text"}},
               shared : {FALSE}]
OwnResponses == {[operations |-> <<a, b>>, consumes |-> {"yaml"}, produces |-> {}] :
                    a, b \in Operations}
SharedResponses ==
    {[operations |-> <<[a EXCEPT !.shared = TRUE], [b EXCEPT !.shared = TRUE]>>,
      consumes |-> {}, produces |-> {}] : a, b \in Operations}
============================================================================
