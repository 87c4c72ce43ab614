-------------------------- MODULE MCSecretCommands --------------------------
(* Two resources, attributes at the root, in an object and in a list.        *)
EXTENDS SecretCommands

Lower(w) == [word |-> w, case |-> "lower"]
Capital(w) == [word |-> w, case |-> "Capital"]
Dash == [word |-> "-", case |-> "separator"]
Spelled == ("password" :> <<Lower("password")>>) @@ ("apiKey" :> <<Lower("api"), Capital("key")>>)
        @@ ("api-key" :> <<Lower("api"), Dash, Lower("key")>>) @@ ("tokenType" :> <<Lower("token"), Capital("type")>>)
        @@ ("token-type" :> <<Lower("token"), Dash, Lower("type")>>) @@ ("userToken" :> <<Lower("user"), Capital("token")>>)
        @@ ("user_token" :> <<Lower("user"), Dash, Lower("token")>>) @@ ("db" :> <<Lower("db")>>)
        @@ ("0" :> <<Lower("0")>>) @@ ("" :> <<>>)

Root == <<"/">>
A == <<"/", "a">>
AB == <<"/", "a", "/", "b">>
Colon == <<"/", "a", ":", "b">>
TwoPaths == {A, AB}
WithColon == {A, Colon}
RootOnly == {Root}
Slashed == <<"/", "x">>
SomeKeys == {Slashed}
SomeArguments == {A, <<"x">>, <<"x", "/", "/", "x">>, AB \o <<":">> \o Slashed, <<"x", "/", "x">>}
RootArguments == {Root, <<"x">>, Colon}
SomeContents == {Text("doc"), Content("bin", FALSE, FALSE), Content("prefixed", TRUE, TRUE)}
SomePayloads == {
    (<<"password">> :> Plain("v1")) @@ (<<"db">> :> Plain("v2")),
    (<<"db", "password">> :> Plain("v1")) @@ (<<"userToken">> :> Plain("v2")),
    (<<"", "password">> :> Plain("v1")) @@ (<<"password">> :> Plain("v2")),
    (<<"0", "password">> :> Plain("v1")) @@ (<<"db">> :> Explicit(<<"x">>)),
    (<<"apiKey">> :> Plain("v1")) @@ (<<"api-key">> :> Plain("v1")),
    (<<"tokenType">> :> Plain("v1")) @@ (<<"token-type">> :> Plain("v1")),
    (<<"userToken">> :> Plain("v1")) @@ (<<"user_token">> :> Plain("v1")),
    (<<"password">> :> Current) @@ (<<"userToken">> :> Explicit(<<"x">>)),
    (<<"password">> :> Scalar("number", "1", <<>>)),
    (<<"password", "db">> :> Plain("v1")),
    (<<"password">> :> Scalar("malformed", "", <<>>)),
    (<<"db">> :> Explicit(Slashed)),
    (<<"db">> :> Scalar("descriptor", "", <<>>)) @@ (<<"password">> :> Scalar("null", "", <<>>)),
    (<<"db">> :> Scalar("descriptor_malformed", "", <<>>)),
    (<<"">> :> Current),
    <<>> :> Current, <<>> :> Explicit(<<"x">>), <<>> :> Plain("v1")}
DullPayloads == {<<"password">> :> Plain("43200")}
NamedPayloads == {<<"password">> :> Explicit(<<"password">>)}
=============================================================================
