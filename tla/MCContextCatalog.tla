-------------------------- MODULE MCContextCatalog --------------------------
(* Two or three contexts, one or two shells.                                *)
EXTENDS ContextCatalog

Server(url) == [EmptyContext EXCEPT !.parts = {"server"}, !.url["server"] = url,
                                    !.auth["server"] = {"oauth2"}]
Filesystem == [EmptyContext EXCEPT !.repo = "filesystem", !.base = "d", !.metadata["baseDir"] = "d"]
Basic == [Server("u") EXCEPT !.auth["server"] = {"basic"}, !.ref["server"] = "c"]
Invalid == [Server("u") EXCEPT !.auth["server"] = {"basic", "oauth2"}]
ProxyOf(http, auth) == [Server("u") EXCEPT !.proxy["metadata"] = ProxyBlock(http, "", auth)]

PlainDrafts == {Server("u"), Server("$url"), Basic, Filesystem, Invalid}
ServerDrafts == {Server("u"), Server("$url"), Basic, Invalid}
FewDrafts == {Server("u"), Basic}
ProxyDrafts == {Server("u"), ProxyOf("$proxy", "")}
MetadataProxyDrafts == {Server("u"), ProxyOf("p", "k")}

Import1 == [contexts |-> <<[Basic EXCEPT !.name = "b"], [Server("u") EXCEPT !.name = "x"]>>,
            current |-> "b", creds |-> <<[name |-> "c", value |-> "w"]>>]
Import2 == [contexts |-> <<[Server("u") EXCEPT !.name = "x"], [Basic EXCEPT !.name = "b"]>>,
            current |-> "b", creds |-> <<[name |-> "c", value |-> "w"]>>]
OneImport == {Import1}
OtherImport == {Import2}

Vars(url, proxy, name) == ("$url" :> url) @@ ("$proxy" :> proxy) @@ ("$name" :> name)
Shell(url, proxy) == [vars |-> Vars(url, "p", "a"), proxy |-> proxy]
TwoShells == {Shell("u", NoProxyBlock), Shell("", ProxyBlock("p", "", ""))}
TrialShells == {Shell("u", NoProxyBlock), Shell("", ProxyBlock("p", "", "")),
                Shell("u", ProxyBlock("", "n", ""))}
OneShell == {Shell("u", NoProxyBlock)}

Blocks == {NoProxyBlock, Disabled, ProxyBlock("p", "", ""), ProxyBlock("q", "", ""),
           ProxyBlock("", "n", ""), ProxyBlock("p", "n", ""), ProxyBlock("p", "", "c")}
=============================================================================
