-------------------------- MODULE MCMetadataStore --------------------------
(* A collection /a with the resource /a/b, and selectors with wildcards.    *)
EXTENDS MetadataStore, TLC

Site(sel, kind) == [sel |-> sel, kind |-> kind]
SmallRank == ("_" :> 1) @@ ("a" :> 2) @@ ("b" :> 3)
CapitalRank == ("a" :> 1) @@ ("_" :> 2) @@ ("b" :> 3)
SmallPatterns == [_ |-> {"a", "b"}]
SmallSites == {Site(<<>>, "coll"), Site(<<"a">>, "coll"), Site(<<"_">>, "coll"),
               Site(<<"a", "b">>, "res"), Site(<<"_", "b">>, "coll"), Site(<<"a", "b">>, "coll")}
SmallTargets == {[path |-> <<"a">>, coll |-> TRUE], [path |-> <<"a">>, coll |-> FALSE],
                 [path |-> <<"a", "b">>, coll |-> FALSE], [path |-> <<"a", "b">>, coll |-> TRUE]}
SmallResources == {<<"a", "b">>}
SmallContents ==
    {[NoMetadata EXCEPT !.own = 1], [NoMetadata EXCEPT !.own = 2, !.desc = TRUE],
     [NoMetadata EXCEPT !.defaults.mode = "ignore", !.defaults.value = Inline(1)],
     [NoMetadata EXCEPT !.defaults.mode = "replace", !.own = 1]}

SelectorContents == {[NoMetadata EXCEPT !.desc = TRUE, !.defaults.value = Inline(1)]}

Holding(site, ext, md) ==
    [files |-> (FileAt(site, ext) :> md), artifacts |-> <<>>, dirs |-> Upwards(DirOf(site))]
SmallShared ==
    {EmptyLayer,
     Holding(Site(<<"a">>, "coll"), "json",
             [own |-> 2, desc |-> TRUE, defaults |-> [NoDefaults EXCEPT !.value = Inline(2)]]),
     Holding(Site(<<>>, "coll"), "json",
             [own |-> 1, desc |-> FALSE,
              defaults |-> [NoDefaults EXCEPT !.value = Inline(2), !.profile = Inline(1), !.use = "profile"]])}
===========================================================================
