--------------------------- MODULE MCBundleCache ---------------------------
(* References that share a cache directory and references that do not;      *)
(* archives that are whole, that break off, and that another version of     *)
(* the program needs.                                                       *)
EXTENDS BundleCache

Manifest(name, version, compatible) ==
    [name |-> name, version |-> version, fields |-> TRUE, openapi |-> "none",
     compatible |-> compatible, template |-> name]
Body(text) == [name |-> text]
File(to, body, size) == [to |-> to, type |-> "file", size |-> size, body |-> body]

Bundle(manifest, text) ==
    <<File("manifest", manifest, 1), File("metadata", Body(text), 1)>>
Good == Bundle(Manifest("kc", "1", TRUE), "m")
Newer == Bundle(Manifest("kc", "1", TRUE), "n")
Foreign == Bundle(Manifest("other", "1", TRUE), "m")
Refusing == Bundle(Manifest("kc", "1", FALSE), "m")
BreaksOff == Append(Newer, [to |-> "openapi", type |-> "link", size |-> 0, body |-> Body("o")])
Escapes == Append(Newer, File("outside", Body("o"), 1))
TooLarge == Append(Newer, File("openapi", Body("o"), 2))
Padded == <<[to |-> "skip", type |-> "dir", size |-> 0, body |-> Body("d")]>> \o Good
NeedsDocument == Bundle([Manifest("kc", "1", TRUE) EXCEPT !.openapi = "file"], "m")

FewArchives == {Good, BreaksOff}
AllArchives == {Good, Newer, Foreign, Refusing, BreaksOff, Escapes, TooLarge, Padded, NeedsDocument}
GoodArchives == {Good, Newer}
GoodAndRefusing == {Good, Refusing}
OneArchive == {Good}

Ref(form, place, name, version) == [form |-> form, place |-> place, name |-> name, version |-> version]
Short == Ref("short", "", "kc", "1")
Tagged == Ref("oci", "r", "kc", "1")
Latest == Ref("oci", "r", "kc", "latest")
Mirror == Ref("url", "s", "kc", "1")
Mapped == Ref("configmap", "ns", "kc", "")
Unpacked == Ref("directory", "d", "kc", "")

AllForms == {Short, Tagged, Latest, Unpacked}
MirrorRefs == {Tagged, Mirror}
MappedRefs == {Mapped}
TaggedRefs == {Tagged}

AnyOffers == [Refs -> Archives]
Offers(latest) ==
    {[ref \in AllForms |-> CASE ref = Short -> a [] ref = Tagged -> b
                              [] ref = Latest -> c [] OTHER -> Refusing] :
        a \in {Good, BreaksOff}, b \in {Good, Foreign}, c \in latest}
SomeOffers == Offers({Newer, Refusing})
FewOffers == Offers({Refusing})

Documented == Append(Foreign, File("openapi", Body("o"), 1))
SharedRefs == {Short, Tagged}
DocumentedOffers == {(Short :> Good) @@ (Tagged :> Documented)}

BundleLayer == <<"config", "declarest">>
LayerBehind == <<"tar", "declarest">>
OneProcess == ("w1" :> "p") @@ ("w2" :> "p")
=============================================================================
