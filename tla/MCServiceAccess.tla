--------------------------- MODULE MCServiceAccess --------------------------
(* How a managed service is reached, one part at a time: the HTTP client     *)
(* shared by goroutines, the requests and answers of one operation, the      *)
(* metadata that describe them, the cache of metadata bundles, and the       *)
(* probes from which defaults are inferred. Each part starts as its own      *)
(* specification says and the others rest; the parts share no state, so      *)
(* this explores what five runs would.  The client, the cache and the probes *)
(* keep their own names, so that ClientShared, BundlesSafe and ProbesSafe    *)
(* are what ServiceAccessProofs proves.                                      *)
EXTENDS ServiceClient, BundleCache, DefaultsProbe

CONSTANTS
    Parts,      \* the parts to explore
    Methods, RequestPath, PathDocuments, Attributes, Documents, SchemaValues, MaxSchemaDepth, Swaggers, ListItems,
    Rank, Patterns, Sites, Targets, LocalResources, Contents, SharedStart, Writable, EditsInvalid, Kills, MaxCommands

VARIABLES
    part,                                                   \* the part that moves
    work,                                                   \* ServiceRequest
    layers, running, spent                                  \* MetadataStore

Request == INSTANCE MCServiceRequest
Metadata == INSTANCE MCMetadataStore

(***************************************************************************)
(* Values of the constants.                                                *)
(***************************************************************************)

ClientOfCallers == [c \in {"c1", "c2"} |-> "k1"]
Narrow == [max |-> 1, queue |-> 1, rps |-> 0, burst |-> 0]
Wide == [max |-> 2, queue |-> 1, rps |-> 0, burst |-> 0]
Rated == [max |-> 1, queue |-> 0, rps |-> 1, burst |-> 0]
Limits == {Narrow, Rated}
WideLimit == {Wide}

OneItem == <<"i">>
TwoItems == <<"i", "j">>

\* The rest come from instances in which the constants they replace are empty.
RequestValues == INSTANCE MCServiceRequest WITH RequestPath <- <<>>, PathDocuments <- {}, Documents <- {},
                                                SchemaValues <- {}, Swaggers <- {}
SmallPath == RequestValues!SmallPath
FewPaths == RequestValues!FewPaths
SmallDocuments == RequestValues!SmallDocuments
SmallValues == RequestValues!SmallValues
OwnResponses == RequestValues!OwnResponses

MetadataValues == INSTANCE MCMetadataStore WITH Rank <- <<>>, Patterns <- <<>>, Sites <- {}, Targets <- {},
                                                LocalResources <- {}, Contents <- {}, SharedStart <- {}
SmallRank == MetadataValues!SmallRank
SmallPatterns == MetadataValues!SmallPatterns
SmallSites == MetadataValues!SmallSites
SmallTargets == MetadataValues!SmallTargets
SmallResources == MetadataValues!SmallResources
SmallContents == MetadataValues!SmallContents
SmallShared == MetadataValues!SmallShared

BundleValues == INSTANCE MCBundleCache WITH Refs <- {}, Archives <- {}, FirstOffers <- {}, Layers <- <<>>,
                                            ProcessOf <- <<>>
AllForms == BundleValues!AllForms
FewArchives == BundleValues!FewArchives
FewOffers == BundleValues!FewOffers
BundleLayer == BundleValues!BundleLayer
OneProcess == BundleValues!OneProcess

(***************************************************************************)
(* The parts.                                                              *)
(***************************************************************************)

ClientRests == UNCHANGED clientVars
RequestRests == UNCHANGED work
MetadataRest == UNCHANGED <<layers, running, spent>>
BundlesRest == UNCHANGED bundleVars
ProbesRest == UNCHANGED probeVars

partVars == <<part, clientVars, work, Metadata!metadataVars, bundleVars, probeVars>>

\* A part that rests has one of its initial states.
Init ==
    /\ part \in Parts
    /\ IF part = "client" THEN TRUE ELSE client = [k \in Clients |-> NewClientState(Narrow)]
    /\ IF part = "request" THEN Request!RequestInit ELSE work = Request!Begin("list", CHOOSE in \in Request!ListInputs : TRUE)
    /\ IF part = "metadata" THEN TRUE ELSE layers = [shared |-> Metadata!EmptyLayer, local |-> Metadata!EmptyLayer]
    /\ IF part = "bundles" THEN TRUE ELSE offered = CHOOSE o \in FirstOffers : TRUE
    /\ ClientInit /\ Metadata!MetadataInit /\ BundleInit /\ ProbeInit

MoveClient ==
    /\ part = "client" /\ UNCHANGED part
    /\ ClientNext
    /\ RequestRests /\ MetadataRest /\ BundlesRest /\ ProbesRest

MoveRequest ==
    /\ part = "request" /\ UNCHANGED part
    /\ Request!RequestNext
    /\ ClientRests /\ MetadataRest /\ BundlesRest /\ ProbesRest

MoveMetadata ==
    /\ part = "metadata" /\ UNCHANGED part
    /\ Metadata!MetadataNext
    /\ ClientRests /\ RequestRests /\ BundlesRest /\ ProbesRest

MoveBundles ==
    /\ part = "bundles" /\ UNCHANGED part
    /\ BundleNext
    /\ ClientRests /\ RequestRests /\ MetadataRest /\ ProbesRest

MoveProbes ==
    /\ part = "probes" /\ UNCHANGED part
    /\ ProbeNext
    /\ ClientRests /\ RequestRests /\ MetadataRest /\ BundlesRest

Next == MoveClient \/ MoveRequest \/ MoveMetadata \/ MoveBundles \/ MoveProbes

Spec == Init /\ [][Next]_partVars

(***************************************************************************)
(* What each part promises; the conjuncts are stated in its module.        *)
(***************************************************************************)

\* Every part is well formed: the gates and the mutexes of the clients, requests
\* and answers, metadata files, cache directories with their locks, and probes.
TypeOK ==
    /\ part = "client" => ClientTypeOK
    /\ part = "request" => Request!RequestTypeOK
    /\ part = "metadata" => Metadata!MetadataTypeOK
    /\ part = "bundles" => BundleTypeOK
    /\ part = "probes" => ProbeTypeOK

\* A request is sent with every attribute its identity needs and with a method
\* that metadata and document agree on; an answer is decoded as it was announced;
\* a list does not depend on its order or envelope; an allOf is one schema; and an
\* operation gets its own request body (request_builder.go, openapi_fallback.go,
\* response_decode.go, list_decode.go, schema_validation.go, openapi_swagger2.go).
ExchangesFaithful ==
    part = "request" =>
        /\ Request!SentWasComplete /\ Request!MethodAgreed /\ Request!DecodedAsAnnounced
        /\ Request!ListIsDeterministic /\ Request!AllOfIsOneSchema /\ Request!RequestBodyOfEach

\* What a metadata file includes is there when no command runs; a path resolves to
\* the most specific directive; a defaults block that ignores or replaces leaves
\* its own value; the scope of a template is the target; and completion leads to
\* metadata (fs_metadata_service_resolve.go, resource_defaults.go).
MetadataResolves ==
    part = "metadata" =>
        /\ Metadata!IncludesResolve /\ Metadata!MostSpecificWins /\ Metadata!IgnoreMeansOwn
        /\ Metadata!ScopeIsTarget /\ Metadata!ChildrenLead

\* Defaults that were saved are read back, over whatever the file held, and a
\* command about defaults leaves the other directives alone (local_defaults.go,
\* resource_metadata_helpers.go).
MetadataSaved == Metadata!SavedIsRead /\ Metadata!DefaultsOnly
=============================================================================
