--------------------------- MODULE ServiceRequest ---------------------------
(* How the HTTP client turns an operation on a resource into a request, and *)
(* an answer into content: the method and media types taken from metadata   *)
(* or from the OpenAPI document, the validation of the payload before it is *)
(* sent, the transforms, the JSON-schema check, the decoding of a response, *)
(* and the normalization of a Swagger 2.0 document when it is loaded.       *)
(* One behaviour is one exchange, one response, one schema check or one     *)
(* document.  Attributes stand for JSON pointers, a schema for its name in  *)
(* the document, media types for their payload type.                        *)
EXTENDS Naturals, Sequences, FiniteSets

LOCAL INSTANCE SequencesExt

CONSTANTS
    Methods,       \* HTTP methods, in lower case as path items write them
    RequestPath,   \* the segments of the path a request goes to
    PathDocuments, \* the path items of OpenAPI documents: path and methods
    Attributes,    \* attributes of payloads
    Documents,     \* schema documents: name -> schema
    SchemaValues,  \* values checked against the schema "root"
    MaxSchemaDepth,\* maxSchemaDepth
    Swaggers,      \* Swagger 2.0 documents
    ListItems      \* what the items of a list may be: an alias, or 0

VARIABLE work      \* what is being done: its part, stage, input and output

Structured(type) == type \in {"json", "yaml"}

(***************************************************************************)
(* An exchange: BuildRequestFromMetadata.                                  *)
(***************************************************************************)

Writes(op) == op \in {"create", "update"}

NoItem == [known |-> FALSE, methods |-> {}]
Variable == "{}"   \* a segment in braces

\* openAPIPathMatches
OpenAPIPathMatches(path) ==
    /\ Len(path) = Len(RequestPath)
    /\ \A i \in DOMAIN path : path[i] \in {RequestPath[i], Variable}

\* findOpenAPIPathItem: of the matching paths the one with the fewest
\* variables, then the first in the order of the keys (a brace sorts after
\* the letters).
FindOpenAPIPathItem(paths) ==
    LET matches == {p \in paths : OpenAPIPathMatches(p.path)}
        vars(p) == Cardinality({i \in DOMAIN p.path : p.path[i] = Variable})
        before(p, q) == \E i \in DOMAIN p.path :
                           /\ p.path[i] # Variable /\ q.path[i] = Variable
                           /\ \A j \in 1..(i - 1) : p.path[j] = q.path[j]
    IN IF matches = {} THEN NoItem
       ELSE LET best == CHOOSE p \in matches : \A q \in matches \ {p} :
                           vars(p) < vars(q) \/ (vars(p) = vars(q) /\ before(p, q))
            IN [known |-> TRUE, methods |-> best.methods]

\* preferredMethodsForOperation
PreferredMethods(op) ==
    CASE op = "create" -> <<"post", "put">>
      [] op = "update" -> <<"put", "patch", "post">>
      [] op = "delete" -> <<"delete">>
      [] OTHER         -> <<"get">>

DefaultOperationMethod(op) ==
    CASE op = "create" -> "post" [] op = "update" -> "put"
      [] op = "delete" -> "delete" [] OTHER -> "get"

\* Mutant of InferMethodFromPathItem: the document is asked first.
InferAnything(op, item) == IF item.methods = {} THEN "" ELSE CHOOSE m \in item.methods : TRUE

\* inferMethodFromPathItem: the first preferred method the path item has.
InferMethodFromPathItem(op, item) ==
    LET offered == {i \in DOMAIN PreferredMethods(op) :
                       PreferredMethods(op)[i] \in item.methods}
    IN IF offered = {} THEN ""
       ELSE PreferredMethods(op)[CHOOSE i \in offered : \A j \in offered : i <= j]

ExchangeInputs ==
    [op : {"get", "create", "update", "delete"},
     method : {"", "patch"},            \* explicit in the metadata
     paths : PathDocuments,
     type : {"json", "text", "octet-stream"}, attrs : SUBSET Attributes,
     alias : Attributes, id : Attributes,   \* the identity templates' pointers
     required : {{}} \cup {{a} : a \in Attributes},
     exclude : {{}} \cup {{a} : a \in Attributes},   \* excludeAttributes
     validate : {{}} \cup {{a} : a \in Attributes},  \* validate.requiredAttributes
     derived : {{}} \cup {{a} : a \in Attributes}]   \* path template fields

ErrorAt(what) == [work EXCEPT !.stage = "done", !.error = what]

\* applyOpenAPIFallback fills in only what the metadata left open, and refuses
\* a method the path does not have.
ApplyOpenAPIFallback ==
    /\ work.part = "exchange" /\ work.stage = "start"
    /\ LET in == work.in
           item == FindOpenAPIPathItem(in.paths)
           method == IF in.method # "" \/ ~item.known THEN in.method
                     ELSE InferMethodFromPathItem(in.op, item)
       IN work' = IF item.known /\ method # "" /\ method \notin item.methods
                  THEN ErrorAt("ValidationError")
                  ELSE [work EXCEPT !.stage = "source", !.method =
                          IF method = "" THEN DefaultOperationMethod(in.op)
                          ELSE method]

\* Mutant of RequiredForOperation: the identifier is required of what is created, not of what is updated.
RequiredForAll(in) ==
    in.required \cup {in.alias} \cup (IF in.op = "create" THEN {in.id} ELSE {})

\* resourceRequiredAttributesForOperation: the alias always, the id unless
\* the resource is being created.
RequiredForOperation(in) ==
    in.required \cup {in.alias} \cup (IF in.op = "create" THEN {} ELSE {in.id})

\* validateResourceMutationPayload: the payload as it is in the repository,
\* before any transform; payloads that are not structured are let through.
ValidateResourceMutationPayload ==
    /\ work.part = "exchange" /\ work.stage = "source"
    /\ work' = IF /\ Writes(work.in.op) /\ Structured(work.in.type)
                  /\ ~(RequiredForOperation(work.in) \subseteq work.in.attrs)
               THEN ErrorAt("ValidationError")
               ELSE [work EXCEPT !.stage = "body"]

\* applyPayloadExcludeAttributes, for structured bodies only.
ApplyOperationPayloadTransforms(in) ==
    IF Structured(in.type) THEN in.attrs \ in.exclude ELSE in.attrs

BuildBody ==
    /\ work.part = "exchange" /\ work.stage = "body"
    /\ work' = [work EXCEPT !.stage = "support", !.body =
          IF Writes(work.in.op) THEN ApplyOperationPayloadTransforms(work.in) ELSE {}]

\* validateOpenAPIMethodSupport, once more on the final method.
ValidateOpenAPIMethodSupport ==
    /\ work.part = "exchange" /\ work.stage = "support"
    /\ work' = IF /\ FindOpenAPIPathItem(work.in.paths).known
                  /\ work.method \notin FindOpenAPIPathItem(work.in.paths).methods
               THEN ErrorAt("ValidationError")
               ELSE [work EXCEPT !.stage = "directives"]

\* validateOperationPayload: the outgoing body together with the fields
\* derived from the path (MergePayloadFields), which are not added to it.
ValidateOperationPayload ==
    /\ work.part = "exchange" /\ work.stage = "directives"
    /\ work' = IF /\ work.in.validate # {}
                  /\ \/ ~Structured(work.in.type)
                     \/ ~(work.in.validate \subseteq work.body \cup work.in.derived)
               THEN ErrorAt("ValidationError")
               ELSE [work EXCEPT !.stage = "done", !.sent = TRUE]

(***************************************************************************)
(* A response: decodeResponseBody.                                         *)
(***************************************************************************)

ResponseInputs ==
    [header : {"", "json", "yaml", "text", "octet-stream"},
     fallback : {"", "json", "text", "octet-stream"},
     body : {"empty", "blank", "object", "brokenObject", "words", "bytes"}]

\* DecodePayload: what a body is as a payload of a type; "error" if it is not.
DecodePayload(body, type) ==
    CASE type = "octet-stream" -> "binary"
      [] type = "text" -> "text"
      [] body = "object" -> "structured"
      [] body \in {"words", "blank"} /\ type = "yaml" -> "structured"
      [] OTHER -> "error"

\* normalizeResponseFallbackDescriptor: without a fallback, what the first
\* character of the body suggests.
FallbackType(in) ==
    IF in.fallback # "" THEN in.fallback
    ELSE IF in.body \in {"object", "brokenObject"} THEN "json" ELSE "octet-stream"

\* Mutant of ResponseDecodeCandidates: the header decides alone.
HeaderFirst(header, fallback) ==
    CASE header = "" -> <<fallback>>
      [] header = fallback -> <<header>>
      [] OTHER -> <<header, fallback>>

\* responseDecodeCandidates: a text header gives way to a structured fallback.
ResponseDecodeCandidates(header, fallback) ==
    CASE header = "" -> <<fallback>>
      [] header = fallback -> <<header>>
      [] header = "text" /\ Structured(fallback) -> <<fallback, header>>
      [] OTHER -> <<header, fallback>>

DecodeResponseBody ==
    /\ work.part = "response" /\ work.stage = "start"
    /\ LET in == work.in
           candidates == ResponseDecodeCandidates(in.header, FallbackType(in))
           good == {i \in DOMAIN candidates : DecodePayload(in.body, candidates[i]) # "error"}
           first == CHOOSE i \in good : \A j \in good : i <= j
       IN work' =
            CASE in.body = "empty" \/ (in.body = "blank" /\ Structured(candidates[1])) ->
                   [work EXCEPT !.stage = "done", !.value = "none"]
              [] good = {} -> ErrorAt("ValidationError")
              [] OTHER -> [work EXCEPT !.stage = "done",
                             !.value = DecodePayload(in.body, candidates[first])]

(***************************************************************************)
(* A list: decodeListResponse.                                             *)
(***************************************************************************)

ListInputs ==
    [shape : {"array", "items", "oneArrayField", "twoArrayFields", "noArray"},
     items : UNION {[1..n -> ListItems] : n \in 0..3}]

\* extractListItems
ExtractListItems(shape) == shape \in {"array", "items", "oneArrayField"}

\* Mutant of DecodeListResponse: an alias that comes again is passed over.
DecodeListOnce ==
    /\ work.part = "list" /\ work.stage = "start"
    /\ LET aliases == {work.in.items[i] : i \in DOMAIN work.in.items} \ {0}
       IN work' = [work EXCEPT !.stage = "done", !.listed =
                     SetToSortSeq(aliases, LAMBDA a, b : a < b)]

\* Every item must be an object with an alias of its own; the result is in the
\* order of the logical paths.
DecodeListResponse ==
    /\ work.part = "list" /\ work.stage = "start"
    /\ LET items == work.in.items
           aliases == {items[i] : i \in DOMAIN items}
       IN work' = IF \/ ~ExtractListItems(work.in.shape)
                     \/ 0 \in aliases
                     \/ Cardinality(aliases) # Len(items)
                  THEN ErrorAt(IF ExtractListItems(work.in.shape) /\ 0 \notin aliases
                               THEN "ConflictError" ELSE "ValidationError")
                  ELSE [work EXCEPT !.stage = "done", !.listed =
                          SetToSortSeq(aliases, LAMBDA a, b : a < b)]

(***************************************************************************)
(* A schema check: validateOperationSchemaRef.  A schema is a record; the  *)
(* schemas in it are names of the document, so that a reference is a name. *)
(***************************************************************************)

SchemaOf(doc, name) == doc[name]

\* topLevelSchemaObjectFieldNames
RECURSIVE TopLevelFields(_, _, _)
TopLevelFields(doc, name, depth) ==
    IF depth > MaxSchemaDepth THEN {}
    ELSE LET s == SchemaOf(doc, name)
         IN s.required \cup DOMAIN s.properties
            \cup UNION {TopLevelFields(doc, n, depth + 1) : n \in s.allOf}

\* resolveSchemaValue: a chain of references is followed once around at most.
RECURSIVE ResolveSchemaValue(_, _, _)
ResolveSchemaValue(doc, name, visited) ==
    IF name \in visited THEN "cycle"
    ELSE IF doc[name].ref = "" THEN name
    ELSE ResolveSchemaValue(doc, doc[name].ref, visited \cup {name})

\* Mutant of KnownToBranches: branches know what encloses them, not each other.
KnownOutside(extra, s, branches) == extra

\* The properties a branch of an allOf knows besides its own: the unionFields
\* of validateSchemaCombiners.
KnownToBranches(extra, s, branches) ==
    extra \cup s.required \cup DOMAIN s.properties \cup branches

\* validateSchemaType and validateSchemaObject; known: the properties that
\* branches, or other branches of an enclosing allOf, know.
ObjectConforms(value, s, known) ==
    /\ s.type # "" => value.kind = s.type
    /\ (s.required # {} \/ DOMAIN s.properties # {} \/ s.closed) =>
          /\ value.kind = "object"
          /\ s.required \subseteq DOMAIN value.fields
          /\ s.closed => DOMAIN value.fields \subseteq DOMAIN s.properties \cup known

\* validateSchemaArray: every element has the one schema of items.
ArrayConforms(value, s) == s.items # "" => value.kind = "array"

\* The values within a value, each with its schema.
Inner(value, s) ==
    {<<value.fields[f], s.properties[f]>> : f \in DOMAIN s.properties \cap DOMAIN value.fields}
    \cup {<<value.fields[i], s.items>> : i \in IF s.items = "" THEN {} ELSE DOMAIN value.fields}

\* validateValueAgainstOpenAPISchema with validateSchemaCombiners.
RECURSIVE Conforms(_, _, _, _, _)
Conforms(doc, value, name, extra, depth) ==
    LET target == ResolveSchemaValue(doc, name, {})
        s == doc[target]
        branches == UNION {TopLevelFields(doc, n, depth + 1) : n \in s.allOf}
        union == KnownToBranches(extra, s, branches)
        ok(v, n) == Conforms(doc, v, n, {}, depth + 1)
    IN /\ depth <= MaxSchemaDepth /\ target # "cycle"
       /\ (s.nullable /\ value.kind = "null")
          \/ /\ \A n \in s.allOf : Conforms(doc, value, n, union, depth + 1)
             /\ s.anyOf # {} => \E n \in s.anyOf : ok(value, n)
             /\ s.oneOf # {} => Cardinality({n \in s.oneOf : ok(value, n)}) = 1
             /\ ObjectConforms(value, s, extra \cup branches)
             /\ ArrayConforms(value, s)
             /\ \A in \in Inner(value, s) : ok(in[1], in[2])

ValidateSchema ==
    /\ work.part = "schema" /\ work.stage = "start"
    /\ work' = [work EXCEPT !.stage = "done", !.value =
          IF Conforms(work.in.doc, work.in.value, "root", {}, 0) THEN "valid" ELSE "invalid"]

(***************************************************************************)
(* A Swagger 2.0 document: normalizeOpenAPIDocument, operation by operation*)
(* in the order of paths and methods.  An operation's response is its own  *)
(* or a reference to one of the document's, which several may share and    *)
(* which is changed in place.                                              *)
(***************************************************************************)

\* mergeOpenAPIMediaTypeList, effectiveOpenAPIMediaTypes
EffectiveMediaTypes(own, global) ==
    IF own # {} THEN own ELSE IF global # {} THEN global ELSE {"json"}

\* Mutant of BodySchema: only the operation's own parameters count.
BodySchemaOwn(op) == op.bodySchema

\* swagger2OperationRequestBodySchema: a body parameter of the operation, or
\* else of the path.
BodySchema(op) == IF op.bodySchema # "" THEN op.bodySchema ELSE op.pathBodySchema

\* augmentSwagger2OperationResponseContent: content is written to the
\* resolved response, unless it is there already; then the operation keeps
\* what it had.
AugmentSwagger2Operation ==
    /\ work.part = "swagger" /\ work.stage = "start"
    /\ work.next \in DOMAIN work.in.operations
    /\ LET op == work.in.operations[work.next]
           produces == EffectiveMediaTypes(op.produces, work.in.produces)
           taken == op.shared /\ work.sharedContent # {}
       IN work' = [work EXCEPT
             !.next = @ + 1,
             !.sharedContent = IF op.shared /\ ~taken THEN produces ELSE @,
             !.responses = Append(@, IF taken THEN {} ELSE produces),
             !.requests = Append(@, IF BodySchema(op) = "" THEN {}
                             ELSE EffectiveMediaTypes(op.consumes, work.in.consumes))]

FinishSwagger ==
    /\ work.part = "swagger" /\ work.stage = "start"
    /\ work.next \notin DOMAIN work.in.operations
    /\ work' = [work EXCEPT !.stage = "done"]

----------------------------------------------------------------------------
Begin(part, in) ==
    [part |-> part, stage |-> "start", in |-> in, method |-> "", body |-> {},
     sent |-> FALSE, error |-> "", value |-> "", next |-> 1,
     sharedContent |-> {}, responses |-> <<>>, requests |-> <<>>, listed |-> <<>>]

RequestInit ==
    \/ \E in \in ExchangeInputs : work = Begin("exchange", in)
    \/ \E in \in ResponseInputs : work = Begin("response", in)
    \/ \E in \in ListInputs : work = Begin("list", in)
    \/ \E doc \in Documents, value \in SchemaValues :
          work = Begin("schema", [doc |-> doc, value |-> value])
    \/ \E in \in Swaggers : work = Begin("swagger", in)

RequestNext ==
    \/ ApplyOpenAPIFallback
    \/ ValidateResourceMutationPayload
    \/ BuildBody
    \/ ValidateOpenAPIMethodSupport
    \/ ValidateOperationPayload
    \/ DecodeResponseBody
    \/ DecodeListResponse
    \/ ValidateSchema
    \/ AugmentSwagger2Operation
    \/ FinishSwagger

RequestSpec == RequestInit /\ [][RequestNext]_work

RequestTypeOK ==
    /\ work.part \in {"exchange", "response", "list", "schema", "swagger"}
    /\ work.stage \in {"start", "source", "body", "support", "directives", "done"}
    /\ work.method \in Methods \cup {""} /\ work.body \subseteq Attributes
    /\ work.error \in {"", "ValidationError", "ConflictError"}
    /\ work.value \in {"", "none", "structured", "text", "binary", "valid", "invalid"}

(***************************************************************************)
(* Properties.                                                             *)
(***************************************************************************)

\* BuildRequestFromMetadata: what is sent to create or update a structured
\* resource came from a payload with every attribute its identity needs, also
\* when a transform takes one out of the body; and the directives of the
\* operation held of the body and the path's fields, not of the source.
SentWasComplete ==
    work.part = "exchange" /\ work.sent /\ Writes(work.in.op) =>
       /\ Structured(work.in.type) =>
             /\ work.in.alias \in work.in.attrs
             /\ work.in.op = "update" => work.in.id \in work.in.attrs
             /\ work.in.validate \subseteq
                   (work.in.attrs \ work.in.exclude) \cup work.in.derived
       /\ ~Structured(work.in.type) =>
             work.body = work.in.attrs /\ work.in.validate = {}

\* applyOpenAPIFallback: the OpenAPI document never overrides a method the
\* metadata declare, what is sent is a method the document offers, and the
\* method found in it fits the operation.
MethodAgreed ==
    work.part = "exchange" /\ work.sent =>
       /\ work.in.method # "" => work.method = work.in.method
       /\ LET item == FindOpenAPIPathItem(work.in.paths)
          IN item.known => work.method \in item.methods
       /\ work.in.method = "" =>
             CASE Writes(work.in.op) -> work.method \in {"post", "put", "patch"}
               [] work.in.op = "delete" -> work.method = "delete"
               [] OTHER -> work.method = "get"

\* decodeResponseBody: a body announced as octet-stream stays binary, one
\* announced as JSON that is JSON is structured, and an object under a text
\* header is structured exactly when the resource is.
DecodedAsAnnounced ==
    work.part = "response" /\ work.stage = "done"
       /\ work.in.body \in {"object", "words", "bytes"} =>
       /\ work.in.header = "octet-stream" => work.value = "binary"
       /\ work.in.header = "json" /\ work.in.body = "object" => work.value = "structured"
       /\ work.in.header = "text" /\ work.in.fallback = "text" => work.value = "text"
       /\ work.in.header = "text" /\ work.in.fallback = "json"
             => work.value = IF work.in.body = "object" THEN "structured" ELSE "text"

\* decodeListResponse: the same items in another order, or in another envelope,
\* give the same list, in which no alias occurs twice and none is missing.
ListIsDeterministic ==
    work.part = "list" /\ work.stage = "done" /\ work.error = "" =>
       /\ \A i, j \in DOMAIN work.listed : i < j => work.listed[i] < work.listed[j]
       /\ \A i \in DOMAIN work.in.items :
             \E j \in DOMAIN work.listed : work.listed[j] = work.in.items[i]
       /\ Len(work.listed) = Len(work.in.items)

\* validateSchemaCombiners: an allOf of object schemas is one schema.  A closed
\* branch accepts the properties the other branches know, each branch checks
\* what it declares, and nothing else is accepted; a reference that leads back
\* to itself is refused rather than followed forever.
AllOfIsOneSchema ==
    work.part = "schema" /\ work.stage = "done" =>
       LET doc == work.in.doc
           root == doc["root"]
           value == work.in.value
           fields == DOMAIN value.fields
           known == UNION {doc[n].required \cup DOMAIN doc[n].properties : n \in root.allOf}
           hop[i \in 0..Cardinality(DOMAIN doc)] ==
              IF i = 0 THEN "root"
              ELSE IF doc[hop[i - 1]].ref = "" THEN hop[i - 1] ELSE doc[hop[i - 1]].ref
       IN /\ root.allOf # {} /\ ~root.closed =>
             (work.value = "valid") =
                (/\ value.kind = "object"
                 /\ \A n \in root.allOf :
                       /\ doc[n].required \subseteq fields
                       /\ \A f \in fields \cap DOMAIN doc[n].properties :
                             value.fields[f].kind = "string"
                       /\ doc[n].closed => fields \subseteq known)
          /\ doc[hop[Cardinality(DOMAIN doc)]].ref # "" => work.value = "invalid"

\* swagger2OperationRequestBodySchema: an operation that takes a body, by its
\* own parameters or its path's, gets a request body with the media types that
\* apply to it; one that takes none gets none.
RequestBodyOfEach ==
    work.part = "swagger" /\ work.stage = "done" =>
       \A i \in DOMAIN work.in.operations :
          LET op == work.in.operations[i]
              takes == op.bodySchema # "" \/ op.pathBodySchema # ""
          IN /\ takes = (work.requests[i] # {})
             /\ takes /\ op.consumes # {} => work.requests[i] = op.consumes

\* agents/reference/managed-service.md:34, Swagger 2.0 operations "MUST be
\* normalized so media-default inference ... behave identically": every
\* operation's response has the media types the operation produces.
ResponseOfEach ==
    work.part = "swagger" /\ work.stage = "done" =>
       \A i \in DOMAIN work.in.operations :
          work.responses[i] =
             EffectiveMediaTypes(work.in.operations[i].produces, work.in.produces)
============================================================================
