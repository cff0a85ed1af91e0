-------------------------------- MODULE Apis --------------------------------
(***************************************************************************)
(* createAPI() of src/src/apis/definitions.ts: a key, a version, the       *)
(* layouts of its two messages and whether their headers have a tag buffer.*)
(***************************************************************************)
EXTENDS Wire

MakeApi(key, version, request, response, requestTags, responseTags) ==
    [key |-> key, version |-> version, request |-> request, response |-> response,
     requestTags |-> requestTags, responseTags |-> responseTags]

Api(key, version, request, response) ==
    MakeApi(key, version, request, response, TRUE, TRUE)
HeaderlessApi(key, version, request, response) ==
    MakeApi(key, version, request, response, TRUE, FALSE)
PlainApi(key, version, request, response) ==
    MakeApi(key, version, request, response, FALSE, FALSE)
=============================================================================
