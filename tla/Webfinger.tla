----------------------------- MODULE Webfinger ------------------------------
(***************************************************************************)
(* src/handler/webfinger.c: which users of this host have a storage, and   *)
(* where.  A request is handled in one step of the event loop and changes  *)
(* nothing.                                                                *)
(***************************************************************************)
EXTENDS JsonWriter

CONSTANTS
    Account,  \* the local parts of resources
    None      \* nothing wrong with a resource; no resource, no entry, no body

\* A resource as process_resource() takes it apart: acct:user@RS_HOSTNAME,
\* unless there is something wrong with it.
Resource == [user : Account, wrong : {"escape", "scheme", "no @", "hostname", None}]

\* What user_get_uid() returns if there is no entry, or no answer, is -1 or
\* -2, the two greatest numbers of a uid_t.
user_get_uid(users, user, failing) ==
    CASE failing -> "-2"
      [] ~failing /\ users[user] = None -> "-1"
      [] ~failing /\ users[user] # None -> users[user]

\* Bug: whoever has an uid is allowed.
UID_ALLOWED_any(uid) == TRUE

UID_ALLOWED(uid) == uid # "system"

process_resource(users, resource, failing) ==
    /\ resource.wrong = None
    /\ UID_ALLOWED(user_get_uid(users, resource.user, failing))

\* sprintf(storage_uri_format, local_part) and sprintf(RS_AUTH_URI, local_part)
storage_uri(user) == <<"storage", user>>
auth_uri(user) == <<"auth", user>>

UserCalls(resource) ==
    << <<"subject", resource>>, <<"links">>, <<"[">>, <<"{">>,
       <<"rel", "remotestorage">>, <<"type", "RS_STORAGE_API">>, <<"href", storage_uri(resource.user)>>,
       <<"properties">>, <<"{">>,
       <<"RS_AUTH_METHOD", auth_uri(resource.user)>>,
       <<"auth-method", "RS_AUTH_METHOD">>, <<"auth-endpoint", auth_uri(resource.user)>>,
       <<"}">>, <<"}">>, <<"]">> >>

HostCalls ==
    << <<"subject", "RS_HOSTNAME">>, <<"links">>, <<"[">>, <<"{">>,
       <<"rel", "lrdd">>, <<"template", "lrdd_template">>, <<"}">>, <<"]">> >>

Answer(resource, status, json) == [resource |-> resource, status |-> status, json |-> json]

\* The writer at free_json().
Document(garbage, calls) ==
    LET json == Written(new_json(garbage), << <<"{">> >> \o calls \o << <<"}">> >>)
    IN [out |-> json.out, sp |-> json.sp]

\* reject_webfinger(), where there is no --auth-uri
reject_webfinger(resource) == Answer(resource, 501, None)

handle_webfinger(users, method, resource, failing, garbage) ==
    CASE method = "GET" /\ resource = None -> Answer(resource, 200, Document(garbage, HostCalls))
      [] method = "GET" /\ resource # None ->
            IF process_resource(users, resource, failing)
            THEN Answer(resource, 200, Document(garbage, UserCalls(resource)))
            ELSE Answer(resource, 404, Document(garbage, <<>>))
      [] method = "OPTIONS" -> Answer(resource, 204, None)
      [] OTHER -> Answer(resource, 405, None)
=============================================================================
