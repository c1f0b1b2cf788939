----------------------------- MODULE Endpoints ------------------------------
(***************************************************************************)
(* The two services of the server on their one event loop: the storage     *)
(* (Access) and webfinger, which tells clients of it.  Both look at the    *)
(* same passwd database, which changes between requests.                   *)
(***************************************************************************)
EXTENDS Access, Webfinger

ASSUME EndpointsAssumption == Account = User /\ None = Nil

VARIABLES
    enabled,  \* rs_webfinger_enabled: there is an --auth-uri
    found     \* if the last step was webfinger's: its answer, and if the lookup failed

endpointVars == <<vars, enabled, found>>

EndpointsInit == Init /\ enabled \in BOOLEAN /\ found = Nil

Find(method, resource) ==
    /\ pc = "idle"
    /\ \/ ~enabled /\ found' = [answer |-> reject_webfinger(resource), failed |-> FALSE]
       \/ enabled /\ \E failing \in {FALSE, MayFail}, garbage \in Garbage :
             found' = [answer |-> handle_webfinger(users, method, resource, failing, garbage),
                       failed |-> failing]
    /\ UNCHANGED <<vars, enabled>>

EndpointsNext ==
    \/ Next /\ found' = Nil /\ UNCHANGED enabled
    \/ \E resource \in Resource \cup {Nil} : Find("GET", resource)
    \/ Find("OPTIONS", Nil) \/ Find("POST", Nil)   \* POST stands for every other method

EndpointsSpec == EndpointsInit /\ [][EndpointsNext]_endpointVars

-----------------------------------------------------------------------------
(***************************************************************************)
(* Properties                                                              *)
(***************************************************************************)

Finds == found' # Nil
Resolves == Finds /\ enabled /\ found'.answer.resource # Nil

\* Who has a storage can be found, however users come and go, so that a client
\* that follows the link right away is not told that there is no such user; no
\* account of another host is found, and a user who is there and not allowed
\* a storage is only if the passwd database does not answer.
UsersAreFound ==
    [][Resolves =>
         LET r == found'.answer.resource IN
         /\ r.wrong = Nil /\ users[r.user] = "regular" => found'.answer.status = 200
         /\ found'.answer.status = 200 => r.wrong = Nil
         /\ found'.answer.status = 200 /\ users[r.user] = "system" => found'.failed]_endpointVars

\* rs-serve.h:81 "users with UIDs that don't pass this test don't exist for
\* rs-serve.", and webfinger.c:78 "check if user is valid": a user the storage
\* does not know is not announced.
UnknownUsersAreNotFound ==
    [][Resolves /\ found'.answer.status = 200 =>
         users[found'.answer.resource.user] = "regular"]_endpointVars
=============================================================================
