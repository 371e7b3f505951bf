---------------------------- MODULE CompanyTools ----------------------------
(***************************************************************************)
(* The MCP server company-tools: its ticket and stock tools, and the       *)
(* service token with which they call the incident manager                 *)
(* (mcps/company-tools).  One process caches one token; tool calls run in  *)
(* threads of it and take the lock of the cache, which stays taken while a *)
(* new token is fetched.  A request that is answered 401 drops the token   *)
(* it used, if the cache still holds that one, and is sent once more.      *)
(***************************************************************************)
EXTENDS IncidentDesk, FiniteSets

CONSTANTS
    Callers,      \* tool calls that are served at once
    Writers,      \* callers in MCP_TICKETS_WRITE_ALLOWLIST
    Nobody,       \* the lock is free
    MaxTokens,    \* tokens issued in one behaviour
    MaxToolFaults \* failing acquisitions and requests of one behaviour

ASSUME CompanyToolsAssumption ==
    /\ Writers \subseteq Callers /\ Writers \subseteq Handlers
    /\ Nobody \notin Callers
    /\ {MaxTokens, MaxToolFaults} \subseteq Nat

VARIABLES
    issued,  \* tokens are numbered in the order the auth service issues them
    good,    \* the tokens the downstream services accept
    cached,  \* the cached token, or NoServiceToken
    due,     \* whether the cached token is past its renew_at
    lock,
    call,    \* what each tool call is doing
    toolFaults

token_vars == <<issued, good, cached, due, lock>>
tool_vars == <<desk_vars, token_vars, call, toolFaults>>

NoServiceToken == 0

NoCall == [pc |-> "idle", tool |-> "none", stage |-> "none", ref |-> "",
           want |-> "open", token |-> NoServiceToken,
           rejected |-> NoServiceToken, result |-> "none", id |-> 0, status |-> "open"]

InCall(c, pc) == call[c].pc = pc
Returns(c, result) ==
    call' = [call EXCEPT ![c] = [NoCall EXCEPT !.pc = "done", !.result = result]]
Finds(c, i) ==
    call' = [call EXCEPT ![c] = [NoCall EXCEPT !.pc = "done", !.result = "ok", !.id = i,
                                               !.status = incidents[i].status]]
ToolFault == toolFaults < MaxToolFaults /\ toolFaults' = toolFaults + 1

(***************************************************************************)
(* The tools.  A call without its scope, with a blank reference or an      *)
(* unknown status is refused before anything happens, and so is not here.  *)
(***************************************************************************)
require_scopes(c, tool) == tool \in {"check", "stock"} \/ c \in Writers

IsNumericRef(ref) == ref \in ToSet(IdText)

Begin(c, tool, ref, want) ==
    /\ InCall(c, "idle")
    /\ require_scopes(c, tool)
    /\ want \in VALID_STATUSES
    /\ call' = [call EXCEPT ![c] =
                   [NoCall EXCEPT !.pc = "token", !.tool = tool, !.ref = ref, !.want = want,
                                  !.stage = IF tool # "check" THEN tool
                                            ELSE IF IsNumericRef(ref) THEN "get" ELSE "list"]]
    /\ UNCHANGED <<desk_vars, token_vars, toolFaults>>

(***************************************************************************)
(* The token cache (clients/auth.py).                                      *)
(***************************************************************************)
service_access_token(c) ==
    /\ InCall(c, "token")
    /\ lock = Nobody
    /\ IF cached # NoServiceToken /\ ~due
       THEN /\ call' = [call EXCEPT ![c].pc = "send", ![c].token = cached]
            /\ UNCHANGED lock
       ELSE /\ lock' = c
            /\ call' = [call EXCEPT ![c].pc = "acquire"]
    /\ UNCHANGED <<desk_vars, issued, good, cached, due, toolFaults>>

_acquire_service_token(c) ==
    /\ InCall(c, "acquire")
    /\ issued < MaxTokens
    /\ issued' = issued + 1
    /\ good' = good \cup {issued'}
    /\ cached' = issued'
    /\ due' = FALSE
    /\ lock' = Nobody
    /\ call' = [call EXCEPT ![c].pc = "send", ![c].token = issued']
    /\ UNCHANGED <<desk_vars, toolFaults>>

\* No answer, another status than 200 or an answer of another shape; a due
\* token stays in the cache and is not handed out.
AcquireFails(c) ==
    /\ InCall(c, "acquire")
    /\ ToolFault
    /\ lock' = Nobody
    /\ Returns(c, "UPSTREAM_ERROR")
    /\ UNCHANGED <<desk_vars, issued, good, cached, due>>

\* Mutant: whatever token the cache holds by then is dropped.
InvalidateWhatever(c) ==
    /\ InCall(c, "drop")
    /\ lock = Nobody
    /\ cached' = NoServiceToken
    /\ due' = FALSE
    /\ call' = [call EXCEPT ![c].pc = "token"]
    /\ UNCHANGED <<desk_vars, issued, good, lock, toolFaults>>

_invalidate_if_current(c) ==
    /\ InCall(c, "drop")
    /\ lock = Nobody
    /\ IF cached = call[c].rejected
       THEN cached' = NoServiceToken /\ due' = FALSE
       ELSE UNCHANGED <<cached, due>>
    /\ call' = [call EXCEPT ![c].pc = "token"]
    /\ UNCHANGED <<desk_vars, issued, good, lock, toolFaults>>

TokenComesDue ==
    /\ cached # NoServiceToken /\ ~due
    /\ due' = TRUE
    /\ UNCHANGED <<desk_vars, issued, good, cached, lock, call, toolFaults>>

\* A token expires, or the auth service loses its key.
TokenDies(k) ==
    /\ k \in good
    /\ issued < MaxTokens
    /\ good' = good \ {k}
    /\ UNCHANGED <<desk_vars, issued, cached, due, lock, call, toolFaults>>

(***************************************************************************)
(* A request to the incident manager or the inventory service.             *)
(***************************************************************************)
Accepted(c) == InCall(c, "send") /\ call[c].token \in good

\* The retry of request_with_service_token; a second 401 is an answer.
Unauthorized(c) ==
    /\ InCall(c, "send")
    /\ call[c].token \notin good
    /\ IF call[c].rejected = NoServiceToken
       THEN call' = [call EXCEPT ![c].pc = "drop", ![c].rejected = call[c].token]
       ELSE Returns(c, "UPSTREAM_ERROR")
    /\ UNCHANGED <<desk_vars, token_vars, toolFaults>>

Named(ref) == {i \in DOMAIN incidents : IdText[i] = ref}

\* Mutant: the first incident of the list is taken for the one asked for.
FirstListed(c) ==
    \/ incidents # <<>> /\ Finds(c, 1)
    \/ incidents = <<>> /\ Returns(c, "NOT_FOUND")

_match_source_incident_id(c) ==
    LET matches == find_by_source_incident_id(call[c].ref)
    IN  \/ \E i \in matches : Finds(c, i)
        \/ matches = {} /\ Returns(c, "NOT_FOUND")

\* A number is looked up as an id, and then as a source id by a request of
\* its own.
check_ticket_status(c) ==
    /\ Accepted(c)
    /\ \/ /\ call[c].stage = "get"
          /\ \/ \E i \in Named(call[c].ref) : Finds(c, i)
             \/ /\ Named(call[c].ref) = {}
                /\ call' = [call EXCEPT ![c].pc = "token", ![c].stage = "list",
                                        ![c].rejected = NoServiceToken]
       \/ call[c].stage = "list" /\ _match_source_incident_id(c)
    /\ UNCHANGED <<desk_vars, token_vars, toolFaults>>

create_ticket(c) ==
    /\ Accepted(c) /\ call[c].stage = "create"
    /\ create_incident(call[c].want)
    /\ Returns(c, "ok")
    /\ UNCHANGED <<handler, patches, token_vars, toolFaults>>

update_ticket_status(c) ==
    /\ Accepted(c) /\ call[c].stage = "update"
    /\ LET i == CHOOSE j \in DOMAIN IdText : IdText[j] = call[c].ref
       IN  \/ /\ update_incident_status(c, i, call[c].want)
              /\ call' = [call EXCEPT ![c].pc = "patching"]
           \/ /\ i \notin DOMAIN incidents
              /\ Returns(c, "NOT_FOUND")
              /\ UNCHANGED desk_vars
           \/ /\ i \in DOMAIN incidents
              /\ ~validate_transition(incidents[i].status, call[c].want)
              /\ Returns(c, "VALIDATION_ERROR")
              /\ UNCHANGED desk_vars
    /\ UNCHANGED <<token_vars, toolFaults>>

StatusPatched(c) ==
    /\ InCall(c, "patching")
    /\ update_status_fields(c)
    /\ Returns(c, "ok")
    /\ UNCHANGED <<token_vars, toolFaults>>

\* Reading stock is a request like the others; every other inventory tool
\* is refused by _reject_write.
check_stock(c) ==
    /\ Accepted(c) /\ call[c].stage = "stock"
    /\ Returns(c, "ok")
    /\ UNCHANGED <<desk_vars, token_vars, toolFaults>>

\* No answer within TIMEOUT_S: the tool reports an error, and what the
\* request asked for is done all the same or not at all; a status change
\* may be done later.
RequestTimesOut(c) ==
    /\ call[c].pc \in {"send", "patching"}
    /\ ToolFault
    /\ Returns(c, "UPSTREAM_ERROR")
    /\ \/ /\ Accepted(c) /\ call[c].stage = "create"
          /\ create_incident(call[c].want)
          /\ UNCHANGED <<handler, patches>>
       \/ UNCHANGED desk_vars
    /\ UNCHANGED token_vars

\* The incident manager completes a status change whose caller has left.
PatchWithoutCaller(c) ==
    /\ ~InCall(c, "patching")
    /\ update_status_fields(c)
    /\ UNCHANGED <<token_vars, call, toolFaults>>

Collect(c) ==
    /\ InCall(c, "done")
    /\ call' = [call EXCEPT ![c] = NoCall]
    /\ UNCHANGED <<desk_vars, token_vars, toolFaults>>

-----------------------------------------------------------------------------
ToolsInit ==
    /\ DeskInit
    /\ issued = 0 /\ good = {} /\ cached = NoServiceToken /\ due = FALSE
    /\ lock = Nobody
    /\ call = [c \in Callers |-> NoCall]
    /\ toolFaults = 0

CallStep(c) ==
    \/ service_access_token(c) \/ _acquire_service_token(c) \/ AcquireFails(c)
    \/ _invalidate_if_current(c) \/ Unauthorized(c) \/ check_ticket_status(c)
    \/ create_ticket(c) \/ update_ticket_status(c) \/ StatusPatched(c)
    \/ check_stock(c) \/ RequestTimesOut(c)
    \/ c \in Writers /\ PatchWithoutCaller(c)

TokenNext == TokenComesDue \/ \E k \in 1..MaxTokens : TokenDies(k)

-----------------------------------------------------------------------------
(* The cache loses a token only after that token was rejected, never       *)
(* because of an answer to an older one, and a request that was rejected   *)
(* is not sent again with the token it was rejected for.                   *)
TokenDiscipline ==
    [][/\ cached # NoServiceToken /\ cached' = NoServiceToken => cached \notin good
       /\ \A c \in Callers :
             call'[c].pc = "send" => call'[c].token # call'[c].rejected]_tool_vars
=============================================================================
