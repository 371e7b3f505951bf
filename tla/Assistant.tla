----------------------------- MODULE Assistant -----------------------------
(***************************************************************************)
(* The support agent with the ticket tool it calls: SupportAgent's turns   *)
(* are callers of CompanyTools (data/pipelines/tools/ticket_lookup.py, a   *)
(* client of the MCP server), next to other clients of the server and the  *)
(* people at the incident desk.                                            *)
(***************************************************************************)
EXTENDS SupportAgent, CompanyTools

CONSTANTS
    MaxOtherCalls,\* tool calls of the other clients
    Scenes        \* what a behaviour is about: the turns, the questions, how many
                  \* of them, what the model may propose; whether the desk is open,
                  \* the threads that serve staff there and the statuses in use

ASSUME AssistantAssumption ==
    /\ MaxOtherCalls \in Nat
    /\ Turns \subseteq Callers /\ Turns \cap Writers = {}
    /\ Scenes \subseteq [turns : SUBSET Turns, questions : SUBSET Questions, asked : 0..MaxAsked,
                         suggestions : SUBSET Suggestions, desk : BOOLEAN,
                         staff : SUBSET (Handlers \ Callers), statuses : SUBSET VALID_STATUSES]

VARIABLES
    scene, others, \* of the behaviour: its scene, the other clients' calls
    told,   \* the incident and the status a turn was told by the tool
    seen    \* the incidents its reference named, with every status they had
            \* since the lookup began

assistant_vars == <<agent_vars, tool_vars, scene, others, told, seen>>

Nothing == <<0, "open">>

(***************************************************************************)
(* lookup_ticket: the call goes out, and comes back or is given up after   *)
(* its timeout, when the server goes on with it.                           *)
(***************************************************************************)
\* A question that names no ticket fails before any call.
_parse_ticket_input(t) ==
    /\ turn[t].ref = NoRef
    /\ LookupEnds(t, FALSE)
    /\ UNCHANGED <<tool_vars, told>>

_ainvoke(t) ==
    /\ turn[t].ref # NoRef
    /\ LookupBegins(t)
    /\ Begin(t, "check", turn[t].ref, "open")
    /\ UNCHANGED told

lookup_ticket(t) ==
    /\ InCall(t, "done")
    /\ IF AtNode(t, "lookup") /\ turn[t].tool = "asked"
       THEN /\ LookupEnds(t, call[t].result = "ok")
            /\ told' = [told EXCEPT ![t] =
                           IF call[t].result = "ok" THEN <<call[t].id, call[t].status>>
                                                    ELSE Nothing]
       ELSE UNCHANGED <<agent_vars, told>>
    /\ Collect(t)

\* Listing the tools has a timeout as well: then nothing was asked.
LookupTimesOut(t) ==
    /\ turn[t].ref # NoRef
    /\ ToolFault
    /\ LookupEnds(t, FALSE)
    /\ UNCHANGED <<desk_vars, token_vars, call, told>>

\* Another client of the server: its own callers, allowed to write or not.
OtherClient(c) ==
    \/ /\ others < MaxOtherCalls /\ others' = others + 1
       /\ \E tool \in {"create", "update", "stock"}, s \in scene.statuses, r \in ToSet(IdText) :
             /\ tool # "update" => r = IdText[1]
             /\ tool = "stock" => s = "open"
             /\ Begin(c, tool, r, s)
    \/ Collect(c) /\ UNCHANGED others

-----------------------------------------------------------------------------
NamedBy(rows, ref) ==
    {<<i, rows[i].status>> : i \in {j \in DOMAIN rows : ref \in {IdText[j], rows[j].source}}}

Watches ==
    seen' = [t \in Turns |->
                IF turn'[t].pc # "lookup" THEN {}
                ELSE seen[t] \cup NamedBy(incidents', turn'[t].ref)]

AssistantInit ==
    /\ AgentInit /\ ToolsInit
    /\ scene \in Scenes /\ others = 0
    /\ scene.desk => redis  \* no memory in these scenes: one choice will do
    /\ told = [t \in Turns |-> Nothing]
    /\ seen = [t \in Turns |-> {}]

AssistantNext ==
    /\ \/ /\ \/ \E t \in Turns : TurnStep(t, scene.suggestions)
             \/ /\ asked < scene.asked
                /\ \E t \in scene.turns, q \in scene.questions : Ask(t, q)
             \/ ~scene.desk /\ (SessionAges \/ EntryAges)
          /\ told' = [t \in Turns |-> IF turn'[t].pc = "idle" THEN Nothing ELSE told[t]]
          /\ UNCHANGED <<tool_vars, others>>
       \/ /\ \E t \in Turns : \/ _parse_ticket_input(t) \/ _ainvoke(t)
                               \/ lookup_ticket(t) \/ LookupTimesOut(t)
          /\ UNCHANGED others
       \/ /\ scene.desk
          /\ \/ \E c \in Callers : CallStep(c) /\ UNCHANGED others
             \/ TokenNext /\ UNCHANGED others
             \/ \E c \in Callers \ Turns : OtherClient(c)
             \/ /\ StaffNext(scene.staff, scene.statuses)
                /\ UNCHANGED <<token_vars, call, toolFaults, others>>
          /\ UNCHANGED <<agent_vars, told>>
    /\ Watches
    /\ UNCHANGED scene

AssistantSpec == AssistantInit /\ [][AssistantNext]_assistant_vars

-----------------------------------------------------------------------------
(* What a turn tells of a ticket is true: the incident is the one the      *)
(* question names, by its number or its source id, and it had that status  *)
(* at some moment of the lookup.  A lookup that was given up, refused or   *)
(* failed tells nothing.                                                   *)
TicketAnswersTrue ==
    [][\A t \in Turns :
          told'[t] # told[t] => told'[t] \in seen[t] \cup {Nothing}]_assistant_vars
=============================================================================
