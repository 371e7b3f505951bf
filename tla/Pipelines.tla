----------------------------- MODULE Pipelines -----------------------------
(***************************************************************************)
(* The pipelines that the services run and that keep no state of the       *)
(* tickets: what the RFP tasks compute, the indexes the agents answer      *)
(* from, and the figures of the weekly report.  They share nothing but the *)
(* providers of Generation, and a behaviour is about one of the three.     *)
(***************************************************************************)
EXTENDS Drafting, Knowledge, WeeklyKpis

CONSTANT Topics   \* the pipelines that are looked at

ASSUME PipelinesAssumption == Topics \subseteq {"rfp", "knowledge", "kpis"}

VARIABLE topic

pipelines_vars == <<topic, drafting_vars, knowledge_vars, kpis_vars>>

\* What is configured for the pipelines that are not looked at is no matter.
PipelinesInit ==
    /\ topic \in Topics
    /\ DraftingInit /\ KnowledgeInit /\ KpisInit
    /\ topic # "rfp" => rfp = CHOOSE r \in [doc : Documents, slots : SlotSettings,
                                            rulebook : {TRUE}] : TRUE
    /\ topic # "knowledge" =>
          /\ slots = CHOOSE s \in TierSettings : TRUE
          /\ corpus = CHOOSE c \in [PROFILES -> [version : {1},
                                     source : UNION {Sources[p] : p \in PROFILES}]] :
                          \A p \in PROFILES : c[p].source \in Sources[p]

PipelinesNext ==
    /\ UNCHANGED topic
    /\ \/ topic = "rfp" /\ DraftingNext /\ UNCHANGED <<knowledge_vars, kpis_vars>>
       \/ topic = "knowledge" /\ KnowledgeNext /\ UNCHANGED <<drafting_vars, kpis_vars>>
       \/ topic = "kpis" /\ KpisNext /\ UNCHANGED <<drafting_vars, knowledge_vars>>

PipelinesSpec == PipelinesInit /\ [][PipelinesNext]_pipelines_vars
=============================================================================
