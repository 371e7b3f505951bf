------------------------------ MODULE Drafting ------------------------------
(***************************************************************************)
(* What the RFP tasks compute (data/pipelines/rfp_intake): the intake      *)
(* graph, the response graph with one worker per department that drafts    *)
(* and evaluates in a loop, and the arbitration that precedes approval.    *)
(* RfpWorker has the tasks around them, where each result is a choice;     *)
(* here the results are computed.  The model's answers are inputs, and     *)
(* any call may fail on every provider.                                    *)
(*                                                                         *)
(* A draft is what the evaluators look for in it; amounts are in           *)
(* thousands of dollars.                                                   *)
(***************************************************************************)
EXTENDS Generation, Integers, SequencesExt

CONSTANTS
    Documents,   \* what an upload may be, see Document
    SlotSettings,\* the providers that may be configured
    Extracted,   \* the departments the model may name
    Budgets,
    Aspects,     \* the key aspects a department may be given
    Drafts,      \* the drafts a department may be given, see Draft
    Figures      \* the numbers the model may find in one, see Numbers

ALL_DEPARTMENTS == <<"marketing", "operaciones", "procurement", "training">>
ITERATION_LIMIT == 3
SETUP_SLA_MIN_DAYS == 10
CEO_USD_THRESHOLD == 50
NoFigure == -1

Departments_known == ToSet(ALL_DEPARTMENTS)
Document == [file : {"missing", "broken", "short", "text"}, scope : BOOLEAN,
             terms : BOOLEAN, service : BOOLEAN]
Rules == {"dual_currency", "brand_pillars", "setup_sla", "no_competitors", "offer_validity"}
Draft == [readable : BOOLEAN, covers : SUBSET (Aspects \cup {"failed"}), price : BOOLEAN,
          currencies : SUBSET {"COP", "USD"}, pillars : BOOLEAN, days : Int,
          rival : BOOLEAN, validity : BOOLEAN]
Numbers == [cost : Int, setup_days : Int, price_per_cover : Int]

ASSUME DraftingAssumption ==
    /\ Documents \subseteq Document /\ Drafts \subseteq Draft /\ Figures \subseteq Numbers
    /\ SlotSettings \subseteq Seq(SlotStates)
    /\ Extracted \subseteq Seq(STRING) /\ Budgets \subseteq Int

VARIABLES
    rfp,       \* the document and what is configured
    step,      \* where the ticket is
    metadata,  \* [budget, needed], needed as the model listed it
    sections,  \* department_sections of the intake graph
    worker,    \* the response worker of each department
    numbers,   \* the figures found per department
    arbitration,
    cause      \* the intake node whose call failed on every provider

drafting_vars == <<rfp, step, metadata, sections, worker, numbers, arbitration, cause>>

NoNumbers == [cost |-> NoFigure, setup_days |-> NoFigure, price_per_cover |-> NoFigure]
NoArbitration == [triggers |-> {}, forced |-> {}, ceo |-> FALSE, feedback |-> <<>>]
NoDraft == [readable |-> FALSE, covers |-> {}, price |-> FALSE, currencies |-> {},
            pillars |-> FALSE, days |-> NoFigure, rival |-> FALSE, validity |-> FALSE]

needed == ToSet(metadata.needed)

\* Some provider is configured; whether one answers is not known.
Reachable == generation_tiers(rfp.slots) # <<>>
Down(node) == cause' = node

(***************************************************************************)
(* The evaluators.                                                         *)
(***************************************************************************)
parse_budget_usd_ceiling(budget) == budget

missing_aspects(draft, aspects) == aspects \ draft.covers

failed_rules(draft) ==
    {rule \in Rules :
        \/ rule = "dual_currency" /\ draft.price /\ draft.currencies # {"COP", "USD"}
        \/ rule = "brand_pillars" /\ ~draft.pillars
        \/ rule = "setup_sla" /\ draft.days # NoFigure /\ draft.days < SETUP_SLA_MIN_DAYS
        \/ rule = "no_competitors" /\ draft.rival
        \/ rule = "offer_validity" /\ ~draft.validity}

evaluate_all(draft, aspects, budget) ==
    [overall_pass |-> /\ draft.readable
                      /\ missing_aspects(draft, aspects) = {}
                      /\ failed_rules(draft) = {},
     ceo |-> /\ parse_budget_usd_ceiling(budget) # NoFigure
             /\ parse_budget_usd_ceiling(budget) > CEO_USD_THRESHOLD]

(***************************************************************************)
(* The intake graph.                                                       *)
(***************************************************************************)
prefilter_validity(doc) ==
    CASE doc.scope /\ (doc.terms \/ doc.service) -> "valid"
      [] ~doc.scope /\ ~doc.terms                -> "invalid"
      [] OTHER                                   -> "ambiguous"

convert_node ==
    /\ step = "convert"
    /\ step' = IF rfp.doc.file = "text" THEN "classify" ELSE "discarded"
    /\ UNCHANGED <<rfp, metadata, sections, worker, numbers, arbitration, cause>>

\* An ambiguous document is asked about; no answer discards it.
classify_node ==
    /\ step = "classify"
    /\ \/ /\ prefilter_validity(rfp.doc) = "valid"
          /\ step' = "extract" /\ UNCHANGED cause
       \/ /\ prefilter_validity(rfp.doc) = "invalid"
          /\ step' = "discarded" /\ UNCHANGED cause
       \/ /\ prefilter_validity(rfp.doc) = "ambiguous" /\ Reachable
          /\ step' \in {"extract", "discarded"} /\ UNCHANGED cause
       \/ /\ prefilter_validity(rfp.doc) = "ambiguous"
          /\ step' = "discarded" /\ Down("classify")
    /\ UNCHANGED <<rfp, metadata, sections, worker, numbers, arbitration>>

\* Departments that there are not are left out, repeated ones are kept.
WithMarketing(named) ==
    LET allowed == Where(named, Departments_known)
    IN  IF "marketing" \in ToSet(allowed) THEN allowed ELSE <<"marketing">> \o allowed

\* The node does not catch: without an answer the task discards the ticket.
extract_node ==
    /\ step = "extract"
    /\ \/ /\ Reachable
          /\ \E named \in Extracted, budget \in Budgets :
                metadata' = [budget |-> budget, needed |-> WithMarketing(named)]
          /\ step' = "orchestrator" /\ UNCHANGED cause
       \/ step' = "discarded" /\ Down("extract") /\ UNCHANGED metadata
    /\ UNCHANGED <<rfp, sections, worker, numbers, arbitration>>

orchestrator_node ==
    /\ step = "orchestrator"
    /\ metadata' = IF metadata.needed # <<>> THEN metadata
                   ELSE [metadata EXCEPT !.needed = <<"marketing">>]
    /\ step' = "workers"
    /\ UNCHANGED <<rfp, sections, worker, numbers, arbitration, cause>>

Has_section(d) == \E s \in sections : s.department_id = d

\* The four run side by side; a failed call leaves a note in place of aspects.
department_worker(d) ==
    /\ step = "workers" /\ d \in needed /\ ~Has_section(d)
    /\ \/ /\ Reachable
          /\ \E a \in SUBSET Aspects :
                sections' = sections \cup {[department_id |-> d, key_aspects |-> a]}
       \/ sections' = sections \cup {[department_id |-> d, key_aspects |-> {"failed"}]}
    /\ UNCHANGED <<rfp, step, metadata, worker, numbers, arbitration, cause>>

synthesize_node ==
    /\ step = "workers"
    /\ \A d \in needed : Has_section(d)
    /\ step' = "intake_complete"
    /\ UNCHANGED <<rfp, metadata, sections, worker, numbers, arbitration, cause>>

(***************************************************************************)
(* The response graph.                                                     *)
(***************************************************************************)
key_aspects_for(d) ==
    UNION {s.key_aspects : s \in {x \in sections : x.department_id = d}}

\* The first evaluation of a worker reads the compliance rules; without them
\* it raises, and so does the graph.
run_response ==
    /\ step = "intake_complete"
    /\ IF rfp.rulebook
       THEN /\ step' = "drafting"
            /\ worker' = [d \in needed |-> [iterations |-> 0, draft |-> NoDraft, done |-> FALSE,
                                            eval |-> evaluate_all(NoDraft, {}, NoFigure),
                                            review |-> FALSE]]
       ELSE step' = "response_failed" /\ UNCHANGED worker
    /\ UNCHANGED <<rfp, metadata, sections, numbers, arbitration, cause>>

\* Mutant: the evaluation is the one of the attempt before.
AttemptedLate(w, draft, d) ==
    LET i == w.iterations + 1
        eval == evaluate_all(w.draft, key_aspects_for(d), metadata.budget)
    IN  [iterations |-> i, draft |-> draft, eval |-> eval,
         done |-> eval.overall_pass \/ i = ITERATION_LIMIT,
         review |-> ~eval.overall_pass /\ i = ITERATION_LIMIT]

\* One round of the loop: generate, evaluate, and stop or tell the generator.
AttemptedOnce(w, draft, d) ==
    LET i == w.iterations + 1
        eval == evaluate_all(draft, key_aspects_for(d), metadata.budget)
    IN  [iterations |-> i, draft |-> draft, eval |-> eval,
         done |-> eval.overall_pass \/ i = ITERATION_LIMIT,
         review |-> ~eval.overall_pass /\ i = ITERATION_LIMIT]

make_worker(d) ==
    /\ step = "drafting" /\ d \in DOMAIN worker /\ ~worker[d].done
    /\ \/ /\ Reachable
          /\ \E draft \in Drafts : worker' = [worker EXCEPT ![d] = AttemptedOnce(@, draft, d)]
       \/ worker' = [worker EXCEPT ![d] = AttemptedOnce(@, NoDraft, d)]
    /\ UNCHANGED <<rfp, step, metadata, sections, numbers, arbitration, cause>>

join_node ==
    /\ step = "drafting" /\ \A d \in DOMAIN worker : worker[d].done
    /\ step' = "under_evaluation"
    /\ UNCHANGED <<rfp, metadata, sections, worker, numbers, arbitration, cause>>

(***************************************************************************)
(* The arbitration.                                                        *)
(***************************************************************************)
\* One department after the other; no answer means no figures.
extract_section_numbers(d) ==
    /\ step = "under_evaluation"
    /\ d \in needed \ DOMAIN numbers
    /\ \A k \in DOMAIN metadata.needed :
          metadata.needed[k] = d \/ metadata.needed[k] \in DOMAIN numbers
          \/ \E j \in 1..k - 1 : metadata.needed[j] = d
    /\ \/ /\ Reachable
          /\ \E f \in Figures : numbers' = [e \in DOMAIN numbers \cup {d} |->
                                               IF e = d THEN f ELSE numbers[e]]
       \/ numbers' = [e \in DOMAIN numbers \cup {d} |->
                            IF e = d THEN NoNumbers ELSE numbers[e]]
    /\ UNCHANGED <<rfp, step, metadata, sections, worker, arbitration, cause>>

SetupSlaBreach(d) ==
    numbers[d].setup_days # NoFigure /\ numbers[d].setup_days < SETUP_SLA_MIN_DAYS

CostVsFeasibility ==
    /\ {"operaciones", "procurement"} \subseteq DOMAIN numbers
    /\ LET price == numbers["operaciones"].price_per_cover
           cost == numbers["procurement"].cost
       IN  price # NoFigure /\ cost # NoFigure /\ cost > price

CeoThreshold ==
    \/ /\ parse_budget_usd_ceiling(metadata.budget) # NoFigure
       /\ parse_budget_usd_ceiling(metadata.budget) > CEO_USD_THRESHOLD
    \/ \E d \in DOMAIN worker : worker[d].eval.ceo

ForcedBy(d) ==
    {t \in {"setup-sla-breach", "cost-vs-feasibility"} :
        \/ t = "setup-sla-breach" /\ SetupSlaBreach(d)
        \/ t = "cost-vs-feasibility" /\ d \in {"operaciones", "procurement"} /\ CostVsFeasibility}

run_arbitration ==
    /\ step = "under_evaluation" /\ DOMAIN numbers = needed
    /\ LET forced == {d \in needed : ForcedBy(d) # {}} IN
       arbitration' = [forced |-> forced, ceo |-> CeoThreshold,
                       triggers |-> UNION {ForcedBy(d) : d \in needed}
                                       \cup (IF CeoThreshold THEN {"ceo-threshold"} ELSE {}),
                       feedback |-> [d \in forced |-> ForcedBy(d)]]
    /\ step' = "arbitrated"
    /\ UNCHANGED <<rfp, metadata, sections, worker, numbers, cause>>

-----------------------------------------------------------------------------
DraftingInit ==
    /\ rfp \in [doc : Documents, slots : SlotSettings, rulebook : BOOLEAN]
    /\ step = "convert"
    /\ metadata = [budget |-> NoFigure, needed |-> <<>>]
    /\ sections = {}
    /\ worker = <<>> /\ numbers = <<>>
    /\ arbitration = NoArbitration
    /\ cause = "none"

DraftingNext ==
    \/ convert_node \/ classify_node \/ extract_node \/ orchestrator_node \/ synthesize_node
    \/ run_response \/ join_node \/ run_arbitration
    \/ \E d \in Departments_known :
          department_worker(d) \/ make_worker(d) \/ extract_section_numbers(d)

-----------------------------------------------------------------------------
\* A text the triage accepts is given up only when a call failed; one that it
\* refuses costs no call.
DiscardedForCause ==
    step = "discarded" =>
        CASE rfp.doc.file # "text" -> cause = "none"
          [] OTHER -> /\ prefilter_validity(rfp.doc) = "valid" => cause = "extract"
                      /\ prefilter_validity(rfp.doc) = "invalid" => cause = "none"

\* Each department that is needed gets one section, and marketing is.
OneSectionEach ==
    step \in {"intake_complete", "drafting", "under_evaluation", "arbitrated"} =>
        /\ "marketing" \in needed
        /\ Cardinality(sections) = Cardinality(needed)
        /\ {s.department_id : s \in sections} = needed

\* A worker stops with a draft that satisfies every evaluator, or with one
\* that does not after the last round, which is flagged for review.
FlaggedOrPassed ==
    \A d \in DOMAIN worker :
        worker[d].done =>
            LET own == evaluate_all(worker[d].draft, key_aspects_for(d), metadata.budget) IN
            /\ worker[d].review <=> ~own.overall_pass
            /\ worker[d].review => worker[d].iterations = ITERATION_LIMIT

\* A department is sent back for a figure that was found; the CEO is asked
\* exactly for the budgets above the threshold; and a draft that promises a
\* setup below the minimum is sent back or flagged, whether or not its figure
\* was found.
ArbitrationJustified ==
    step = "arbitrated" =>
        /\ arbitration.ceo <=> metadata.budget > CEO_USD_THRESHOLD
        /\ \A d \in arbitration.forced :
              \E n \in {numbers[e] : e \in needed} : n # NoNumbers
        /\ \A d \in needed :
              /\ d \in arbitration.forced => arbitration.feedback[d] # {}
              /\ worker[d].draft.days \in 0..SETUP_SLA_MIN_DAYS - 1 =>
                    worker[d].review \/ d \in arbitration.forced

(* A draft goes to approval judged: the ticket was not given up without    *)
(* cause, each department has one section, every draft that fails an       *)
(* evaluator carries the flag, and the arbitration rests on figures.       *)
DraftsJudged ==
    DiscardedForCause /\ OneSectionEach /\ FlaggedOrPassed /\ ArbitrationJustified
=============================================================================
