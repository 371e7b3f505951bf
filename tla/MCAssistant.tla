---------------------------- MODULE MCAssistant ----------------------------
EXTENDS Assistant

MCIdText == <<"1", "2", "3">>
MCManualText == <<"M-1", "M-2", "M-3">>
MCSeedRows == {[source |-> "2", status |-> "open"]}

MCSamePlace(a, b) == {a, b} \subseteq {"Miami", "miami"} \/ a = b

\* The last of them must not be stored.
MCSuggestions ==
    {[label |-> "Miami", clean |-> TRUE, poison |-> FALSE],
     [label |-> "miami", clean |-> FALSE, poison |-> FALSE],
     [label |-> "Miami", clean |-> TRUE, poison |-> TRUE]}

Asks(cues) == [cues |-> cues, ref |-> ""]

MemoryQuestions ==
    {Asks({"rag"}), Asks({"approve"}), Asks({"approve", "refuse"}),
     Asks({"approve", "edit", "secret"}), Asks({"approve", "asks", "rag"})}
GuardedQuestions ==
    {Asks({"blank"}), Asks({"recipe"}), Asks({"continues"}), Asks({"approve", "rag"}),
     Asks({"ticket"})}
TicketQuestions ==
    {[cues |-> {"ticket"}, ref |-> "2"],
     [cues |-> {"ticket", "rag"}, ref |-> "M-1"]}

MCQuestions == MemoryQuestions \cup GuardedQuestions \cup TicketQuestions

TicketScene(t) ==
    [turns |-> {t}, questions |-> TicketQuestions, asked |-> 1, suggestions |-> {},
     desk |-> TRUE, staff |-> {}, statuses |-> {"open", "discarded"}]
DeskScene ==
    [turns |-> {}, questions |-> {}, asked |-> 0, suggestions |-> {},
     desk |-> TRUE, staff |-> Handlers \ Callers, statuses |-> VALID_STATUSES]
MemoryScene(questions) ==
    [turns |-> Turns, questions |-> questions, asked |-> 3, suggestions |-> MCSuggestions,
     desk |-> FALSE, staff |-> {}, statuses |-> {}]
MCScenes == {TicketScene(CHOOSE t \in Turns : TRUE), DeskScene,
             MemoryScene(MemoryQuestions), MemoryScene(GuardedQuestions)}
=============================================================================
