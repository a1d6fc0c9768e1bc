------------------------------ MODULE StudioGraph ------------------------------
(* graph.py: the nodes of a Studio run, their calls to the models, and what  *)
(* they hand to each other and to later runs.  Prompts, papers and prose are *)
(* left out; of the state the model keeps what a node branches on.           *)
EXTENDS LlmCall, FiniteSets, Sequences, SequencesExt, FiniteSetsExt

CONSTANTS
    Order,          \* ALL_REVIEWERS, a sequence; the devil is one of them
    Devil,
    MinReviewers, MaxReviewers,
    Ratings,        \* what a card or the meta reviewer can give; 0 is none
    Threshold,      \* of the variance, for a second round
    Selections,     \* lists of names that a model may select
    Papers,         \* found papers that have an abstract
    Sections,       \* of the paper that M7 writes
    Variants, NoVariant,    \* rows of the table prompts
    MaxRuns,        \* of the sandbox
    MaxAsks,        \* bounds the calls of run_pipeline
    Starts          \* settings, keys, arguments and table that a process may start with

Reviewers == ToSet(Order)
Jobs == Reviewers \union Papers \union Sections
Requests == {s.request : s \in Starts}

ASSUME StudioGraphAssumption ==
    /\ Contexts = {"run", "node", "loop"} \union Jobs /\ Threads = Jobs
    /\ Order \in Seq(Reviewers) /\ Devil \in Reviewers
    /\ MinReviewers \in Nat /\ MaxReviewers \in Nat
    /\ MinReviewers <= Len(Order) /\ Len(Order) <= MaxReviewers
    /\ \A i, j \in DOMAIN Order : Order[i] = Order[j] => i = j
    /\ 0 \in Ratings /\ Ratings \subseteq Nat /\ NoVariant \notin Variants
    /\ MaxRuns \in Nat \ {0} /\ MaxAsks \in Nat \ {0}
    /\ \A s \in Starts :
          /\ s.request.skip \in BOOLEAN /\ s.request.clarified \in 0..3 /\ s.keyed \in BOOLEAN
          /\ \A v \in Variants : s.prompts[v].runs \in Nat /\ s.prompts[v].total \in Nat

VARIABLES
    config,         \* the settings of the process
    request,        \* arguments of the present run
    ask,            \* number of the present run
    at, step,       \* the node, and where in it
    count,          \* its loop counter
    state,          \* ResearchState
    jobs,           \* threads that the node waits for
    round,          \* locals of the roundtable
    disk, ran,      \* version of the files in saved_to; the one this run ran last
    broke,          \* whether m6b gave up without a run of what is there (history)
    prompts,        \* the table prompts, which outlives a run
    used, rated     \* variant and rating of this run (history)

place == <<at, step, count>>
locals == <<jobs, round>>
files == <<disk, ran, broke>>
history == <<used, rated>>
inputs == <<config, request, ask>>
vars == <<llm, inputs, place, state, locals, files, prompts, history>>

Metadata == [skip : BOOLEAN, clarified : 0..3, variant : Variants \union {NoVariant}]
ResearchState ==
    [blank : BOOLEAN, rating : Ratings, experiment : BOOLEAN, code : BOOLEAN,
     validated : {"none", "ok", "failed"}, papers : BOOLEAN, metadata : Metadata]
NoMetadata == [skip |-> FALSE, clarified |-> 0, variant |-> NoVariant]
NoRound == [chosen |-> {}, cards |-> <<>>, again |-> FALSE, rating |-> 0]
Nothing == <<>>         \* the empty patch

\* LangGraph: the fields that are given replace those of the checkpoint.
Updated(old, new) ==
    [f \in DOMAIN old \union DOMAIN new |-> IF f \in DOMAIN new THEN new[f] ELSE old[f]]

\* Mutant: a field left out keeps the value of the checkpoint.
Unrated(r) ==
    [blank |-> FALSE, experiment |-> FALSE, code |-> FALSE, validated |-> "none",
     metadata |-> [NoMetadata EXCEPT !.skip = r.skip, !.clarified = r.clarified]]
\* make_initial_state: every field that has no reducer is given anew.
Fresh(r) == Updated(Unrated(r), [rating |-> 0])

Init ==
    /\ LlmInit
    /\ \E s \in Starts : /\ config = s.config /\ request = s.request
                         /\ keyed = s.keyed /\ prompts = s.prompts
    /\ ask = 1 /\ at = "appendix_recall" /\ step = "start" /\ count = 0
    /\ state = Updated([papers |-> FALSE, rating |-> 0], Fresh(request))
    /\ jobs = {} /\ round = NoRound
    /\ disk = 0 /\ ran = 0 /\ broke = FALSE
    /\ used = NoVariant /\ rated = 0

-----------------------------------------------------------------------------
(* build_graph and safe_node.                                              *)

Nodes == <<"appendix_recall", "m0", "user_select_topic", "m1", "m2", "m2.5", "m3", "m4",
           "m5", "m5.5", "m6a", "m6b", "m7", "appendix_reflect">>
Left(c) == {n \in ToSet(Nodes) : \/ ~c.m0 /\ n \in {"m0", "user_select_topic"}
                                 \/ ~c.access /\ n = "m2.5"
                                 \/ ~c.gate /\ n = "m5.5"}
Index(n) == CHOOSE k \in DOMAIN Nodes : Nodes[k] = n
Later(c, n) == {k \in DOMAIN Nodes : k > Index(n) /\ Nodes[k] \notin Left(c)}
After(c, n) ==
    LET next == IF Later(c, n) = {} THEN "end" ELSE Nodes[Min(Later(c, n))]
    IN  IF next = "m6b" /\ c.interrupt THEN "paused" ELSE next
Edges == [c \in {s.config : s \in Starts} |-> [n \in ToSet(Nodes) |-> After(c, n)]]
Following(n) == Edges[config][n]

\* Fields of which the last reader is behind are let go, to have fewer states.
LastReader == [blank |-> "m7", experiment |-> "m6a", code |-> "m6b"]
Unread == [n \in ToSet(Nodes) \union {"paused", "end"} |->
    {f \in DOMAIN LastReader : n \notin ToSet(Nodes) \/ Index(n) > Index(LastReader[f])}]

In(n, s) == at = n /\ step = s
Stay == UNCHANGED <<inputs, at, state>>

\* The contexts of the node and below are dropped, also the node's, unless
\* LangGraph runs nodes in the context of their caller.
Leave ==
    LET kept == IF config.shared THEN spent["node"] ELSE spent["run"]
    IN  /\ spent' = [c \in Contexts |-> IF c \in {"run", "node"} THEN kept ELSE 0]
        /\ answer' = [c \in Contexts |-> "none"]
        /\ UNCHANGED <<call, keyed>>

Return(patch) ==
    /\ at' = Following(at) /\ step' = "start" /\ count' = 0
    /\ state' = [f \in DOMAIN state |->
          IF f \in Unread[Following(at)] THEN Unrated(request)[f]
          ELSE IF f \in DOMAIN patch THEN patch[f] ELSE state[f]]
    /\ jobs' = {} /\ round' = NoRound
    /\ Leave /\ UNCHANGED inputs

\* Mutant: the exception leaves the graph.
Escape == step' = "raised" /\ UNCHANGED <<llm, count, locals>> /\ Stay
\* safe_node: the exception becomes a line of error_log.
Raise == Return(Nothing)

Keep == UNCHANGED <<files, prompts, history>>
Quit(n, s, results, patch) == In(n, s) /\ Got("node", results) /\ Return(patch) /\ Keep

\* A question of the node itself, or of its event loop.
Question(kind, s) ==
    /\ Ask("node", kind) /\ step' = s
    /\ UNCHANGED <<spent, count, locals>> /\ Stay
LoopQuestion(kind, s) ==
    /\ Ask("loop", kind) /\ step' = s
    /\ UNCHANGED <<spent, count, locals>> /\ Stay
\* asyncio.run copies the context of the node.
EnterLoop(kind, s) ==
    /\ Ask("loop", kind) /\ step' = s
    /\ spent' = [spent EXCEPT !["loop"] = spent["node"]]
    /\ UNCHANGED <<count, locals>> /\ Stay

-----------------------------------------------------------------------------
(* asyncio.to_thread and gather: a thread counts in a copy of its own.     *)

FanOut(J, kind, s) ==
    LET base == IF step = "start" \/ at # "m4" THEN spent["node"] ELSE spent["loop"]
    IN  /\ AskAll(J, kind) /\ jobs' = J /\ step' = s
        /\ spent' = [c \in Contexts |-> IF c \in J \union {"loop"} THEN base ELSE spent[c]]
        /\ UNCHANGED count /\ Stay

\* What a thread does not catch, gather raises, once all have ended.
Gathered(n, s) == In(n, s) /\ \A j \in jobs : Got(j, {"ok", "failed", "bad"})
Raising(results) == \E j \in jobs : answer[j] \in results

-----------------------------------------------------------------------------
(* Appendix A recall, M0, M1, M2, M2.5, M3.                                *)

Whatever == {"ok", "failed", "bad"}

\* The tables of memories and skills are shared with other processes: a lookup
\* finds any or nothing.
Recall ==
    /\ In("appendix_recall", "start") /\ Keep
    /\ Question("embed", "recalled") \/ Return(Nothing)
Recalled == Quit("appendix_recall", "recalled", Whatever, Nothing)

\* A topic, if there is one, replaces the question, which is never empty.
Discover ==
    /\ In("m0", "start")
    /\ \/ ~state.metadata.skip /\ Question("json", "topics") /\ Keep
       \/ state.metadata.skip /\ Return(Nothing) /\ Keep
Discovered == Quit("m0", "topics", Whatever, Nothing)
SelectTopic == In("user_select_topic", "start") /\ Return(Nothing) /\ Keep

Refine == In("m1", "start") /\ Question("json", "specific") /\ Keep
\* check_specificity is asked again while answers of the user are left.
Clarify ==
    /\ In("m1", "specific") /\ Got("node", {"ok"})
    /\ count < state.metadata.clarified /\ count < 2
    /\ Ask("node", "json") /\ count' = count + 1
    /\ UNCHANGED <<step, spent, locals>> /\ Stay /\ Keep
BuildPico == In("m1", "specific") /\ Got("node", {"ok"}) /\ Question("json", "pico") /\ Keep
Refined ==
    \/ \E b \in BOOLEAN : Quit("m1", "pico", {"ok"}, [blank |-> b])
    \/ Quit("m1", "pico", {"failed", "bad"}, Nothing)
    \/ Quit("m1", "specific", {"failed", "bad"}, Nothing)

\* retrieve_node: papers that the thread already has are not looked for.  A
\* caller in an event loop, where asyncio.run raises and a thread searches
\* instead, is left out: no caller of run_pipeline is in one.
Retrieve ==
    /\ In("m2", "start")
    /\ \/ state.papers /\ Return(Nothing) /\ Keep
       \/ ~state.papers /\ EnterLoop("json", "queries") /\ Keep
SearchSources ==
    /\ In("m2", "queries")
    /\ \/ Got("loop", {"ok"}) /\ LoopQuestion("embed", "rerank") /\ Keep
       \/ Got("loop", Whatever) /\ Return(Nothing) /\ Keep
Retrieved == In("m2", "rerank") /\ Got("loop", Whatever) /\ Return([papers |-> TRUE]) /\ Keep

AccessStatus == In("m2.5", "start") /\ Return(Nothing) /\ Keep

ExtractTriples ==
    /\ In("m3", "start")
    /\ \/ ~state.papers /\ Return(Nothing) /\ Keep
       \/ state.papers /\ FanOut(Papers, "json", "triples") /\ UNCHANGED round /\ Keep
BuildKg ==
    \/ Gathered("m3", "triples") /\ Return(Nothing) /\ Keep
    \/ Gathered("m3", "triples") /\ ~Raising({"bad"}) /\ Question("json", "gap cards") /\ Keep
    \/ Quit("m3", "gap cards", Whatever, Nothing)

-----------------------------------------------------------------------------
(* M4: orchestrator.py, reviewers.py, roundtable.py.                       *)

Known(raw) == ToSet(raw) \intersect Reviewers
\* The first of the missing ones, until there are enough.
Missing(names) == {i \in DOMAIN Order : Order[i] \notin names}
Added(names) == {i \in Missing(names) :
    Cardinality({j \in Missing(names) : j < i}) < MinReviewers - Cardinality(names)}
Pad(names) == names \union {Order[i] : i \in Added(names)}
\* Mutant: padded only.
SanitizeOnly(raw) == Pad(Known(raw))
\* _sanitize_selection; its cut to MaxReviewers cuts nothing, as the registry
\* has no more.
Sanitize(raw) == Pad(Known(raw) \union {Devil})

\* compute_variance > Threshold, without the division; failed reviews rate 0.
Rated(cards) == {r \in DOMAIN cards : cards[r] > 0}
SumOf(cards, power) == MapThenSumSet(LAMBDA r : cards[r]^power, Rated(cards))
Split(cards) ==
    LET n == Cardinality(Rated(cards))
    IN  n >= 2 /\ n * SumOf(cards, 2) - SumOf(cards, 1)^2 > Threshold * n * n

\* critique_node; without a question M4, M5 and M7 give up.
Critique ==
    /\ In("m4", "start")
    /\ \/ state.blank /\ Return(Nothing)
       \/ ~state.blank /\ config.orchestrator /\ EnterLoop("json", "selection")
    /\ Keep
Invite(names) ==
    /\ FanOut(names, "json", "reviews")
    /\ round' = [NoRound EXCEPT !.chosen = names] /\ Keep
InviteAll ==
    \/ In("m4", "start") /\ ~state.blank /\ ~config.orchestrator /\ Invite(Reviewers)
    \/ In("m4", "selection") /\ Got("loop", {"ok", "failed"}) /\ Invite(Reviewers)
InviteSelected ==
    /\ In("m4", "selection") /\ Got("loop", {"ok"})
    /\ \E raw \in Selections : Invite(Sanitize(raw))
NoSelection == In("m4", "selection") /\ Got("loop", {"bad"}) /\ Raise /\ Keep

\* review_proposal, in each thread: a review that failed rates 0.
Cards == {cards \in [round.chosen -> Ratings] :
             \A r \in round.chosen : answer[r] = "failed" => cards[r] = 0}
RoundtableRaises ==
    (Gathered("m4", "reviews") \/ Gathered("m4", "second round"))
    /\ Raising({"bad"}) /\ Raise /\ Keep
SecondRound ==
    /\ Gathered("m4", "reviews") /\ ~Raising({"bad"})
    /\ \E cards \in Cards : /\ Split(cards)
                            /\ round' = [round EXCEPT !.cards = cards, !.again = TRUE]
    /\ Ask(Devil, "json") /\ jobs' = {Devil} /\ step' = "second round"
    /\ spent' = [spent EXCEPT ![Devil] = spent["loop"]]
    /\ UNCHANGED count /\ Stay /\ Keep
\* meta_decide: the critical model, then the reasoner.
MetaDecide ==
    /\ ~Raising({"bad"})
    /\ \/ /\ Gathered("m4", "reviews")
          /\ \E cards \in Cards : ~Split(cards) /\ round' = [round EXCEPT !.cards = cards]
       \/ Gathered("m4", "second round") /\ UNCHANGED round
    /\ Ask("loop", "json") /\ step' = "meta"
    /\ UNCHANGED <<spent, count, jobs>> /\ Stay /\ Keep
MetaFallback ==
    In("m4", "meta") /\ Got("loop", {"failed"}) /\ LoopQuestion("json", "reasoner") /\ Keep
Undecided ==
    /\ \/ In("m4", "meta") /\ Got("loop", {"bad"})
       \/ In("m4", "reasoner") /\ Got("loop", {"failed", "bad"})
    /\ Raise /\ Keep
\* Back in the node, build_decision_card asks once more.
Decided ==
    /\ In("m4", "meta") \/ In("m4", "reasoner")
    /\ Got("loop", {"ok"}) /\ Ask("node", "json") /\ step' = "decision"
    /\ \E r \in Ratings : round' = [round EXCEPT !.rating = r]
    /\ UNCHANGED <<spent, count, jobs>> /\ Stay /\ Keep
BuildDecisionCard ==
    /\ In("m4", "decision") /\ UNCHANGED <<files, prompts, used>>
    /\ \/ /\ Got("node", {"ok", "failed"}) /\ rated' = round.rating
          /\ Return([rating |-> round.rating])
       \/ Got("node", {"bad"}) /\ Raise /\ UNCHANGED rated

-----------------------------------------------------------------------------
(* M5 and M5.5.                                                            *)

\* best_for: the best average among the variants that have been scored.
Scored == {v \in Variants : prompts[v].runs > 0}
Best == {v \in Scored : \A w \in Scored :
            prompts[w].total * prompts[v].runs <= prompts[v].total * prompts[w].runs}
BestFor == IF Scored = {} THEN {NoVariant} ELSE Best

Design ==
    /\ In("m5", "start") /\ UNCHANGED <<files, prompts, rated>>
    /\ \/ state.blank /\ Return(Nothing) /\ UNCHANGED used
       \/ ~state.blank /\ Question("json", "plan") /\ used' \in BestFor
Designed ==
    \/ Quit("m5", "plan", {"ok"}, [experiment |-> TRUE, metadata |->
          IF used = NoVariant THEN state.metadata ELSE [NoMetadata EXCEPT !.variant = used]])
    \/ Quit("m5", "plan", {"failed", "bad"}, Nothing)

\* research_gate_node replaces metadata.  No node reads what it decides, which
\* is left out.
Decide == [metadata |-> NoMetadata]
Gate ==
    /\ In("m5.5", "start") /\ Keep
    /\ \/ (~config.gateLlm \/ ~state.experiment) /\ Return(Decide)
       \/ config.gateLlm /\ state.experiment /\ Question("json", "gate")
GateAnswered == Quit("m5.5", "gate", Whatever, Decide)

-----------------------------------------------------------------------------
(* M6, M7, Appendix A reflect.                                             *)

Generate ==
    /\ In("m6a", "start") /\ Keep
    /\ \/ ~state.experiment /\ Return(Nothing)
       \/ state.experiment /\ Question("json", "files")
\* Skills that were found replace metadata; save_files may raise half way.
Generated ==
    \/ /\ In("m6a", "files") /\ Got("node", {"ok"})
       /\ disk' = 1 /\ ran' = 0 /\ broke' = FALSE /\ UNCHANGED <<prompts, history>>
       /\ \/ Return([code |-> TRUE])
          \/ Return([code |-> TRUE, metadata |-> NoMetadata])
          \/ Raise
    \/ Quit("m6a", "files", {"failed", "bad"}, Nothing)

Skip ==
    /\ In("m6b", "start") /\ count = 0 /\ Keep
    /\ \/ (~state.code \/ request.mode = "generate_only") /\ Return(Nothing)
       \/ state.code /\ request.mode = "dry_run"
          /\ \E v \in {"ok", "failed"} : Return([validated |-> v])
       \/ state.code /\ request.mode = "full_execute" /\ Raise    \* no daemon

\* full_execute_sandbox: a container starts with what is in the directory.
Run ==
    /\ In("m6b", "start") /\ state.code /\ request.mode = "full_execute"
    /\ count' = count + 1 /\ ran' = disk /\ step' = "ran"
    /\ UNCHANGED <<llm, locals, disk, broke, prompts, history>> /\ Stay
\* No package docker, or an error that is not the container's: that is all, and
\* what is in the directory, be it M6's files or a repair, does not run.
NotRun ==
    /\ In("m6b", "start") /\ state.code /\ request.mode = "full_execute"
    /\ broke' = TRUE /\ Return([validated |-> "failed"])
    /\ UNCHANGED <<disk, ran, prompts, history>>
\* _register_verified_skills, if it finds any, replaces metadata.
RunOk ==
    /\ In("m6b", "ran") /\ Keep
    /\ \/ Return([validated |-> "ok"])
       \/ Return([validated |-> "ok", metadata |-> NoMetadata])
\* The last container failed, or the daemon did while any of them ran.
RunFails == In("m6b", "ran") /\ Return([validated |-> "failed"]) /\ Keep
\* Mutant: the last failure is repaired, too.
AskRepairAlways == In("m6b", "ran") /\ Question("json", "repair") /\ Keep
AskRepair == In("m6b", "ran") /\ count < MaxRuns /\ Question("json", "repair") /\ Keep
\* Mutant: the loop ends after the repair, not before it.
RepairLast ==
    /\ In("m6b", "repair") /\ Got("node", {"ok"}) /\ Return([validated |-> "failed"])
    /\ disk' = disk + 1 /\ UNCHANGED <<ran, broke, prompts, history>>
Repair ==
    \/ /\ In("m6b", "repair") /\ Got("node", {"ok"})
       /\ disk' = disk + 1 /\ UNCHANGED <<ran, broke, prompts, history>>
       /\ \/ step' = "start" /\ UNCHANGED <<llm, count, locals>> /\ Stay
          \/ Raise                      \* a name that cannot be written
    \/ Quit("m6b", "repair", {"ok", "failed"}, [validated |-> "failed"])
    \/ Quit("m6b", "repair", {"bad"}, Nothing)

Write ==
    /\ In("m7", "start") /\ Keep
    /\ \/ state.blank /\ Return(Nothing)
       \/ ~state.blank /\ Question("json", "style")
WriteSections ==
    In("m7", "style") /\ Got("node", {"ok"}) /\ FanOut(Sections, "chat", "sections")
    /\ UNCHANGED round /\ Keep
Polish ==
    \/ Quit("m7", "style", {"failed", "bad"}, Nothing)
    \/ Gathered("m7", "sections") /\ Raising({"failed"}) /\ Raise /\ Keep
    \/ Gathered("m7", "sections") /\ ~Raising({"failed"}) /\ Question("chat", "polish") /\ Keep
    \/ Quit("m7", "polish", Whatever, Nothing)

Reflect == In("appendix_reflect", "start") /\ Question("json", "reflected") /\ Keep
\* add() stores a memory, with its embedding or without.
Remember ==
    /\ In("appendix_reflect", "reflected") /\ Got("node", {"ok"})
    /\ Question("embed", "remembered") /\ Keep
\* record_score, of the variant that metadata still names.
Score ==
    /\ \/ In("appendix_reflect", "reflected") /\ Got("node", {"ok", "failed"})
       \/ In("appendix_reflect", "remembered") /\ Got("node", Whatever)
    /\ prompts' = [v \in Variants |->
          IF v = state.metadata.variant /\ state.rating > 0
          THEN [runs |-> prompts[v].runs + 1, total |-> prompts[v].total + state.rating]
          ELSE prompts[v]]
    /\ Return([metadata |-> NoMetadata])
    /\ UNCHANGED <<files, history>>
NotReflected == Quit("appendix_reflect", "reflected", {"bad"}, Nothing)

-----------------------------------------------------------------------------
\* run_pipeline again; with the same question it is the same thread of
\* LangGraph, whose papers come back, and the same directory.  That it comes
\* by the interrupt at all is the choice of build_graph's caller: run_pipeline
\* always stops there.
RunPipeline ==
    /\ at \in {"paused", "end"} /\ ask < MaxAsks /\ ask' = ask + 1
    /\ \E r \in Requests :
          /\ request' = r
          /\ \/ state' = Updated(state, Fresh(r)) /\ disk' = disk
             \/ state' = Updated([state EXCEPT !.papers = FALSE], Fresh(r)) /\ disk' = 0
    /\ at' = "appendix_recall" /\ step' = "start" /\ count' = 0
    /\ spent' = [c \in Contexts |-> 0]
    /\ ran' = 0 /\ broke' = FALSE /\ used' = NoVariant /\ rated' = 0
    /\ UNCHANGED <<call, answer, keyed, config, locals, prompts>>

Asked(c) == Provider(c) /\ UNCHANGED <<inputs, place, state, locals>> /\ Keep

Advance ==
    \/ \E c \in Contexts : Asked(c)
    \/ Recall \/ Recalled \/ Discover \/ Discovered \/ SelectTopic
    \/ Refine \/ Clarify \/ BuildPico \/ Refined
    \/ Retrieve \/ SearchSources \/ Retrieved \/ AccessStatus \/ ExtractTriples \/ BuildKg
    \/ Critique \/ InviteAll \/ InviteSelected \/ NoSelection \/ RoundtableRaises
    \/ SecondRound \/ MetaDecide \/ MetaFallback \/ Undecided \/ Decided \/ BuildDecisionCard
    \/ Design \/ Designed \/ Gate \/ GateAnswered \/ Generate \/ Generated
    \/ Skip \/ Run \/ NotRun \/ Repair
    \/ Write \/ WriteSections \/ Polish
    \/ Reflect \/ Remember \/ Score \/ NotReflected

\* A container ends by itself or not at all.
ContainerEnds == RunOk \/ RunFails \/ AskRepair

Next == Advance \/ ContainerEnds \/ RunPipeline

\* Models answer or time out, and the scheduler runs threads.  A container may
\* run for ever: containers.run has no timeout.
Spec == Init /\ [][Next]_vars /\ WF_vars(Advance)

-----------------------------------------------------------------------------
Steps == {"start", "recalled", "topics", "specific", "pico", "queries", "rerank", "triples",
          "gap cards", "selection", "reviews", "second round", "meta", "reasoner", "decision",
          "plan", "gate", "files", "ran", "repair", "style", "sections", "polish", "reflected",
          "remembered"}

\* Every variable has its type: questions, nodes and counters stay in bounds,
\* and no sandbox runs more often than MaxRuns (code_gen.py).
TypeOK ==
    /\ LlmOK
    /\ \E s \in Starts : config = s.config
    /\ request \in Requests /\ ask \in 1..MaxAsks
    /\ at \in ToSet(Nodes) \union {"paused", "end"} /\ step \in Steps
    /\ count \in Nat /\ (at = "m6b" => count <= MaxRuns)
    /\ state \in ResearchState
    /\ jobs \subseteq Jobs
    /\ disk \in 0..MaxRuns /\ ran \in 0..MaxRuns /\ broke \in BOOLEAN
    /\ \A v \in Variants : prompts[v].runs \in Nat /\ prompts[v].total \in Nat

\* The final decision is taken over a card of every reviewer invited, the devil
\* always among them and enough of them, whatever the orchestrator selects and
\* however reviews fail (roundtable.py, run_roundtable_async).
RoundtableWhole ==
    at = "m4" /\ step \in {"meta", "reasoner", "decision"} =>
        /\ Devil \in round.chosen
        /\ Cardinality(round.chosen) \in MinReviewers..MaxReviewers
        /\ DOMAIN round.cards = round.chosen
        /\ round.again = Split(round.cards)

\* A score is of the variant that this run designed with, and is the rating of
\* this run's roundtable, whatever other runs left in thread and state
\* (graph.py, appendix_reflect_node).
ScoresOwnRun == [][\A v \in Variants : prompts'[v] # prompts[v] =>
    /\ v = used /\ rated > 0
    /\ prompts'[v] = [runs |-> prompts[v].runs + 1, total |-> prompts[v].total + rated]]_vars

\* Beside a verdict of the sandbox M6 leaves what the sandbox ran last.  Only
\* where an attempt came to no run is it one version on: files that were never
\* tried, and then the verdict is not that they work (code_gen.py,
\* full_execute_sandbox).
FilesRan ==
    request.mode = "full_execute" /\ state.validated # "none" =>
        disk = ran \/ (broke /\ disk = ran + 1 /\ state.validated = "failed")

\* What a node asks comes in stages; the loop of m6b ends a pass where it began.
Stage(n, s) ==
    CASE s = "start" -> IF n = "m6b" THEN 3 ELSE 0
      [] s \in {"recalled", "topics", "specific", "queries", "triples", "selection", "plan",
                "gate", "files", "ran", "style", "reflected"} -> 1
      [] s \in {"pico", "rerank", "gap cards", "reviews", "repair", "sections",
                "remembered"} -> 2
      [] s \in {"second round", "polish"} -> 3
      [] s = "meta" -> 4
      [] s = "reasoner" -> 5
      [] s = "decision" -> 6
Passes(n) == IF n = "m6b" THEN MaxRuns ELSE 2

NodeForward  == at' \in {"paused", "end"} \/ Index(at') > Index(at)
StageForward ==
    /\ at' = at
    /\ \/ count' \in (count + 1)..Passes(at)
       \/ count' = count /\ Stage(at, step') > Stage(at, step)
CallForward ==
    /\ UNCHANGED place
    /\ \E c \in Contexts :
          /\ \A d \in Contexts \ {c} : call'[d] = call[d]
          /\ call[c] # Idle
          /\ \/ call'[c] = Idle
             \/ call'[c].turn > call[c].turn
             \/ call'[c].turn = call[c].turn /\ call'[c].tries > call[c].tries

\* No step of a run goes back: it comes to a later node, to a later pass or
\* stage of its node, or to a later attempt of one question, and of each of
\* these there are so many and no more (graph.py, code_gen.py, base.py).
GoesForward == [][ask' = ask => NodeForward \/ StageForward \/ CallForward]_vars

\* Every run comes to the interrupt or to the end, whatever fails in the nodes
\* and whatever it has spent (graph.py, safe_node), unless it waits for ever
\* for a container that does not end (code_gen.py, full_execute_sandbox).
Pauses ==
    <>[](at = "m6b" /\ step = "ran")
        \/ (at \in ToSet(Nodes) ~> at \in {"paused", "end"})
=============================================================================
