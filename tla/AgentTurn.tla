------------------------------ MODULE AgentTurn ------------------------------
(***************************************************************************)
(* One run of an agent adapter: a task is posted as a tenant, the agent    *)
(* answers or calls tools until it does, and the text it ends with is what *)
(* the probe grades.  Probes of one suite share the adapter, so two runs,  *)
(* of the same tenant too, may be under way at once.                       *)
(*                                                                         *)
(*   openai      one server-side thread per tenant; a run on it is polled  *)
(*   anthropic   the tenant's history is kept here, and sent whole         *)
(*   autogen, crewai, langgraph, http     one call, whose result is read   *)
(*                                                                         *)
(* A conversation is a sequence of messages; a message says who spoke, in  *)
(* which run, and whether it is all of what was said.                      *)
(***************************************************************************)
EXTENDS Naturals, Sequences

CONSTANTS
    Frameworks, Workers,
    Tenants,     \* 1..n, and the places of their histories
    POLLS,       \* retrievals of a run before its deadline passes
    ITERATIONS,  \* turns of the anthropic tool-use loop
    MaxRuns      \* bound on the runs begun

ASSUME TenantsAssumed == Tenants \subseteq Nat \ {0}
ASSUME RunsAssumed    == MaxRuns \in Nat
ASSUME PollsAssumed   == POLLS \in Nat

VARIABLES
    framework,
    threads,   \* openai: the thread kept for each tenant, named for the run that
               \* created it, 0 for none
    talk,      \* the conversation in each thread, or with each tenant
    active,    \* environment: the run the service has under way on each thread
    service,   \* environment: how far the service is with each run
    turn,      \* what each worker is doing
    runs,      \* runs begun
    given      \* what the last run of each worker returned or raised

agentVars == <<framework, threads, talk, active, service, turn, runs, given>>
remote == <<active, service>>

Places   == (1..MaxRuns) \cup Tenants
Message(who, w, whole) ==
    [who |-> who, run |-> turn[w].run, tenant |-> turn[w].tenant, whole |-> whole]
NoText  == [who |-> "nobody", run |-> 0, tenant |-> 0, whole |-> TRUE]     \* the empty text
Resting  == [at |-> "rest", tenant |-> 1, run |-> 0, place |-> 1, tries |-> 0]
Outcome(is, text) == [is |-> is, text |-> text]

Go(w, at) == turn' = [turn EXCEPT ![w].at = at]

RunReturns(w, text) ==
    /\ turn' = [turn EXCEPT ![w].at = "rest"]
    /\ given' = [given EXCEPT ![w] = Outcome("returned", text)]

\* Whatever goes wrong is the adapter's error, and no answer.
RunRaises(w) ==
    /\ turn' = [turn EXCEPT ![w].at = "rest"]
    /\ given' = [given EXCEPT ![w] = Outcome("raised", NoText)]

Start(w, tenant) ==
    /\ turn[w].at = "rest"
    /\ runs < MaxRuns
    /\ runs' = runs + 1
    /\ turn' = [turn EXCEPT ![w] = [at |-> "start", tenant |-> tenant, run |-> runs',
                                     place |-> 1, tries |-> 0]]
    /\ given' = [given EXCEPT ![w] = Outcome("none", NoText)]
    /\ UNCHANGED <<framework, threads, remote, talk>>

-----------------------------------------------------------------------------
(* openai: a thread per tenant, created on first use. *)

LookUpThread(w) ==
    /\ framework = "openai" /\ turn[w].at = "start"
    /\ turn' = [turn EXCEPT ![w].at = IF threads[turn[w].tenant] = 0 THEN "create" ELSE "post",
                            ![w].place = IF threads[turn[w].tenant] = 0 THEN 1 ELSE threads[turn[w].tenant]]
    /\ UNCHANGED <<framework, threads, remote, talk, runs, given>>

\* Fault: one thread serves every tenant.
CreateSharedThread(w) ==
    /\ framework = "openai" /\ turn[w].at = "create"
    /\ threads' = [t \in Tenants |-> turn[w].run]
    /\ turn' = [turn EXCEPT ![w].at = "post", ![w].place = turn[w].run]
    /\ UNCHANGED <<framework, remote, talk, runs, given>>

CreateThread(w) ==
    /\ framework = "openai" /\ turn[w].at = "create"
    /\ threads' = [threads EXCEPT ![turn[w].tenant] = turn[w].run]
    /\ turn' = [turn EXCEPT ![w].at = "post", ![w].place = turn[w].run]
    /\ UNCHANGED <<framework, remote, talk, runs, given>>

\* The service refuses a message to a thread with a run under way: see RunFails.
PostMessage(w) ==
    /\ framework = "openai" /\ turn[w].at = "post"
    /\ active[turn[w].place] = 0
    /\ talk' = [talk EXCEPT ![turn[w].place] = Append(@, Message("user", w, TRUE))]
    /\ Go(w, "run")
    /\ UNCHANGED <<framework, threads, remote, runs, given>>

CreateRun(w) ==
    /\ framework = "openai" /\ turn[w].at = "run"
    /\ active[turn[w].place] = 0
    /\ active' = [active EXCEPT ![turn[w].place] = turn[w].run]
    /\ service' = [service EXCEPT ![turn[w].run] = [status |-> "in_progress", tenant |-> turn[w].tenant]]
    /\ Go(w, "poll")
    /\ UNCHANGED <<framework, threads, talk, runs, given>>

\* The run proceeds: it asks for a tool, ends without an answer or with all or,
\* out of tokens, a part of one, or fails.
ServeRun(n) ==
    /\ service[n].status = "in_progress"
    /\ LET place == CHOOSE p \in Places : active[p] = n
           Spoken(whole) == [who |-> "agent", run |-> n, tenant |-> service[n].tenant, whole |-> whole]
           Ends(status) == /\ service' = [service EXCEPT ![n].status = status]
                           /\ active' = [active EXCEPT ![place] = 0]
       IN  \/ service' = [service EXCEPT ![n].status = "requires_action"] /\ UNCHANGED <<active, talk>>
           \/ Ends("completed") /\ UNCHANGED talk
           \/ Ends("completed") /\ talk' = [talk EXCEPT ![place] = Append(@, Spoken(TRUE))]
           \/ Ends("incomplete") /\ talk' = [talk EXCEPT ![place] = Append(@, Spoken(FALSE))]
           \/ Ends("failed") /\ UNCHANGED talk
    /\ UNCHANGED <<framework, threads, turn, runs, given>>

\* A truncated run is not an answered one.
Terminal == {"failed", "incomplete"}

\* The deadline is looked at before each retrieval; tools that were called stay called.
Poll(w) ==
    /\ framework = "openai" /\ turn[w].at = "poll"
    /\ IF turn[w].tries = POLLS THEN RunRaises(w) /\ UNCHANGED service
       ELSE CASE service[turn[w].run].status = "completed" -> Go(w, "read") /\ UNCHANGED <<service, given>>
              [] service[turn[w].run].status \in Terminal  -> RunRaises(w) /\ UNCHANGED service
              [] OTHER -> /\ service' = [service EXCEPT ![turn[w].run].status = "in_progress"]
                          /\ turn' = [turn EXCEPT ![w].tries = @ + 1]
                          /\ UNCHANGED given
    /\ UNCHANGED <<framework, threads, active, talk, runs>>

\* The last message of a speaker.
Latest(messages, who) ==
    LET at == {i \in DOMAIN messages : messages[i].who = who}
    IN  IF at = {} THEN NoText ELSE messages[CHOOSE i \in at : \A j \in at : j <= i]

\* The newest message of the assistant, of this run or of an earlier one.
ReadAnswer(w) ==
    /\ framework = "openai" /\ turn[w].at = "read"
    /\ RunReturns(w, Latest(talk[turn[w].place], "agent"))
    /\ UNCHANGED <<framework, threads, remote, talk, runs>>

RunFails(w) ==
    /\ framework = "openai" /\ turn[w].at # "rest"
    /\ RunRaises(w)
    /\ UNCHANGED <<framework, threads, remote, talk, runs>>

-----------------------------------------------------------------------------
(* anthropic: the tenant's history is a list of this adapter. *)

AppendTask(w) ==
    /\ framework = "anthropic" /\ turn[w].at = "start"
    /\ talk' = [talk EXCEPT ![turn[w].tenant] = Append(@, Message("user", w, TRUE))]
    /\ Go(w, "loop")
    /\ UNCHANGED <<framework, threads, remote, runs, given>>

\* The model calls no tool: its text, if it is all of it, is the answer, and
\* joins the history unless it is empty.
AnswerTask(w) ==
    /\ framework = "anthropic" /\ turn[w].at = "loop"
    /\ \/ /\ RunReturns(w, Message("agent", w, TRUE))
          /\ talk' = [talk EXCEPT ![turn[w].tenant] = Append(@, Message("agent", w, TRUE))]
       \/ RunReturns(w, NoText) /\ UNCHANGED talk
    /\ UNCHANGED <<framework, threads, remote, runs>>

\* The model calls tools; a tool that raises is an answer to the model.
CallTools(w) ==
    /\ framework = "anthropic" /\ turn[w].at = "loop"
    /\ turn[w].tries + 1 < ITERATIONS
    /\ turn' = [turn EXCEPT ![w].tries = @ + 1]
    /\ UNCHANGED <<framework, threads, remote, talk, runs, given>>

\* A request that fails, an answer cut at max_tokens, one turn too many: the task
\* is taken back off the history.
RollBack(w) ==
    /\ framework = "anthropic" /\ turn[w].at = "loop"
    /\ talk' = [talk EXCEPT ![turn[w].tenant] = SubSeq(@, 1, Len(@) - 1)]
    /\ RunRaises(w)
    /\ UNCHANGED <<framework, threads, remote, runs>>

-----------------------------------------------------------------------------
(* The frameworks that are one call: what is read off their result. *)

\* The call raises, or what it returned has no place for an answer.
OneCallRaises(w) ==
    /\ framework \in {"autogen", "crewai", "langgraph", "http"} /\ turn[w].at = "start"
    /\ RunRaises(w)
    /\ UNCHANGED <<framework, threads, remote, talk, runs>>

\* The last message of the assistant, by name. The chat is the initiator's view, in
\* which its own messages have the role "assistant": the role only tells the speaker
\* of a chat that has no names.
AutogenFinalText(chat, named) ==
    LET byName == IF named THEN Latest(chat, "agent") ELSE NoText
        byRole == Latest(chat, IF named THEN "user" ELSE "agent")
    IN  IF byName # NoText THEN byName ELSE byRole

\* The assistant replies, or the chat ends without it.
AutogenRun(w) ==
    /\ framework = "autogen" /\ turn[w].at = "start"
    /\ \E replied, named \in BOOLEAN :
          LET task == Message("user", w, TRUE)
          IN  RunReturns(w, AutogenFinalText(IF replied THEN <<task, Message("agent", w, TRUE)>>
                                         ELSE <<task>>, named))
    /\ UNCHANGED <<framework, threads, remote, talk, runs>>

\* The crew's text, or that of its last task; anything else has no text.
CrewaiFinalText(raw, last) == IF raw # NoText THEN raw ELSE last

CrewaiRun(w) ==
    /\ framework = "crewai" /\ turn[w].at = "start"
    /\ \E raw, last \in {NoText, Message("agent", w, TRUE)} : RunReturns(w, CrewaiFinalText(raw, last))
    /\ UNCHANGED <<framework, threads, remote, talk, runs>>

\* The graph's messages: those of the tenant's thread, where a checkpointer keeps
\* them, and those of this run, which end with the assistant's.
LanggraphFinalText(messages) == Latest(messages, "agent")

LanggraphRun(w) ==
    /\ framework = "langgraph" /\ turn[w].at = "start"
    /\ \E kept \in BOOLEAN :
          LET before == IF kept THEN talk[turn[w].tenant] ELSE <<>>
              all    == before \o <<Message("user", w, TRUE), Message("agent", w, TRUE)>>
          IN  /\ RunReturns(w, LanggraphFinalText(all))
              /\ talk' = IF kept THEN [talk EXCEPT ![turn[w].tenant] = all] ELSE talk
    /\ UNCHANGED <<framework, threads, remote, runs>>

\* A string under the declared key, the empty one too, is the answer; an error
\* envelope or anything else raises.
HttpRun(w) ==
    /\ framework = "http" /\ turn[w].at = "start"
    /\ \E text \in {NoText, Message("agent", w, TRUE)} : RunReturns(w, text)
    /\ UNCHANGED <<framework, threads, remote, talk, runs>>

-----------------------------------------------------------------------------
AgentStep(w) ==
    \/ LookUpThread(w) \/ CreateThread(w) \/ PostMessage(w) \/ CreateRun(w) \/ Poll(w)
    \/ ReadAnswer(w) \/ RunFails(w)
    \/ AppendTask(w) \/ AnswerTask(w) \/ CallTools(w) \/ RollBack(w)
    \/ OneCallRaises(w) \/ AutogenRun(w) \/ CrewaiRun(w) \/ LanggraphRun(w) \/ HttpRun(w)

AgentInit ==
    /\ framework \in Frameworks
    /\ threads = [t \in Tenants |-> 0]
    /\ talk = [p \in Places |-> <<>>]
    /\ active = [p \in Places |-> 0]
    /\ service = [n \in 1..MaxRuns |-> [status |-> "none", tenant |-> 0]]
    /\ turn = [w \in Workers |-> Resting]
    /\ runs = 0
    /\ given = [w \in Workers |-> Outcome("none", NoText)]

AgentNext ==
    \/ \E w \in Workers : AgentStep(w)
    \/ \E w \in Workers, t \in Tenants : Start(w, t)
    \/ \E n \in 1..MaxRuns : ServeRun(n)

\* A request returns or raises. The service owes nothing: a run may stay in progress.
AgentSpec == AgentInit /\ [][AgentNext]_agentVars /\ \A w \in Workers : WF_agentVars(AgentStep(w))

-----------------------------------------------------------------------------
\* A text that comes back was said by the agent to the tenant it comes back to, and
\* if in this run, it is all that was said: never Sectum's own prompt, the repr of a
\* result, a cut answer, or what another tenant was told. Two things are let through:
\* an answer of an earlier run on the thread, which the newest message may be, and the
\* prompt that autogen's fallback returns of a chat its assistant never joins.
AnswerIsTheAgents ==
    \A w \in Workers : LET text == given[w].text IN
        given[w].is = "returned" /\ text # NoText =>
            /\ text.who = "agent" \/ framework = "autogen"
            /\ text.run = turn[w].run => text.whole
            /\ text.tenant = turn[w].tenant

\* Nothing of a conversation is another tenant's, and no service run is active twice.
AgentTypeOK ==
    /\ \A w \in Workers : turn[w].tries <= POLLS \/ turn[w].tries < ITERATIONS
    /\ \A t \in Tenants : threads[t] \in 0..runs
    /\ \A p, q \in Places : active[p] = active[q] => p = q \/ active[p] = 0

=============================================================================
