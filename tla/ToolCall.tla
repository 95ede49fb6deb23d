------------------------------ MODULE ToolCall ------------------------------
(***************************************************************************)
(* One tools/call after another, from the agent to xolu and back: the      *)
(* health gate, the offer and the contract (pkg/mcp/server.go), the HTTP   *)
(* requests (pkg/xolu/client.go) and the mapping of what xolu answered to  *)
(* the code the agent reads.  The server handles one message at a time.    *)
(*                                                                         *)
(* A request lives on its own once it is sent: the client may give up on   *)
(* it while xolu has yet to apply it.  Text is abstracted to what the code *)
(* looks for in it: "missing" stands for the words 404 and not found,      *)
(* "rejected" for guard, invalid transition and rejected.                  *)
(***************************************************************************)
EXTENDS Integers, FiniteSets

CONSTANTS
    Tools,          \* the primitives the agent calls
    Offered,        \* the primitives in the server's list
    IdWords,        \* the words an id may contain
    MaxTries,       \* bound: calls the agent makes
    MaxRequests     \* bound: requests one call issues

Primitives == {"describe", "get", "list", "create", "update", "query", "walk",
               "machine_state", "machine_history",
               "cal_check", "cal_openings", "cal_propose", "cal_confirm"}
Words == {"missing", "rejected"}

ASSUME ToolCallAssumption ==
    /\ Tools \subseteq Primitives
    /\ Offered \subseteq Primitives
    /\ IdWords \subseteq Words
    /\ MaxTries \in Nat \ {0}
    /\ MaxRequests \in Nat \ {0}

Calendar == {"cal_check", "cal_openings", "cal_propose", "cal_confirm"}
WriteTools == {"create", "update", "walk", "cal_propose", "cal_confirm"}
ManyRequests == {"list", "describe", "cal_check"}
NotFoundTools == {"get", "machine_state", "machine_history", "walk"} \cup Calendar
EmptyTools == {"list", "query", "machine_history", "cal_openings"}

VARIABLES
    healthy,    \* what health.Check says
    call,       \* the call the server works on
    atXolu,     \* the tries whose write xolu may still apply
    applied,    \* the tries whose write xolu has applied
    log,        \* what became of each try
    redCalls    \* history: the tries that sent a request since the probe is red

vars == <<healthy, call, atXolu, applied, log, redCalls>>

Tries == 1..MaxTries

AnswerKinds == {"rows", "no_rows", "garbled", "404", "typed", "untyped", "5xx", "transport"}
Good == {"rows", "no_rows"}
Codes == {"OK", "EMPTY", "NOT_OFFERED", "CONTRACT_VIOLATION", "NOT_FOUND",
          "INVALID_TRANSITION", "XOLU", "SUBSTRATE_UNAVAILABLE", "INTERNAL", "unsaid"}

NoAnswer == [kind |-> "none", words |-> {}]
NoCall == [pc |-> "idle", try |-> 0, tool |-> "none", valid |-> TRUE, words |-> {},
           notify |-> FALSE, sent |-> 0, rows |-> FALSE, answer |-> NoAnswer]
NotCalled == [tool |-> "none", code |-> "none", cause |-> "none"]

\* The agent sends a tools/call; without an id it is a notification.
Call ==
    /\ call.pc = "idle"
    /\ \E t \in Tries, tool \in Tools, valid \in BOOLEAN,
          words \in SUBSET IdWords, notify \in BOOLEAN :
        /\ log[t].tool = "none"
        /\ \A earlier \in 1..(t - 1) : log[earlier].tool # "none"
        /\ call' = [NoCall EXCEPT !.pc = "gate", !.try = t, !.tool = tool, !.valid = valid,
                                  !.words = words, !.notify = notify]
        /\ log' = [log EXCEPT ![t].tool = tool]
    /\ UNCHANGED <<healthy, atXolu, applied, redCalls>>

\* HandleMessage writes the outcome, unless the message was a notification.
Reply(code, cause) ==
    /\ call' = NoCall
    /\ log' = [log EXCEPT ![call.try].code = IF call.notify THEN "unsaid" ELSE code,
                          ![call.try].cause = cause]

\* Faulty variant: describe is served whatever the probe says.
CheckHealthSparesDescribe ==
    /\ call.pc = "gate"
    /\ IF healthy \/ call.tool = "describe"
       THEN call' = [call EXCEPT !.pc = "offer"] /\ UNCHANGED log
       ELSE Reply("SUBSTRATE_UNAVAILABLE", "gate")
    /\ UNCHANGED <<healthy, atXolu, applied, redCalls>>

CheckHealth ==
    /\ call.pc = "gate"
    /\ IF healthy
       THEN call' = [call EXCEPT !.pc = "offer"] /\ UNCHANGED log
       ELSE Reply("SUBSTRATE_UNAVAILABLE", "gate")
    /\ UNCHANGED <<healthy, atXolu, applied, redCalls>>

CheckOffer ==
    /\ call.pc = "offer"
    /\ IF call.tool \in Offered
       THEN call' = [call EXCEPT !.pc = "contract"] /\ UNCHANGED log
       ELSE Reply("NOT_OFFERED", "offer")
    /\ UNCHANGED <<healthy, atXolu, applied, redCalls>>

\* The schema's contract, and the arguments Execute checks before any request.
CheckContract ==
    /\ call.pc = "contract"
    /\ IF call.valid
       THEN call' = [call EXCEPT !.pc = "send"] /\ UNCHANGED log
       ELSE Reply("CONTRACT_VIOLATION", "contract")
    /\ UNCHANGED <<healthy, atXolu, applied, redCalls>>

(***************************************************************************)
(* doRequest.  list, describe and cal_check issue one request after        *)
(* another and stop at the first that fails.                               *)
(***************************************************************************)
Send ==
    /\ call.pc = "send"
    /\ call' = [call EXCEPT !.pc = "sent", !.sent = @ + 1]
    /\ atXolu' = IF call.tool \in WriteTools THEN atXolu \cup {call.try} ELSE atXolu
    /\ redCalls' = IF healthy THEN redCalls ELSE redCalls \cup {call.try}
    /\ UNCHANGED <<healthy, applied, log>>

\* The text of a transport error quotes the URL, and with it the ids in the path.
Transport == [kind |-> "transport", words |-> call.words]

Refused ==
    /\ call.pc = "send"
    /\ call' = [call EXCEPT !.pc = "answered", !.answer = Transport]
    /\ UNCHANGED <<healthy, atXolu, applied, log, redCalls>>

\* Faulty variant: the HTTP client of a write has no timeout.
GiveUpOnReads ==
    /\ call.pc = "sent"
    /\ call.tool \notin WriteTools
    /\ call' = [call EXCEPT !.pc = "answered", !.answer = Transport]
    /\ UNCHANGED <<healthy, atXolu, applied, log, redCalls>>

\* Faulty variant: the HTTP client sends a request again when it hears nothing.
GiveUpAndRetry ==
    /\ call.pc = "sent"
    /\ \/ call' = [call EXCEPT !.pc = "answered", !.answer = Transport]
       \/ call.sent < MaxRequests /\ call' = [call EXCEPT !.pc = "send"]
    /\ UNCHANGED <<healthy, atXolu, applied, log, redCalls>>

\* The client's timeout fires or the connection breaks: xolu may not have begun.
GiveUp ==
    /\ call.pc = "sent"
    /\ call' = [call EXCEPT !.pc = "answered", !.answer = Transport]
    /\ UNCHANGED <<healthy, atXolu, applied, log, redCalls>>

\* xolu answers the request the client waits for; garbled is a 200 molu cannot decode.
Answer ==
    /\ call.pc = "sent"
    /\ call.tool \in WriteTools => call.try \in atXolu
    /\ \E kind \in AnswerKinds \ {"transport"}, words \in SUBSET Words, did \in BOOLEAN :
        /\ kind \notin {"404", "untyped"} => words = {}
        /\ call.tool \in WriteTools /\ kind \in Good \cup {"garbled"} => did
        /\ kind \in {"404", "typed", "untyped"} \/ call.tool \notin WriteTools => ~did
        /\ call' = [call EXCEPT !.pc = "answered", !.answer = [kind |-> kind, words |-> words]]
        /\ applied' = IF did THEN applied \cup {call.try} ELSE applied
    /\ atXolu' = atXolu \ {call.try}
    /\ UNCHANGED <<healthy, log, redCalls>>

\* xolu gets to a write after molu stopped waiting for it, or drops it.
LateWrite ==
    /\ \E t \in atXolu, did \in BOOLEAN :
        /\ call.try = t => call.pc # "sent"
        /\ atXolu' = atXolu \ {t}
        /\ applied' = IF did THEN applied \cup {t} ELSE applied
    /\ UNCHANGED <<healthy, call, log, redCalls>>

(***************************************************************************)
(* executeTool: the words of err.Error(), and the code for the agent.      *)
(***************************************************************************)
Text == call.answer.words \cup (IF call.answer.kind = "404" THEN {"missing"} ELSE {})

\* Faulty variant: a walk that xolu did not answer counts as a rejected one.
FailureCodeAssumesRejected ==
    CASE call.answer.kind = "typed" -> "XOLU"
      [] call.answer.kind = "5xx" -> "SUBSTRATE_UNAVAILABLE"
      [] call.answer.kind \notin {"typed", "5xx"} /\ call.tool \in NotFoundTools /\ "missing" \in Text -> "NOT_FOUND"
      [] call.tool = "walk" /\ call.answer.kind = "transport" /\ "missing" \notin Text -> "INVALID_TRANSITION"
      [] OTHER -> "INTERNAL"

FailureCode ==
    CASE call.answer.kind = "typed" -> "XOLU"
      [] call.answer.kind = "5xx" -> "SUBSTRATE_UNAVAILABLE"
      [] OTHER ->
            IF call.tool \in NotFoundTools /\ "missing" \in Text THEN "NOT_FOUND"
            ELSE IF call.tool = "walk" /\ "rejected" \in Text THEN "INVALID_TRANSITION"
            ELSE "INTERNAL"

\* describe reports a group or a suggestion xolu refuses and goes on.
Tolerated == call.tool = "describe" /\ call.answer.kind \in {"404", "typed"}

\* Faulty variant: an empty page does not end the loop.
GoOnWithoutEnd ==
    /\ call.answer.kind \in Good \/ Tolerated
    /\ call.tool \in ManyRequests
    /\ call.sent < MaxRequests \/ call.answer.kind = "no_rows"
    /\ call' = [call EXCEPT !.pc = "send", !.answer = NoAnswer,
                            !.rows = @ \/ call.answer.kind = "rows"]
    /\ UNCHANGED log

\* More requests of the same call: the next page, group or calendar.
GoOn ==
    /\ call.answer.kind \in Good \/ Tolerated
    /\ call.tool \in ManyRequests
    /\ call.sent < MaxRequests
    /\ call' = [call EXCEPT !.pc = "send", !.answer = NoAnswer,
                            !.rows = @ \/ call.answer.kind = "rows"]
    /\ UNCHANGED log

Succeed ==
    /\ call.answer.kind \in Good \/ Tolerated
    /\ LET empty == call.answer.kind = "no_rows" /\ ~call.rows /\ call.tool \in EmptyTools
       IN Reply(IF empty THEN "EMPTY" ELSE "OK", call.answer.kind)

\* describe was given a name and no group lists it: a typed error, although xolu
\* answered.  The rows of a describe are the items of the name it was given.
NothingOfThatName ==
    /\ call.tool = "describe"
    /\ call.answer.kind \in {"no_rows", "404"} /\ ~call.rows
    /\ Reply("NOT_FOUND", call.answer.kind)

Fail ==
    /\ call.answer.kind \notin Good
    /\ Reply(FailureCode, call.answer.kind)

\* Faulty variant: a page that fails ends the list as a short page does.
FinishKeepsPartialList ==
    /\ call.pc = "answered"
    /\ \/ GoOn
       \/ Succeed
       \/ NothingOfThatName
       \/ call.tool = "list" /\ call.answer.kind \notin Good /\ call.rows /\ Reply("OK", call.answer.kind)
       \/ Fail
    /\ UNCHANGED <<healthy, atXolu, applied, redCalls>>

Finish ==
    /\ call.pc = "answered"
    /\ GoOn \/ Succeed \/ NothingOfThatName \/ Fail
    /\ UNCHANGED <<healthy, atXolu, applied, redCalls>>

\* The probe turns red, or green again.
ProbeTurns ==
    /\ healthy' = ~healthy
    /\ redCalls' = {}
    /\ UNCHANGED <<call, atXolu, applied, log>>

Init ==
    /\ healthy = TRUE
    /\ call = NoCall
    /\ atXolu = {}
    /\ applied = {}
    /\ log = [t \in Tries |-> NotCalled]
    /\ redCalls = {}

ServerStep == CheckHealth \/ CheckOffer \/ CheckContract \/ Send \/ Finish

Next == Call \/ ServerStep \/ Refused \/ GiveUp \/ Answer \/ LateWrite \/ ProbeTurns

\* The serve loop runs on, and the HTTP client has a timeout; xolu owes nothing.
Spec == Init /\ [][Next]_vars /\ WF_vars(ServerStep) /\ WF_vars(GiveUp)

-----------------------------------------------------------------------------

Causes == {"gate", "offer", "contract"} \cup AnswerKinds

TypeOK ==
    /\ healthy \in BOOLEAN
    /\ call \in [pc : {"idle", "gate", "offer", "contract", "send", "sent", "answered"},
                 try : 0..MaxTries, tool : Tools \cup {"none"}, valid : BOOLEAN,
                 words : SUBSET IdWords, notify : BOOLEAN, sent : 0..MaxRequests,
                 rows : BOOLEAN,
                 answer : [kind : AnswerKinds \cup {"none"}, words : SUBSET Words]]
    /\ atXolu \subseteq Tries
    /\ applied \subseteq Tries
    /\ log \in [Tries -> [tool : Tools \cup {"none"}, code : Codes \cup {"none"},
                         cause : Causes \cup {"none"}]]
    /\ redCalls \subseteq Tries

\* The codes that tell the agent its call did nothing and may be put right and repeated.
Refusals == {"NOT_OFFERED", "CONTRACT_VIOLATION", "NOT_FOUND", "INVALID_TRANSITION", "XOLU"}

(***************************************************************************)
(* A call refused by the offer, the contract, xolu or the gate has changed *)
(* nothing and never will: no write of it is applied or still on its way.  *)
(* What the agent corrects and repeats cannot happen twice.                *)
(***************************************************************************)
RefusalIsFinal ==
    \A t \in Tries :
        log[t].code \in Refusals \/ log[t].cause = "gate" => t \notin applied \cup atXolu

(***************************************************************************)
(* The calls keep the promise of AtMostOnce: no write is sent twice, and   *)
(* neither a success nor a refusal the agent was told of is ever belied by *)
(* xolu, even by a request that is applied after molu stopped waiting.     *)
(***************************************************************************)
Effect(t) == IF t \in atXolu THEN "pending" ELSE IF t \in applied THEN "applied" ELSE "none"

Verdict(t) ==
    IF log[t].code = "none" THEN "nothing"
    ELSE IF \/ log[t].tool \notin WriteTools
            \/ log[t].code \in Refusals
            \/ log[t].cause = "gate"
         THEN "unchanged"
         ELSE IF log[t].code \in {"OK", "EMPTY"} THEN "applied" ELSE "unknown"

Promise == INSTANCE AtMostOnce WITH
    Try <- Tries,
    effect <- [t \in Tries |-> Effect(t)],
    told <- [t \in Tries |-> Verdict(t)]

IsAtMostOnce == Promise!Spec

(***************************************************************************)
(* A call that succeeds is done, whole: a write is applied, and no request *)
(* of a call that issues several has failed.                               *)
(***************************************************************************)
SuccessIsWhole ==
    \A t \in Tries : log[t].code \in {"OK", "EMPTY"} =>
        /\ log[t].tool \in WriteTools => t \in applied
        /\ log[t].cause \in Good \/ log[t].tool = "describe"

(***************************************************************************)
(* While the probe stays red at most one call, caught by the change, still *)
(* sends requests to xolu.                                                 *)
(***************************************************************************)
RedCostsOneCall == Cardinality(redCalls) <= 1

\* Every call the agent makes ends, whatever xolu does or fails to do.
EveryCallEnds ==
    \A t \in Tries : log[t].tool # "none" ~> log[t].code # "none"

\* What says that an object does not exist: an answer of xolu that refuses the request,
\* and for describe, which looks a name up in listings, a listing without it.
SaysMissing(tool, cause) ==
    cause \in {"404", "untyped"} \/ (tool = "describe" /\ cause = "no_rows")

(***************************************************************************)
(* NOT_FOUND is told only when xolu was heard to have no such object       *)
(* (docs/runbook.md, section 3).  The code breaks this when an id holds    *)
(* the words it looks for: the text of a transport error quotes the id.    *)
(***************************************************************************)
NotFoundMeansMissing ==
    \A t \in Tries : log[t].code = "NOT_FOUND" => SaysMissing(log[t].tool, log[t].cause)

=============================================================================
