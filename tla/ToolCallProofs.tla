--------------------------- MODULE ToolCallProofs ---------------------------
(***************************************************************************)
(* The calls of ToolCall keep the promise of AtMostOnce, and the gate      *)
(* costs a red xolu one call, for every set of primitives and every bound. *)
(* The text of a transport error quotes ids: only what rests on reading it *)
(* assumes that no id holds a word the client looks for (PlainIds).  The   *)
(* inductive invariant IInv says what the call in hand has done so far.    *)
(***************************************************************************)
EXTENDS ToolCall, FiniteSetTheorems, TLAPS

\* The ids hold none of the words, which docs/runbook.md takes for granted.
PlainIds == IdWords = {}

\* The words of a failure are xolu's own, not those of an id.
Heard(cause) == cause # "transport" \/ PlainIds

\* The log of the call in hand is open, and of those to come empty.
LogInv ==
    /\ call.pc = "idle" => call = NoCall
    /\ call.pc # "idle" => call.try \in Tries /\ log[call.try].tool = call.tool /\ call.tool \in Tools
    /\ call.pc # "idle" => log[call.try].code = "none"
    /\ \A t \in Tries : log[t].tool = "none" => log[t].code = "none"
    /\ \A t \in Tries : log[t].code = "none" => log[t].cause = "none"
    /\ \A t \in Tries : t # call.try /\ log[t].tool # "none" => log[t].code # "none"

\* How many requests the call in hand has sent.
SentInv ==
    /\ call.pc \in {"gate", "offer", "contract"} => call.sent = 0
    /\ call.pc = "send" => call.sent < MaxRequests /\ (call.tool \notin ManyRequests => call.sent = 0)

\* Writes on xolu are those of writing calls; the one in hand has none before it is sent.
EffectInv ==
    /\ \A t \in applied \cup atXolu : log[t].tool \in WriteTools
    /\ applied \cap atXolu = {}
    /\ call.pc \in {"gate", "offer", "contract", "send"} => call.try \notin applied \cup atXolu
    /\ call.pc = "sent" => call.try \notin applied

\* What an answer of xolu says about the write it answers.
AnswerInv ==
    call.pc = "answered" =>
        /\ call.answer.kind \in AnswerKinds
        /\ call.answer.kind \notin {"404", "untyped"} /\ Heard(call.answer.kind) => call.answer.words = {}
        /\ call.answer.kind \in {"404", "typed", "untyped"} => call.try \notin applied \cup atXolu
        /\ call.tool \in WriteTools /\ call.answer.kind \in Good => call.try \in applied

\* Only the call that passed the gate before it was red still sends.
RedInv ==
    /\ healthy => redCalls = {}
    /\ \A s, t \in redCalls : s = t
    /\ call.pc \in {"offer", "contract", "send", "sent", "answered"} => redCalls \subseteq {call.try}

\* What xolu refused is not done, and what it was not heard to lack is not missing.
RefusalInv ==
    \A t \in Tries : Heard(log[t].cause) =>
        /\ log[t].code \in Refusals \/ log[t].cause = "gate" => t \notin applied \cup atXolu
        /\ log[t].code = "NOT_FOUND" => SaysMissing(log[t].tool, log[t].cause)

IInv ==
    /\ TypeOK
    /\ LogInv
    /\ SentInv
    /\ EffectInv
    /\ AnswerInv
    /\ RedInv
    /\ RefusalInv
    /\ SuccessIsWhole

-----------------------------------------------------------------------------

LEMMA InitInv == Init => IInv
BY ToolCallAssumption DEF Init, IInv, TypeOK, LogInv, SentInv, EffectInv, AnswerInv, RedInv,
   RefusalInv, SuccessIsWhole, NoCall, NoAnswer, NotCalled, Refusals, Tries

\* The writing calls are no reads of several requests.
LEMMA WritesAreSingle == WriteTools \cap ManyRequests = {}
BY DEF WriteTools, ManyRequests

\* The types of the log's entries and of call.
Entry == [tool : Tools \cup {"none"}, code : Codes \cup {"none"}, cause : Causes \cup {"none"}]

CallRecord ==
    [pc : {"idle", "gate", "offer", "contract", "send", "sent", "answered"},
     try : 0..MaxTries, tool : Tools \cup {"none"}, valid : BOOLEAN, words : SUBSET IdWords,
     notify : BOOLEAN, sent : 0..MaxRequests, rows : BOOLEAN,
     answer : [kind : AnswerKinds \cup {"none"}, words : SUBSET Words]]

LEMMA NoCallType == NoCall \in CallRecord
<1>1. NoAnswer \in [kind : AnswerKinds \cup {"none"}, words : SUBSET Words]
  BY DEF NoAnswer
<1>2. 0 \in 0..MaxTries /\ 0 \in 0..MaxRequests
  BY ToolCallAssumption
<1> QED
  BY <1>1, <1>2 DEF NoCall, CallRecord

LEMMA NoneIsNoTool == "none" \notin Tools
BY ToolCallAssumption DEF Primitives

LEMMA EntryUpdated ==
    ASSUME NEW e \in Entry, NEW code, NEW cause
    PROVE  [e EXCEPT !.code = code, !.cause = cause] = [tool |-> e.tool, code |-> code, cause |-> cause]
<1>1. e = [tool |-> e.tool, code |-> e.code, cause |-> e.cause]
  BY DEF Entry
<1>2. [e EXCEPT !.code = code] = [tool |-> e.tool, code |-> code, cause |-> e.cause]
  BY <1>1
<1>3. [[tool |-> e.tool, code |-> code, cause |-> e.cause] EXCEPT !.cause = cause]
        = [tool |-> e.tool, code |-> code, cause |-> cause]
  OBVIOUS
<1>4. [e EXCEPT !.code = code, !.cause = cause] = [[e EXCEPT !.code = code] EXCEPT !.cause = cause]
  OBVIOUS
<1> QED
  BY <1>2, <1>3, <1>4

\* What Reply does to the log.
LEMMA ReplyLogs ==
    ASSUME TypeOK, NEW code \in Codes, NEW cause \in Causes, Reply(code, cause), call.try \in Tries
    PROVE  \E said \in Codes \ {"none"} :
              /\ said = IF call.notify THEN "unsaid" ELSE code
              /\ log' = [log EXCEPT ![call.try] = [tool |-> log[call.try].tool, code |-> said, cause |-> cause]]
              /\ log' \in [Tries -> Entry]
<1> DEFINE said == IF call.notify THEN "unsaid" ELSE code
           entry == [tool |-> log[call.try].tool, code |-> said, cause |-> cause]
<1>1. said \in Codes \ {"none"}
  BY DEF Codes
<1>2. log \in [Tries -> Entry]
  BY DEF TypeOK, Entry
<1>3. log[call.try] \in Entry
  BY <1>2
<1>4. entry \in Entry
  BY <1>1, <1>3 DEF Entry
<1>5. log' = [log EXCEPT ![call.try] = entry]
  <2> HIDE DEF said
  <2>1. log' = [log EXCEPT ![call.try].code = said, ![call.try].cause = cause]
    BY DEF Reply, said
  <2>2. [log[call.try] EXCEPT !.code = said, !.cause = cause] = entry
    BY <1>3, EntryUpdated
  <2> QED
    BY <1>2, <2>1, <2>2
<1> QED
  BY <1>1, <1>2, <1>4, <1>5

\* A step that answers the agent, given what it may say of the call in hand.
LEMMA ReplyInv ==
    ASSUME IInv, NEW code \in Codes, NEW cause \in Causes, Reply(code, cause), call.pc # "idle",
           UNCHANGED <<healthy, atXolu, applied, redCalls>>,
           ~call.notify /\ code \in Refusals /\ Heard(cause) => call.try \notin applied \cup atXolu,
           code = "NOT_FOUND" /\ Heard(cause) => SaysMissing(call.tool, cause),
           cause = "gate" => call.try \notin applied \cup atXolu,
           code \in {"OK", "EMPTY"} =>
                /\ call.tool \in WriteTools => call.try \in applied
                /\ cause \in Good \/ call.tool = "describe"
    PROVE  IInv'
<1>1. TypeOK /\ LogInv /\ EffectInv /\ RedInv /\ RefusalInv /\ SuccessIsWhole
  BY DEF IInv
<1>2. call.try \in Tries /\ log[call.try].tool = call.tool /\ call.tool \in Tools
  BY <1>1 DEF LogInv
<1>3. PICK said \in Codes \ {"none"} :
        /\ said = IF call.notify THEN "unsaid" ELSE code
        /\ log' = [log EXCEPT ![call.try] = [tool |-> call.tool, code |-> said, cause |-> cause]]
        /\ log' \in [Tries -> Entry]
  BY <1>1, <1>2, ReplyLogs
<1>4. call' = NoCall /\ DOMAIN log = Tries
  BY <1>1 DEF Reply, TypeOK
<1>5. TypeOK'
  BY <1>1, <1>3, <1>4, NoCallType DEF TypeOK, Entry, CallRecord
<1>6. LogInv'
  BY <1>1, <1>2, <1>3, <1>4, NoneIsNoTool DEF LogInv, NoCall
<1>7. SentInv' /\ AnswerInv'
  BY <1>4 DEF SentInv, AnswerInv, NoCall
<1>8. EffectInv'
  BY <1>1, <1>2, <1>3, <1>4 DEF EffectInv, TypeOK, NoCall
<1>9. RedInv'
  BY <1>1, <1>4 DEF RedInv, NoCall
<1>10. RefusalInv'
  BY <1>1, <1>2, <1>3, <1>4 DEF RefusalInv, Refusals
<1>11. SuccessIsWhole'
  BY <1>1, <1>2, <1>3, <1>4 DEF SuccessIsWhole
<1> QED
  BY <1>5, <1>6, <1>7, <1>8, <1>9, <1>10, <1>11 DEF IInv

\* A step of the call in hand that leaves the log alone.
LEMMA CallStepInv ==
    ASSUME IInv, UNCHANGED log, TypeOK', SentInv', EffectInv', AnswerInv', RedInv',
           call.pc # "idle", call'.pc # "idle", call'.try = call.try, call'.tool = call.tool,
           \A t \in Tries : t # call.try => (t \in applied <=> t \in applied') /\ (t \in atXolu <=> t \in atXolu')
    PROVE  IInv'
<1> USE DEF IInv
<1>1. LogInv'
  <2>1. call # NoCall /\ call' # NoCall
    BY DEF NoCall
  <2> QED
    BY <2>1 DEF LogInv
<1>2. RefusalInv'
  BY DEF RefusalInv, LogInv, Refusals, TypeOK
<1>3. SuccessIsWhole'
  BY DEF SuccessIsWhole, LogInv, TypeOK
<1> QED
  BY <1>1, <1>2, <1>3

-----------------------------------------------------------------------------
(***************************************************************************)
(* Every action preserves IInv.                                            *)
(***************************************************************************)

LEMMA CallActionInv == IInv /\ Call => IInv'
<1> SUFFICES ASSUME IInv, Call PROVE IInv'
  OBVIOUS
<1>1. PICK t \in Tries, tool \in Tools, valid \in BOOLEAN, words \in SUBSET IdWords, notify \in BOOLEAN :
        /\ log[t].tool = "none"
        /\ \A earlier \in 1..(t - 1) : log[earlier].tool # "none"
        /\ call' = [NoCall EXCEPT !.pc = "gate", !.try = t, !.tool = tool, !.valid = valid,
                                  !.words = words, !.notify = notify]
        /\ log' = [log EXCEPT ![t].tool = tool]
  BY DEF Call
<1>2. call.pc = "idle" /\ UNCHANGED <<healthy, atXolu, applied, redCalls>>
  BY DEF Call
<1>3. TypeOK /\ LogInv /\ EffectInv /\ RedInv /\ RefusalInv /\ SuccessIsWhole
  BY DEF IInv
<1>4. log \in [Tries -> Entry]
  BY <1>3 DEF TypeOK, Entry
<1>5. log' = [log EXCEPT ![t] = [tool |-> tool, code |-> "none", cause |-> "none"]]
  <2>1. log[t] \in Entry /\ log[t].code = "none" /\ log[t].cause = "none"
    BY <1>1, <1>2, <1>3, <1>4 DEF LogInv, NoCall
  <2>2. [log[t] EXCEPT !.tool = tool] = [tool |-> tool, code |-> "none", cause |-> "none"]
    BY <2>1 DEF Entry
  <2> QED
    BY <1>1, <1>4, <2>2
<1>6. t \notin applied \cup atXolu
  BY <1>1, <1>3 DEF EffectInv, WriteTools
<1>13. call'.pc = "gate" /\ call'.try = t /\ call'.tool = tool /\ call'.sent = 0
  BY <1>1 DEF NoCall
<1>14. call' \in CallRecord
  <2>1. t \in 0..MaxTries
    BY ToolCallAssumption DEF Tries
  <2> QED
    BY <1>1, <2>1, NoCallType DEF CallRecord
<1>7. TypeOK'
  BY <1>2, <1>3, <1>4, <1>5, <1>14 DEF TypeOK, Entry, CallRecord
<1>8. LogInv'
  <2>1. call.try = 0 /\ 0 \notin Tries
    BY <1>2, <1>3 DEF LogInv, NoCall, Tries
  <2>2. \A u \in Tries : u # t => log'[u] = log[u]
    BY <1>4, <1>5
  <2>3. log'[t].tool = tool /\ log'[t].code = "none" /\ log'[t].cause = "none"
    BY <1>4, <1>5
  <2> QED
    BY <1>3, <1>13, <2>1, <2>2, <2>3, NoneIsNoTool DEF LogInv
<1>9. SentInv' /\ AnswerInv'
  BY <1>13 DEF SentInv, AnswerInv
<1>10. EffectInv'
  BY <1>1, <1>2, <1>3, <1>4, <1>5, <1>6, <1>13 DEF EffectInv, TypeOK, WriteTools
<1>11. RedInv'
  BY <1>2, <1>3, <1>13 DEF RedInv
<1>12. RefusalInv' /\ SuccessIsWhole'
  BY <1>2, <1>3, <1>4, <1>5 DEF RefusalInv, SuccessIsWhole, Refusals
<1> QED
  BY <1>7, <1>8, <1>9, <1>10, <1>11, <1>12 DEF IInv

LEMMA CheckHealthInv == IInv /\ CheckHealth => IInv'
<1> SUFFICES ASSUME IInv, CheckHealth PROVE IInv'
  OBVIOUS
<1>1. CASE healthy
  <2>1. call' = [call EXCEPT !.pc = "offer"] /\ UNCHANGED <<log, healthy, atXolu, applied, redCalls>>
    BY <1>1 DEF CheckHealth
  <2>2. call.pc = "gate" /\ TypeOK /\ call \in CallRecord
    BY DEF CheckHealth, IInv, TypeOK, CallRecord
  <2>3. call'.pc = "offer" /\ call'.try = call.try /\ call'.tool = call.tool /\ call'.sent = call.sent /\ call' \in CallRecord
    BY <2>1, <2>2 DEF CallRecord
  <2>4. TypeOK'
    BY <2>1, <2>2, <2>3 DEF TypeOK, CallRecord
  <2>5. SentInv' /\ EffectInv' /\ AnswerInv'
    BY <2>1, <2>2, <2>3 DEF IInv, SentInv, EffectInv, AnswerInv
  <2>6. RedInv'
    BY <1>1, <2>1 DEF IInv, RedInv
  <2> QED
    BY <2>1, <2>2, <2>3, <2>4, <2>5, <2>6, CallStepInv
<1>2. CASE ~healthy
  <2>1. call.try \notin applied \cup atXolu
    BY DEF CheckHealth, IInv, EffectInv
  <2>2. Reply("SUBSTRATE_UNAVAILABLE", "gate") /\ UNCHANGED <<healthy, atXolu, applied, redCalls>>
    BY <1>2 DEF CheckHealth
  <2> QED
    BY <2>1, <2>2, ReplyInv DEF CheckHealth, Codes, Causes, Refusals
<1> QED
  BY <1>1, <1>2

LEMMA CheckOfferInv == IInv /\ CheckOffer => IInv'
<1> SUFFICES ASSUME IInv, CheckOffer PROVE IInv'
  OBVIOUS
<1>1. CASE call.tool \in Offered
  <2>1. call' = [call EXCEPT !.pc = "contract"] /\ UNCHANGED <<log, healthy, atXolu, applied, redCalls>>
    BY <1>1 DEF CheckOffer
  <2>2. call.pc = "offer" /\ TypeOK /\ call \in CallRecord
    BY DEF CheckOffer, IInv, TypeOK, CallRecord
  <2>3. call'.pc = "contract" /\ call'.try = call.try /\ call'.tool = call.tool /\ call'.sent = call.sent /\ call' \in CallRecord
    BY <2>1, <2>2 DEF CallRecord
  <2>4. TypeOK'
    BY <2>1, <2>2, <2>3 DEF TypeOK, CallRecord
  <2>5. SentInv' /\ EffectInv' /\ AnswerInv' /\ RedInv'
    BY <2>1, <2>2, <2>3 DEF IInv, SentInv, EffectInv, AnswerInv, RedInv
  <2> QED
    BY <2>1, <2>2, <2>3, <2>4, <2>5, CallStepInv
<1>2. CASE call.tool \notin Offered
  <2>1. call.try \notin applied \cup atXolu
    BY DEF CheckOffer, IInv, EffectInv
  <2>2. Reply("NOT_OFFERED", "offer") /\ UNCHANGED <<healthy, atXolu, applied, redCalls>>
    BY <1>2 DEF CheckOffer
  <2> QED
    BY <2>1, <2>2, ReplyInv DEF CheckOffer, Codes, Causes, Refusals
<1> QED
  BY <1>1, <1>2

LEMMA CheckContractInv == IInv /\ CheckContract => IInv'
<1> SUFFICES ASSUME IInv, CheckContract PROVE IInv'
  OBVIOUS
<1>1. CASE call.valid
  <2>1. call' = [call EXCEPT !.pc = "send"] /\ UNCHANGED <<log, healthy, atXolu, applied, redCalls>>
    BY <1>1 DEF CheckContract
  <2>2. call.pc = "contract" /\ TypeOK /\ call \in CallRecord
    BY DEF CheckContract, IInv, TypeOK, CallRecord
  <2>3. call'.pc = "send" /\ call'.try = call.try /\ call'.tool = call.tool /\ call'.sent = call.sent /\ call' \in CallRecord
    BY <2>1, <2>2 DEF CallRecord
  <2>4. TypeOK'
    BY <2>1, <2>2, <2>3 DEF TypeOK, CallRecord
  <2>5. SentInv' /\ EffectInv' /\ AnswerInv' /\ RedInv'
    BY ToolCallAssumption, <2>1, <2>2, <2>3 DEF IInv, SentInv, EffectInv, AnswerInv, RedInv
  <2> QED
    BY <2>1, <2>2, <2>3, <2>4, <2>5, CallStepInv
<1>2. CASE ~call.valid
  <2>1. call.try \notin applied \cup atXolu
    BY DEF CheckContract, IInv, EffectInv
  <2>2. Reply("CONTRACT_VIOLATION", "contract") /\ UNCHANGED <<healthy, atXolu, applied, redCalls>>
    BY <1>2 DEF CheckContract
  <2> QED
    BY <2>1, <2>2, ReplyInv DEF CheckContract, Codes, Causes, Refusals
<1> QED
  BY <1>1, <1>2

LEMMA SendInv == IInv /\ Send => IInv'
<1> SUFFICES ASSUME IInv, Send PROVE IInv'
  OBVIOUS
<1>1. call' = [call EXCEPT !.pc = "sent", !.sent = @ + 1] /\ UNCHANGED <<healthy, applied, log>>
  BY DEF Send
<1>2. call.pc = "send" /\ TypeOK /\ call \in CallRecord
  BY DEF Send, IInv, TypeOK, CallRecord
<1>3. call.try \in Tries /\ log[call.try].tool = call.tool
  BY <1>2 DEF IInv, LogInv
<1>4. call.sent + 1 \in 0..MaxRequests
  BY ToolCallAssumption, <1>2 DEF IInv, SentInv, CallRecord
<1>5. call'.pc = "sent" /\ call'.try = call.try /\ call'.tool = call.tool /\ call' \in CallRecord
  BY <1>1, <1>2, <1>4 DEF CallRecord
<1>6. TypeOK'
  BY <1>1, <1>2, <1>3, <1>5 DEF Send, TypeOK, CallRecord
<1>7. SentInv' /\ AnswerInv'
  BY <1>5 DEF SentInv, AnswerInv
<1>8. EffectInv'
  BY <1>1, <1>2, <1>3, <1>5 DEF Send, IInv, EffectInv
<1>9. RedInv'
  BY <1>1, <1>2, <1>5 DEF Send, IInv, RedInv
<1>10. \A t \in Tries : t # call.try => (t \in applied <=> t \in applied') /\ (t \in atXolu <=> t \in atXolu')
  BY DEF Send
<1> QED
  BY <1>1, <1>2, <1>5, <1>6, <1>7, <1>8, <1>9, <1>10, CallStepInv

\* Nothing is heard of the request: nothing can be read from the error either.
LEMMA UnheardInv ==
    ASSUME IInv, call.pc \in {"send", "sent"},
           call' = [call EXCEPT !.pc = "answered", !.answer = Transport],
           UNCHANGED <<healthy, atXolu, applied, log, redCalls>>
    PROVE  IInv'
<1>1. TypeOK /\ call \in CallRecord
  BY DEF IInv, TypeOK, CallRecord
<1>2. Transport \in [kind : AnswerKinds \cup {"none"}, words : SUBSET Words]
      /\ (PlainIds => Transport.words = {})
  BY ToolCallAssumption, <1>1 DEF Transport, AnswerKinds, CallRecord, PlainIds
<1>3. call'.pc = "answered" /\ call'.try = call.try /\ call'.tool = call.tool /\ call'.answer = Transport
      /\ call' \in CallRecord
  BY <1>1, <1>2 DEF CallRecord
<1>4. TypeOK'
  BY <1>1, <1>3 DEF TypeOK, CallRecord
<1>5. SentInv' /\ EffectInv'
  BY <1>3 DEF IInv, SentInv, EffectInv
<1>6. AnswerInv'
  BY <1>2, <1>3 DEF AnswerInv, AnswerKinds, Good, Transport, Heard
<1>7. RedInv'
  BY <1>3 DEF IInv, RedInv
<1> QED
  BY <1>3, <1>4, <1>5, <1>6, <1>7, CallStepInv

LEMMA AnswerActionInv == IInv /\ Answer => IInv'
<1> SUFFICES ASSUME IInv, Answer PROVE IInv'
  OBVIOUS
<1>1. PICK kind \in AnswerKinds \ {"transport"}, words \in SUBSET Words, did \in BOOLEAN :
        /\ kind \notin {"404", "untyped"} => words = {}
        /\ call.tool \in WriteTools /\ kind \in Good \cup {"garbled"} => did
        /\ kind \in {"404", "typed", "untyped"} \/ call.tool \notin WriteTools => ~did
        /\ call' = [call EXCEPT !.pc = "answered", !.answer = [kind |-> kind, words |-> words]]
        /\ applied' = IF did THEN applied \cup {call.try} ELSE applied
  BY DEF Answer
<1>2. call.pc = "sent" /\ atXolu' = atXolu \ {call.try} /\ UNCHANGED <<healthy, log, redCalls>>
  BY DEF Answer
<1>3. TypeOK /\ call \in CallRecord /\ call.try \in Tries /\ log[call.try].tool = call.tool
  BY <1>2 DEF IInv, TypeOK, CallRecord, LogInv
<1>4. call'.pc = "answered" /\ call'.try = call.try /\ call'.tool = call.tool /\ call' \in CallRecord
      /\ call'.answer.kind = kind /\ call'.answer.words = words
  BY <1>1, <1>3 DEF CallRecord
<1>5. TypeOK'
  BY <1>1, <1>2, <1>3, <1>4 DEF TypeOK, CallRecord
<1>6. SentInv'
  BY <1>4 DEF SentInv
<1>7. EffectInv'
  BY <1>1, <1>2, <1>3, <1>4 DEF IInv, EffectInv
<1>8. AnswerInv'
  BY <1>1, <1>2, <1>4 DEF IInv, EffectInv, AnswerInv
<1>9. RedInv'
  BY <1>2, <1>4 DEF IInv, RedInv
<1>10. \A t \in Tries : t # call.try => (t \in applied <=> t \in applied') /\ (t \in atXolu <=> t \in atXolu')
  BY <1>1, <1>2
<1> QED
  BY <1>2, <1>4, <1>5, <1>6, <1>7, <1>8, <1>9, <1>10, CallStepInv

LEMMA LateWriteInv == IInv /\ LateWrite => IInv'
<1> SUFFICES ASSUME IInv, LateWrite PROVE IInv'
  OBVIOUS
<1>1. PICK t \in atXolu, did \in BOOLEAN :
        /\ call.try = t => call.pc # "sent"
        /\ atXolu' = atXolu \ {t}
        /\ applied' = IF did THEN applied \cup {t} ELSE applied
  BY DEF LateWrite
<1>2. UNCHANGED <<healthy, call, log, redCalls>>
  BY DEF LateWrite
<1>3. TypeOK /\ TypeOK'
  BY <1>1, <1>2 DEF IInv, TypeOK
<1>4. LogInv' /\ SentInv' /\ RedInv'
  BY <1>2 DEF IInv, LogInv, SentInv, RedInv
<1>5. EffectInv' /\ AnswerInv'
  BY <1>1, <1>2 DEF IInv, EffectInv, AnswerInv
<1>6. RefusalInv' /\ SuccessIsWhole'
  BY <1>1, <1>2 DEF IInv, RefusalInv, SuccessIsWhole
<1> QED
  BY <1>3, <1>4, <1>5, <1>6 DEF IInv

\* The codes for a failure: a refusal only if xolu's answer is one.
LEMMA FailureCodeInv ==
    ASSUME IInv, call.pc = "answered"
    PROVE  /\ FailureCode \in Codes /\ FailureCode \notin {"none", "OK", "EMPTY"}
           /\ FailureCode \in Refusals /\ Heard(call.answer.kind) => call.try \notin applied \cup atXolu
           /\ FailureCode = "NOT_FOUND" /\ Heard(call.answer.kind) => SaysMissing(call.tool, call.answer.kind)
<1>1. AnswerInv
  BY DEF IInv
<1>2. CASE call.answer.kind \in {"typed", "404", "untyped"}
  BY <1>1, <1>2 DEF AnswerInv, FailureCode, Refusals, Codes, SaysMissing
<1>3. CASE call.answer.kind \notin {"typed", "404", "untyped"}
  <2>1. Heard(call.answer.kind) => Text = {}
    BY <1>1, <1>3 DEF AnswerInv, Text
  <2>2. FailureCode \in Codes /\ FailureCode \notin {"none", "OK", "EMPTY"}
    BY DEF FailureCode, Codes
  <2> QED
    BY <1>3, <2>1, <2>2 DEF FailureCode, Refusals
<1> QED
  BY <1>2, <1>3

LEMMA DescribeWritesNothing ==
    ASSUME IInv, call.pc # "idle", call.tool = "describe"
    PROVE  call.try \notin applied \cup atXolu
BY DEF IInv, LogInv, EffectInv, WriteTools

LEMMA FinishInv == IInv /\ Finish => IInv'
<1> SUFFICES ASSUME IInv, Finish PROVE IInv'
  OBVIOUS
<1>1. call.pc = "answered" /\ UNCHANGED <<healthy, atXolu, applied, redCalls>>
  BY DEF Finish
<1>2. TypeOK /\ call \in CallRecord /\ AnswerInv
  BY DEF IInv, TypeOK, CallRecord
<1>3. call.answer.kind \in Causes /\ call.answer.kind # "gate"
  BY <1>1, <1>2 DEF AnswerInv, Causes, AnswerKinds
<1>4. CASE GoOn
  <2>1. call' = [call EXCEPT !.pc = "send", !.answer = NoAnswer, !.rows = @ \/ call.answer.kind = "rows"]
        /\ UNCHANGED log /\ call.tool \in ManyRequests /\ call.sent < MaxRequests
    BY <1>4 DEF GoOn
  <2>2. NoAnswer \in [kind : AnswerKinds \cup {"none"}, words : SUBSET Words]
    BY DEF NoAnswer
  <2>3. (call.rows \/ call.answer.kind = "rows") \in BOOLEAN
    OBVIOUS
  <2>4. call'.pc = "send" /\ call'.try = call.try /\ call'.tool = call.tool /\ call'.sent = call.sent
        /\ call' \in CallRecord
    BY <1>2, <2>1, <2>2, <2>3 DEF CallRecord
  <2>5. TypeOK'
    BY <1>1, <1>2, <2>1, <2>4 DEF TypeOK, CallRecord
  <2>6. SentInv' /\ AnswerInv' /\ RedInv'
    BY <1>1, <2>1, <2>4 DEF IInv, SentInv, AnswerInv, RedInv
  <2>7. EffectInv'
    <3>1. call.try \in Tries /\ log[call.try].tool \notin WriteTools
      BY <1>1, <2>1, WritesAreSingle DEF IInv, LogInv
    <3> QED
      BY <1>1, <2>1, <2>4, <3>1 DEF IInv, EffectInv
  <2> QED
    BY <1>1, <2>1, <2>4, <2>5, <2>6, <2>7, CallStepInv
<1>5. CASE Succeed
  <2> DEFINE code == IF call.answer.kind = "no_rows" /\ ~call.rows /\ call.tool \in EmptyTools THEN "EMPTY" ELSE "OK"
  <2>1. Reply(code, call.answer.kind) /\ (call.answer.kind \in Good \/ Tolerated)
    BY <1>5 DEF Succeed
  <2>2. code \in Codes /\ code \notin Refusals
    BY DEF Codes, Refusals
  <2>3. call.tool \in WriteTools => call.try \in applied
    BY <1>1, <1>2, <2>1 DEF AnswerInv, Tolerated, WriteTools
  <2>4. call.answer.kind \in Good \/ call.tool = "describe"
    BY <2>1 DEF Tolerated
  <2> QED
    BY <1>1, <1>3, <2>1, <2>2, <2>3, <2>4, ReplyInv
<1>6. CASE Fail
  <2>1. Reply(FailureCode, call.answer.kind)
    BY <1>6 DEF Fail
  <2> QED
    BY <1>1, <1>3, <2>1, FailureCodeInv, ReplyInv
<1>7. CASE NothingOfThatName
  <2>1. Reply("NOT_FOUND", call.answer.kind) /\ SaysMissing(call.tool, call.answer.kind)
    BY <1>7 DEF NothingOfThatName, SaysMissing
  <2>2. call.try \notin applied \cup atXolu
    BY <1>1, <1>7, DescribeWritesNothing DEF NothingOfThatName
  <2>3. "NOT_FOUND" \in Codes /\ "NOT_FOUND" \notin {"OK", "EMPTY"}
    BY DEF Codes
  <2> QED
    BY <1>1, <1>3, <2>1, <2>2, <2>3, ReplyInv
<1> QED
  BY <1>4, <1>5, <1>6, <1>7 DEF Finish

LEMMA ProbeTurnsInv == IInv /\ ProbeTurns => IInv'
<1> SUFFICES ASSUME IInv, ProbeTurns PROVE IInv'
  OBVIOUS
<1> USE DEF ProbeTurns, IInv
<1>1. TypeOK' /\ LogInv' /\ SentInv' /\ EffectInv' /\ AnswerInv' /\ RedInv'
  BY DEF TypeOK, LogInv, SentInv, EffectInv, AnswerInv, RedInv
<1>2. RefusalInv' /\ SuccessIsWhole'
  BY DEF RefusalInv, SuccessIsWhole
<1> QED
  BY <1>1, <1>2

LEMMA NextInv == IInv /\ [Next]_vars => IInv'
<1> SUFFICES ASSUME IInv, [Next]_vars PROVE IInv'
  OBVIOUS
<1>1. CASE Call
  BY <1>1, CallActionInv
<1>2. CASE ServerStep
  BY <1>2, CheckHealthInv, CheckOfferInv, CheckContractInv, SendInv, FinishInv DEF ServerStep
<1>3. CASE Refused \/ GiveUp
  BY <1>3, UnheardInv DEF Refused, GiveUp
<1>4. CASE Answer
  BY <1>4, AnswerActionInv
<1>5. CASE LateWrite
  BY <1>5, LateWriteInv
<1>6. CASE ProbeTurns
  BY <1>6, ProbeTurnsInv
<1>7. CASE UNCHANGED vars
  BY <1>7 DEF vars, IInv, TypeOK, LogInv, SentInv, EffectInv, AnswerInv, RedInv, RefusalInv, SuccessIsWhole, Entry
<1> QED
  BY <1>1, <1>2, <1>3, <1>4, <1>5, <1>6, <1>7 DEF Next

-----------------------------------------------------------------------------
(***************************************************************************)
(* The theorems.                                                           *)
(***************************************************************************)

LEMMA Inductive == Spec => []IInv
BY InitInv, NextInv, PTL DEF Spec

(***************************************************************************)
(* Every call and every log entry has its type (server.go, client.go).     *)
(***************************************************************************)
THEOREM TypeCorrect == Spec => []TypeOK
BY Inductive, PTL DEF IInv

\* The words of an id change no refusal that xolu itself pronounced.
HeardRefusalIsFinal ==
    \A t \in Tries : log[t].cause # "transport" /\ (log[t].code \in Refusals \/ log[t].cause = "gate")
                        => t \notin applied \cup atXolu

(***************************************************************************)
(* Whatever words the ids hold, a call that the gate, the offer, the       *)
(* contract or an answer of xolu refused has changed nothing and never     *)
(* will: executeTool can only misread the text of a transport error.       *)
(***************************************************************************)
THEOREM HeardRefusalsAreFinal == Spec => []HeardRefusalIsFinal
<1>1. IInv => HeardRefusalIsFinal
  BY DEF IInv, RefusalInv, Heard, HeardRefusalIsFinal
<1> QED
  BY <1>1, Inductive, PTL

(***************************************************************************)
(* While the ids hold no such word, no refusal at all is ever belied.      *)
(***************************************************************************)
THEOREM RefusalsAreFinal == ASSUME PlainIds PROVE Spec => []RefusalIsFinal
<1>1. IInv => RefusalIsFinal
  BY DEF IInv, RefusalInv, Heard, RefusalIsFinal
<1> QED
  BY <1>1, Inductive, PTL

(***************************************************************************)
(* And NOT_FOUND means what docs/runbook.md says: the agent reads it only  *)
(* when xolu refused the request, or listed, for describe, nothing of that *)
(* name (server.go:333-397, describe.go:69-72).  Without PlainIds TLC      *)
(* shows the contrary.                                                     *)
(***************************************************************************)
THEOREM NotFoundIsMissing == ASSUME PlainIds PROVE Spec => []NotFoundMeansMissing
<1>1. IInv => NotFoundMeansMissing
  BY DEF IInv, RefusalInv, Heard, NotFoundMeansMissing
<1> QED
  BY <1>1, Inductive, PTL

(***************************************************************************)
(* A call that succeeded is done, whole.                                   *)
(***************************************************************************)
THEOREM SuccessesAreWhole == Spec => []SuccessIsWhole
BY Inductive, PTL DEF IInv

(***************************************************************************)
(* While the probe is red at most one call still sends requests to xolu.   *)
(***************************************************************************)
THEOREM RedIsCheap == Spec => []RedCostsOneCall
<1>1. IInv => RedCostsOneCall
  <2> SUFFICES ASSUME IInv PROVE RedCostsOneCall
    OBVIOUS
  <2>1. CASE redCalls = {}
    BY <2>1, FS_EmptySet DEF RedCostsOneCall
  <2>2. CASE redCalls # {}
    <3>1. PICK t : redCalls = {t}
      BY <2>2, Zenon DEF IInv, RedInv
    <3>2. Cardinality({t}) = 1
      BY FS_Singleton
    <3> QED
      BY <3>1, <3>2 DEF RedCostsOneCall
  <2> QED
    BY <2>1, <2>2
<1> QED
  BY <1>1, Inductive, PTL

-----------------------------------------------------------------------------
(***************************************************************************)
(* The refinement of AtMostOnce.                                           *)
(***************************************************************************)

\* What a step does to the promise of one call.
Keeps(t) ==
    \/ Effect(t)' = Effect(t) /\ Verdict(t)' = Verdict(t)
    \/ /\ Effect(t) = "none" /\ Effect(t)' = "pending"
       /\ Verdict(t) = "nothing" /\ Verdict(t)' = "nothing"
    \/ /\ Effect(t) = "pending" /\ Effect(t)' \in {"applied", "none"}
       /\ Verdict(t)' = Verdict(t)
    \/ /\ Verdict(t) = "nothing" /\ Effect(t)' = Effect(t)
       /\ \/ Effect(t) = "applied" /\ Verdict(t)' = "applied"
          \/ Effect(t) = "none" /\ Verdict(t)' = "unchanged"
          \/ Verdict(t)' = "unknown"

LEMMA KeepsIsAStep ==
    ASSUME NEW t \in Tries, Keeps(t),
           \A u \in Tries \ {t} : Effect(u)' = Effect(u) /\ Verdict(u)' = Verdict(u)
    PROVE  [Promise!Next]_(Promise!vars)
<1> DEFINE eff == [u \in Tries |-> Effect(u)]
           tol == [u \in Tries |-> Verdict(u)]
<1>1. eff' = [eff EXCEPT ![t] = Effect(t)'] /\ tol' = [tol EXCEPT ![t] = Verdict(t)']
  OBVIOUS
<1>2. eff[t] = Effect(t) /\ tol[t] = Verdict(t)
  OBVIOUS
<1>3. Verdict(t)' = Verdict(t) => tol' = tol
  BY <1>1, <1>2
<1>4. Effect(t)' = Effect(t) => eff' = eff
  BY <1>1, <1>2
<1> QED
  BY <1>1, <1>2, <1>3, <1>4
     DEF Keeps, Promise!Next, Promise!Send, Promise!Settle, Promise!Tell, Promise!vars

\* Steps that leave the promise alone.
LEMMA SameIsAStep ==
    ASSUME \A t \in Tries : Effect(t)' = Effect(t) /\ Verdict(t)' = Verdict(t)
    PROVE  [Promise!Next]_(Promise!vars)
BY DEF Promise!vars

\* An answer to the agent tells it of the call in hand what is so.
LEMMA ReplyIsAStep ==
    ASSUME IInv, NEW code \in Codes \ {"none"}, NEW cause \in Causes, Reply(code, cause), call.pc # "idle",
           UNCHANGED <<atXolu, applied>>,
           code \in Refusals \/ cause = "gate" => call.try \notin applied \cup atXolu,
           code \in {"OK", "EMPTY"} => cause # "gate",
           code \in {"OK", "EMPTY"} /\ call.tool \in WriteTools => call.try \in applied
    PROVE  [Promise!Next]_(Promise!vars)
<1>9. PICK t \in Tries : t = call.try
  BY DEF IInv, LogInv
<1>1. TypeOK /\ t \in Tries /\ log[t].tool = call.tool /\ log[t].code = "none"
  BY <1>9 DEF IInv, LogInv
<1>2. PICK said \in Codes \ {"none"} :
        /\ said = IF call.notify THEN "unsaid" ELSE code
        /\ log' = [log EXCEPT ![t] = [tool |-> log[t].tool, code |-> said, cause |-> cause]]
        /\ log' \in [Tries -> Entry]
  BY <1>1, <1>9, ReplyLogs
<1>3. DOMAIN log = Tries
  BY <1>1 DEF TypeOK
<1>4. \A u \in Tries \ {t} : Effect(u)' = Effect(u) /\ Verdict(u)' = Verdict(u)
  BY <1>2, <1>3 DEF Effect, Verdict
<1>5. Effect(t)' = Effect(t) /\ Verdict(t) = "nothing"
  BY <1>1, <1>9 DEF Effect, Verdict
<1>6. log'[t].tool = call.tool /\ log'[t].code = said /\ log'[t].cause = cause
  BY <1>1, <1>9, <1>2, <1>3
<1>7. CASE call.tool \notin WriteTools
  <2>1. Verdict(t)' = "unchanged"
    BY <1>2, <1>6, <1>7 DEF Verdict
  <2>2. Effect(t) = "none"
    BY <1>1, <1>9, <1>7 DEF IInv, EffectInv, Effect
  <2> QED
    BY <1>1, <1>9, <1>4, <1>5, <2>1, <2>2, KeepsIsAStep DEF Keeps
<1>8. CASE call.tool \in WriteTools
  <2>1. CASE said \in {"OK", "EMPTY"}
    <3>1. Verdict(t)' = "applied"
      BY <1>2, <1>6, <1>8, <2>1 DEF Verdict
    <3>2. Effect(t) = "applied"
      BY <1>1, <1>9, <1>2, <1>8, <2>1 DEF IInv, EffectInv, Effect
    <3> QED
      BY <1>1, <1>9, <1>4, <1>5, <3>1, <3>2, KeepsIsAStep DEF Keeps
  <2>2. CASE said \in Refusals \/ (cause = "gate" /\ said \notin {"OK", "EMPTY"})
    <3>1. Verdict(t)' = "unchanged"
      BY <1>2, <1>6, <1>8, <2>2 DEF Verdict, Refusals
    <3>2. Effect(t) = "none"
      BY <1>2, <1>9, <2>2 DEF Effect, Refusals
    <3> QED
      BY <1>1, <1>9, <1>4, <1>5, <3>1, <3>2, KeepsIsAStep DEF Keeps
  <2>3. CASE said \notin Refusals \cup {"OK", "EMPTY"} /\ cause # "gate"
    <3>1. Verdict(t)' = "unknown"
      BY <1>2, <1>6, <1>8, <2>3 DEF Verdict
    <3> QED
      BY <1>1, <1>9, <1>4, <1>5, <3>1, KeepsIsAStep DEF Keeps
  <2> QED
    BY <2>1, <2>2, <2>3
<1> QED
  BY <1>7, <1>8

LEMMA SendIsAStep == IInv /\ Send => [Promise!Next]_(Promise!vars)
<1> SUFFICES ASSUME IInv, Send PROVE [Promise!Next]_(Promise!vars)
  OBVIOUS
<1>7. PICK t \in Tries : t = call.try
  BY DEF Send, IInv, LogInv
<1>1. t \in Tries /\ log[t].code = "none" /\ t \notin applied \cup atXolu
  BY <1>7 DEF Send, IInv, LogInv, EffectInv
<1>2. UNCHANGED <<applied, log>> /\ atXolu' = IF call.tool \in WriteTools THEN atXolu \cup {t} ELSE atXolu
  BY <1>7 DEF Send
<1>3. \A u \in Tries : Verdict(u)' = Verdict(u)
  BY <1>2 DEF Verdict
<1>4. \A u \in Tries \ {t} : Effect(u)' = Effect(u)
  BY <1>2 DEF Effect
<1>5. CASE call.tool \notin WriteTools
  BY <1>2, <1>3, <1>5, SameIsAStep DEF Effect
<1>6. CASE call.tool \in WriteTools
  <2>1. Effect(t) = "none" /\ Effect(t)' = "pending" /\ Verdict(t) = "nothing"
    BY <1>1, <1>2, <1>6 DEF Effect, Verdict
  <2> QED
    BY <1>1, <1>3, <1>4, <2>1, KeepsIsAStep DEF Keeps
<1> QED
  BY <1>5, <1>6

\* xolu applies a write that was on its way, or drops it.
LEMMA SettleIsAStep ==
    ASSUME NEW t \in Tries, UNCHANGED log, t \in atXolu, atXolu' = atXolu \ {t},
           applied' = applied \/ applied' = applied \cup {t}
    PROVE  [Promise!Next]_(Promise!vars)
<1>1. \A u \in Tries : Verdict(u)' = Verdict(u)
  BY DEF Verdict
<1>2. \A u \in Tries \ {t} : Effect(u)' = Effect(u)
  BY DEF Effect
<1>3. Effect(t) = "pending" /\ Effect(t)' \in {"applied", "none"}
  BY DEF Effect
<1> QED
  BY <1>1, <1>2, <1>3, KeepsIsAStep DEF Keeps

LEMMA AnswerIsAStep == IInv /\ Answer => [Promise!Next]_(Promise!vars)
<1> SUFFICES ASSUME IInv, Answer PROVE [Promise!Next]_(Promise!vars)
  OBVIOUS
<1>5. PICK t \in Tries : t = call.try
  BY DEF Answer, IInv, LogInv
<1>1. t \in Tries /\ log[t].tool = call.tool
  BY <1>5 DEF Answer, IInv, LogInv
<1>2. UNCHANGED log /\ atXolu' = atXolu \ {t} /\ (call.tool \in WriteTools => t \in atXolu)
  BY <1>5 DEF Answer
<1>3. CASE call.tool \in WriteTools
  <2>1. applied' = applied \/ applied' = applied \cup {t}
    BY <1>5 DEF Answer
  <2> QED
    BY <1>1, <1>2, <1>3, <2>1, SettleIsAStep
<1>4. CASE call.tool \notin WriteTools
  <2>1. applied' = applied
    BY <1>4 DEF Answer
  <2>2. t \notin atXolu
    BY <1>1, <1>4 DEF IInv, EffectInv
  <2> QED
    BY <1>2, <2>1, <2>2, SameIsAStep DEF Effect, Verdict
<1> QED
  BY <1>3, <1>4

LEMMA CallIsAStep == IInv /\ Call => [Promise!Next]_(Promise!vars)
<1> SUFFICES ASSUME IInv, Call PROVE [Promise!Next]_(Promise!vars)
  OBVIOUS
<1>1. PICK t \in Tries, tool \in Tools : log[t].tool = "none" /\ log' = [log EXCEPT ![t].tool = tool]
  BY DEF Call
<1>2. log \in [Tries -> Entry] /\ log[t].code = "none" /\ UNCHANGED <<atXolu, applied>>
  BY <1>1 DEF Call, IInv, TypeOK, Entry, LogInv
<1>3. \A u \in Tries \ {t} : log'[u] = log[u]
  BY <1>1, <1>2
<1>4. log'[t].code = log[t].code
  BY <1>1, <1>2 DEF Entry
<1>5. \A u \in Tries : Effect(u)' = Effect(u)
  BY <1>2 DEF Effect
<1>6. \A u \in Tries : Verdict(u)' = Verdict(u)
  BY <1>2, <1>3, <1>4 DEF Verdict
<1> QED
  BY <1>5, <1>6, SameIsAStep

LEMMA FinishIsAStep == PlainIds /\ IInv /\ Finish => [Promise!Next]_(Promise!vars)
<1> SUFFICES ASSUME PlainIds, IInv, Finish PROVE [Promise!Next]_(Promise!vars)
  OBVIOUS
<1>1. call.pc = "answered" /\ UNCHANGED <<atXolu, applied>> /\ AnswerInv
  BY DEF Finish, IInv
<1>2. call.answer.kind \in Causes /\ call.answer.kind # "gate"
  BY <1>1 DEF AnswerInv, Causes, AnswerKinds
<1>3. CASE GoOn
  BY <1>1, <1>3, SameIsAStep DEF GoOn, Effect, Verdict
<1>4. CASE Succeed
  <2> DEFINE code == IF call.answer.kind = "no_rows" /\ ~call.rows /\ call.tool \in EmptyTools THEN "EMPTY" ELSE "OK"
  <2>1. Reply(code, call.answer.kind) /\ (call.answer.kind \in Good \/ Tolerated)
    BY <1>4 DEF Succeed
  <2>2. code \in Codes \ {"none"} /\ code \notin Refusals
    BY DEF Codes, Refusals
  <2>3. call.tool \in WriteTools => call.try \in applied
    BY <1>1, <2>1 DEF AnswerInv, Tolerated, WriteTools
  <2> QED
    BY <1>1, <1>2, <2>1, <2>2, <2>3, ReplyIsAStep
<1>5. CASE Fail
  <2>1. Reply(FailureCode, call.answer.kind)
    BY <1>5 DEF Fail
  <2>2. FailureCode \in Codes \ {"none"}
    BY <1>1, FailureCodeInv DEF Codes
  <2> QED
    BY <1>1, <1>2, <2>1, <2>2, FailureCodeInv, ReplyIsAStep DEF Heard
<1>6. CASE NothingOfThatName
  <2>1. Reply("NOT_FOUND", call.answer.kind) /\ call.try \notin applied \cup atXolu
    BY <1>1, <1>6, DescribeWritesNothing DEF NothingOfThatName
  <2> QED
    BY <1>1, <1>2, <2>1, ReplyIsAStep DEF Codes
<1> QED
  BY <1>3, <1>4, <1>5, <1>6 DEF Finish

LEMMA GateIsAStep == IInv /\ (CheckHealth \/ CheckOffer \/ CheckContract) => [Promise!Next]_(Promise!vars)
<1> SUFFICES ASSUME IInv, CheckHealth \/ CheckOffer \/ CheckContract PROVE [Promise!Next]_(Promise!vars)
  OBVIOUS
<1>1. UNCHANGED <<atXolu, applied>> /\ call.pc # "idle" /\ call.try \notin applied \cup atXolu
  BY DEF CheckHealth, CheckOffer, CheckContract, IInv, EffectInv
<1>2. CASE UNCHANGED log
  BY <1>1, <1>2, SameIsAStep DEF Effect, Verdict
<1>3. CASE Reply("SUBSTRATE_UNAVAILABLE", "gate")
  BY <1>1, <1>3, ReplyIsAStep DEF Codes, Causes
<1>4. CASE Reply("NOT_OFFERED", "offer")
  BY <1>1, <1>4, ReplyIsAStep DEF Codes, Causes
<1>5. CASE Reply("CONTRACT_VIOLATION", "contract")
  BY <1>1, <1>5, ReplyIsAStep DEF Codes, Causes
<1> QED
  BY <1>2, <1>3, <1>4, <1>5 DEF CheckHealth, CheckOffer, CheckContract

(***************************************************************************)
(* Each call takes effect at most once, and what the agent is told of it   *)
(* (executeTool, server.go) stays true: ToolCall implements AtMostOnce.    *)
(***************************************************************************)
THEOREM CallsAreAtMostOnce == ASSUME PlainIds PROVE Spec => IsAtMostOnce
<1>1. Init => Promise!Init
  BY DEF Init, Promise!Init, Effect, Verdict, NotCalled
<1>2. IInv /\ [Next]_vars => [Promise!Next]_(Promise!vars)
  <2> SUFFICES ASSUME IInv, [Next]_vars PROVE [Promise!Next]_(Promise!vars)
    OBVIOUS
  <2>1. CASE Call
    BY <2>1, CallIsAStep
  <2>2. CASE ServerStep
    BY <2>2, GateIsAStep, SendIsAStep, FinishIsAStep DEF ServerStep
  <2>3. CASE Refused \/ GiveUp \/ ProbeTurns \/ UNCHANGED vars
    BY <2>3, SameIsAStep DEF Refused, GiveUp, ProbeTurns, vars, Effect, Verdict
  <2>4. CASE Answer
    BY <2>4, AnswerIsAStep
  <2>5. CASE LateWrite
    <3>1. PICK t \in atXolu : atXolu' = atXolu \ {t} /\ (applied' = applied \/ applied' = applied \cup {t})
      BY <2>5 DEF LateWrite
    <3>2. t \in Tries
      BY DEF IInv, TypeOK
    <3> QED
      BY <2>5, <3>1, <3>2, SettleIsAStep DEF LateWrite
  <2> QED
    BY <2>1, <2>2, <2>3, <2>4, <2>5 DEF Next
<1> QED
  BY <1>1, <1>2, Inductive, PTL DEF Spec, IsAtMostOnce, Promise!Spec
=============================================================================
