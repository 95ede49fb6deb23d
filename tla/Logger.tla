------------------------------- MODULE Logger -------------------------------
(***************************************************************************)
(* The loggers of pkg/telemetry/logger.go: every call of WithContext and   *)
(* WithFields wraps a logger in another one, and what it adds is held by   *)
(* reference: a RequestContext, which requests share, and a map of fields. *)
(* Whoever holds a logger goes on deriving from it, and what another       *)
(* branch adds must not show in its lines.                                 *)
(*                                                                         *)
(* The four domains are treated alike and levels are left out.  Callers    *)
(* pass maps and contexts they do not change afterwards.                   *)
(***************************************************************************)
EXTENDS Naturals, Sequences

CONSTANTS
    Ids,        \* RequestID, TraceID and SpanID
    Labels,     \* the other members of a RequestContext
    Keys,       \* keys of fields
    Values,     \* what an id, a label or a field is set to
    MaxLoggers, \* bound: loggers derived
    MaxRequests \* bound: requests

ASSUME LoggerAssumption ==
    /\ Ids \cap Labels = {}
    /\ MaxLoggers \in Nat \ {0}
    /\ MaxRequests \in Nat

None == "none"      \* the empty string, or no such key

ASSUME NoneAssumption == None \notin Values

Contexts == [Ids \cup Labels -> Values \cup {None}]
Maps == [Keys -> Values \cup {None}]

VARIABLES
    loggers,    \* the loggers there are; the first is zerologLogger
    contexts,   \* the RequestContexts in memory
    maps,       \* the maps of fields in memory
    given       \* history: what each logger was derived with

loggerVars == <<loggers, contexts, maps, given>>

NoRef == 0
Base == [rc |-> NoRef, fields |-> NoRef]
NoContext == [m \in Ids \cup Labels |-> None]
NoFields == [k \in Keys |-> None]

\* What is set in later replaces what was there.
Over(earlier, later) ==
    [k \in DOMAIN earlier |-> IF later[k] # None THEN later[k] ELSE earlier[k]]

Put(logger, history) ==
    /\ Len(loggers) < MaxLoggers
    /\ loggers' = Append(loggers, logger)
    /\ given' = Append(given, history)

(***************************************************************************)
(* WithFields.  zerologLogger and contextLogger keep the caller's map, the *)
(* loggers that have fields make a new one.                                *)
(***************************************************************************)
\* Faulty variant: the new fields go into the map the logger has.
WithFieldsInPlace(l, f) ==
    /\ LET ref == loggers[l].fields
       IN  IF ref = NoRef
           THEN /\ maps' = Append(maps, f)
                /\ Put([loggers[l] EXCEPT !.fields = Len(maps) + 1],
                       [given[l] EXCEPT !.fields = Over(@, f)])
           ELSE /\ maps' = [maps EXCEPT ![ref] = Over(@, f)]
                /\ Put(loggers[l], [given[l] EXCEPT !.fields = Over(@, f)])
    /\ UNCHANGED contexts

WithFields(l, f) ==
    /\ LET ref == loggers[l].fields
       IN  maps' = Append(maps, IF ref = NoRef THEN f ELSE Over(maps[ref], f))
    /\ Put([loggers[l] EXCEPT !.fields = Len(maps) + 1],
           [given[l] EXCEPT !.fields = Over(@, f)])
    /\ UNCHANGED contexts

(***************************************************************************)
(* WithContext.  All fields go: fieldsLogger asks the logger it wraps, and *)
(* contextFieldsLogger has the method from the contextLogger inside it.    *)
(* The first context is kept as it is, further ones are merged into a copy.*)
(***************************************************************************)
WithFirstContext(l, c) ==
    /\ loggers[l].rc = NoRef
    /\ \E m \in Ids : contexts[c][m] # None
    /\ Put([rc |-> c, fields |-> NoRef], [context |-> contexts[c], fields |-> NoFields])
    /\ UNCHANGED <<contexts, maps>>

\* Without an id the logger below the fields is returned as it is.
WithUselessContext(l, c) ==
    /\ loggers[l].rc = NoRef
    /\ \A m \in Ids : contexts[c][m] = None
    /\ Put(Base, [context |-> NoContext, fields |-> NoFields])
    /\ UNCHANGED <<contexts, maps>>

WithFurtherContext(l, c) ==
    /\ loggers[l].rc # NoRef
    /\ contexts' = Append(contexts, Over(contexts[loggers[l].rc], contexts[c]))
    /\ Put([rc |-> Len(contexts) + 1, fields |-> NoRef],
           [context |-> Over(given[l].context, contexts[c]), fields |-> NoFields])
    /\ UNCHANGED maps

WithContext(l, c) ==
    WithFirstContext(l, c) \/ WithUselessContext(l, c) \/ WithFurtherContext(l, c)

\* A request comes with a RequestContext, which whoever holds its ctx can find.
Request(content) ==
    /\ Len(contexts) < MaxRequests
    /\ contexts' = Append(contexts, content)
    /\ UNCHANGED <<loggers, maps, given>>

\* A line is put together anew from what the logger holds, and changes none of it.
Log(l) == l \in DOMAIN loggers /\ UNCHANGED loggerVars

LoggerInit ==
    /\ loggers = <<Base>>
    /\ contexts = <<>>
    /\ maps = <<>>
    /\ given = <<[context |-> NoContext, fields |-> NoFields]>>

LoggerNext ==
    \/ \E l \in DOMAIN loggers :
        \/ \E f \in Maps : WithFields(l, f)
        \/ \E c \in DOMAIN contexts : WithContext(l, c)
        \/ Log(l)
    \/ \E content \in Contexts : Request(content)

LoggerSpec == LoggerInit /\ [][LoggerNext]_loggerVars

-----------------------------------------------------------------------------

LoggerTypeOK ==
    /\ contexts \in Seq(Contexts)
    /\ maps \in Seq(Maps)
    /\ loggers \in Seq([rc : 0..Len(contexts), fields : 0..Len(maps)])
    /\ given \in Seq([context : Contexts, fields : Maps])
    /\ Len(given) = Len(loggers)

\* What System, Application, Security and Network put into a line.
Line(l) ==
    [context |-> IF loggers[l].rc = NoRef THEN NoContext ELSE contexts[loggers[l].rc],
     fields |-> IF loggers[l].fields = NoRef THEN NoFields ELSE maps[loggers[l].fields]]

(***************************************************************************)
(* A logger's lines carry what it was derived with and nothing else, for   *)
(* as long as it lives: the ids given last on its own way from the base    *)
(* logger, whatever of a context was left empty, and the fields given      *)
(* since its last context; deriving further loggers from it, from those it *)
(* came from or from its siblings changes none of its lines.               *)
(***************************************************************************)
LineIsItsDerivation == \A l \in DOMAIN loggers : Line(l) = given[l]
=============================================================================
