----------------------------- MODULE HotReload -----------------------------
(***************************************************************************)
(* How xolu's catalogue of tools reaches the MCP client: the schema loader *)
(* (pkg/schema/loader.go) refreshed by its ticker and by SIGHUP, the copy  *)
(* the MCP server serves (pkg/mcp/server.go), the list_changed             *)
(* notification, and the client that lists and calls tools over stdio.     *)
(*                                                                         *)
(* A catalogue is its version: xolu's are numbered as xolu changes.  The   *)
(* two refreshing goroutines, the serving goroutine and the client         *)
(* interleave; every step that holds a lock is one action.                 *)
(***************************************************************************)
EXTENDS Integers, Sequences

CONSTANTS
    MaxVersion,     \* bound: how often xolu's catalogue changes
    PipeSize,       \* messages the client may leave unread on stdout
    MayAnswerBlank  \* xolu may answer /schemas with a 4xx and a JSON body

ASSUME HotReloadAssumption ==
    /\ MaxVersion \in Nat
    /\ PipeSize \in Nat \ {0}
    /\ MayAnswerBlank \in BOOLEAN

Blank == -1         \* the empty list of primitives
Standard == -2      \* StandardPrimitives, the fallback of loaderProvider

Versions == 0..MaxVersion
Catalogues == {Blank, Standard} \cup Versions
Refreshers == {"ticker", "signal"}

VARIABLES
    xolu,       \* xolu's own catalogue (external)
    loader,     \* SchemaLoader.primitives
    late,       \* history: the refresh that put them there had been overtaken
    refresh,    \* the Refresh each goroutine is running
    hup,        \* a SIGHUP waits in sigCh, which holds one signal
    server,     \* Server.primitives
    update,     \* the list UpdatePrimitives was called with
    out,        \* Serve: Server.out is not set yet, set, or nil again
    serving,    \* the request the serve loop is working on
    pipe,       \* what the server wrote and the client has not read
    waiting,    \* the client has a request out
    listed,     \* the last list the client read
    mustList    \* the client read a notification and has not listed since

reload == <<xolu, loader, late, refresh, hup, server, update>>
client == <<waiting, listed, mustList>>
vars == <<reload, out, serving, pipe, client>>

\* loaderProvider.GetPrimitives: never nothing.
Provided == IF loader = Blank THEN Standard ELSE loader

Idle == [pc |-> "idle", got |-> Blank, from |-> 0, overtaken |-> FALSE]
NoRequest == [kind |-> "none", catalogue |-> Blank]
Response(kind, c) == [kind |-> kind, catalogue |-> c]
Changed == Response("list_changed", Blank)

(***************************************************************************)
(* SchemaLoader.Refresh: ask xolu, then swap what it answered.  The fields *)
(* from and overtaken are history: xolu's version when the refresh began,  *)
(* and whether the other refresh swapped meanwhile.                        *)
(***************************************************************************)
Ask(r) ==
    /\ refresh[r].pc = "idle"
    /\ refresh' = [refresh EXCEPT ![r] = [Idle EXCEPT !.pc = "asked", !.from = xolu]]

\* The ticker's tick; Run ignores the error and the server alike.
Tick ==
    /\ Ask("ticker")
    /\ UNCHANGED <<xolu, loader, late, hup, server, update, out, serving, pipe, client>>

\* The signal goroutine takes a SIGHUP out of sigCh.
TakeHup ==
    /\ hup
    /\ Ask("signal")
    /\ hup' = FALSE
    /\ UNCHANGED <<xolu, loader, late, server, update, out, serving, pipe, client>>

\* FetchSchemas: only a 5xx is an error, so a 4xx with a JSON body is a blank list.
XoluAnswers(r) ==
    /\ refresh[r].pc = "asked"
    /\ \E c \in {xolu} \cup (IF MayAnswerBlank THEN {Blank} ELSE {}) :
        refresh' = [refresh EXCEPT ![r].pc = "answered", ![r].got = c]
    /\ UNCHANGED <<xolu, loader, late, hup, server, update, out, serving, pipe, client>>

\* Faulty variant: a failed refresh reverts to the catalogue of the first load.
FetchFailsReverts(r) ==
    /\ refresh[r].pc = "asked"
    /\ refresh' = [refresh EXCEPT ![r] = Idle]
    /\ loader' = 0
    /\ UNCHANGED <<xolu, late, hup, server, update, out, serving, pipe, client>>

FetchFails(r) ==
    /\ refresh[r].pc = "asked"
    /\ refresh' = [refresh EXCEPT ![r] = Idle]
    /\ UNCHANGED <<xolu, loader, late, hup, server, update, out, serving, pipe, client>>

\* Faulty variant: the refresh of a SIGHUP drops what it fetched.
SwapDropsHup(r) ==
    /\ refresh[r].pc = "answered"
    /\ loader' = IF r = "signal" THEN loader ELSE refresh[r].got
    /\ late' = refresh[r].overtaken
    /\ refresh' = [q \in Refreshers |->
                    IF q = r
                    THEN IF r = "signal" THEN [refresh[r] EXCEPT !.pc = "swapped", !.got = Blank] ELSE Idle
                    ELSE [refresh[q] EXCEPT !.overtaken = refresh[q].pc # "idle"]]
    /\ UNCHANGED <<xolu, hup, server, update, out, serving, pipe, client>>

Swap(r) ==
    /\ refresh[r].pc = "answered"
    /\ loader' = refresh[r].got
    /\ late' = refresh[r].overtaken
    /\ refresh' = [q \in Refreshers |->
                    IF q = r
                    THEN IF r = "signal" THEN [refresh[r] EXCEPT !.pc = "swapped", !.got = Blank] ELSE Idle
                    ELSE [refresh[q] EXCEPT !.overtaken = refresh[q].pc # "idle"]]
    /\ UNCHANGED <<xolu, hup, server, update, out, serving, pipe, client>>

(***************************************************************************)
(* After a SIGHUP's Refresh: UpdatePrimitives(loader.GetPrimitives()), in  *)
(* three critical sections: read the loader, replace the server's list,    *)
(* write the notification.                                                 *)
(***************************************************************************)
\* Faulty variant: what is published is fetched again.
ReadLoaderAsksXolu ==
    /\ refresh["signal"].pc = "swapped"
    /\ refresh' = [refresh EXCEPT !["signal"].pc = "read"]
    /\ update' = xolu
    /\ UNCHANGED <<xolu, loader, late, hup, server, out, serving, pipe, client>>

ReadLoader ==
    /\ refresh["signal"].pc = "swapped"
    /\ refresh' = [refresh EXCEPT !["signal"].pc = "read"]
    /\ update' = loader
    /\ UNCHANGED <<xolu, loader, late, hup, server, out, serving, pipe, client>>

Replace(next) ==
    /\ server' = update
    /\ update' = Blank
    /\ refresh' = [refresh EXCEPT !["signal"].pc = next]
    /\ UNCHANGED <<xolu, loader, late, hup, out, serving, pipe, client>>

\* Write returns once the pipe takes the message; with out = nil it is dropped.
Notify(next) ==
    /\ out = "open" => Len(pipe) < PipeSize
    /\ pipe' = IF out = "open" THEN Append(pipe, Changed) ELSE pipe
    /\ refresh' = [refresh EXCEPT !["signal"] = next]
    /\ UNCHANGED <<xolu, loader, late, hup, server, update, out, serving, client>>

\* Faulty variant: the notification goes out before the list is replaced.
UpdateNotifiesFirst ==
    \/ refresh["signal"].pc = "read" /\ Notify([refresh["signal"] EXCEPT !.pc = "replaced"])
    \/ refresh["signal"].pc = "replaced" /\ Replace("idle")

\* Faulty variant: the list is replaced and nobody is told.
UpdateUntold == refresh["signal"].pc = "read" /\ Replace("idle")

UpdatePrimitives ==
    \/ refresh["signal"].pc = "read" /\ Replace("replaced")
    \/ refresh["signal"].pc = "replaced" /\ Notify(Idle)

(***************************************************************************)
(* Serve: one message at a time, answered before the next is read.         *)
(***************************************************************************)
StartServing ==
    /\ out = "unset"
    /\ out' = "open"
    /\ UNCHANGED <<reload, serving, pipe, client>>

\* The client closes stdin; Serve returns and sets out to nil.
Eof ==
    /\ out = "open" /\ ~waiting
    /\ out' = "nil"
    /\ UNCHANGED <<reload, serving, pipe, client>>

\* HandleListTools, under the read lock; the response is written later.
HandleList ==
    /\ serving = Response("list asked", Blank)
    /\ serving' = Response("list", server)
    /\ UNCHANGED <<reload, out, pipe, client>>

\* executeTool: isToolOffered reads the server's list, and ValidateInput the
\* loader's.  The call remembers the catalogue it was offered from.
CheckOffered ==
    /\ serving = Response("call asked", Blank)
    /\ serving' = Response("offered", server)
    /\ UNCHANGED <<reload, out, pipe, client>>

ValidateCall ==
    /\ serving.kind = "offered"
    /\ serving' = [serving EXCEPT !.kind = "call"]
    /\ UNCHANGED <<reload, out, pipe, client>>

WriteResponse ==
    /\ serving.kind \in {"list", "call"}
    /\ Len(pipe) < PipeSize
    /\ pipe' = Append(pipe, Response(serving.kind, serving.catalogue))
    /\ serving' = NoRequest
    /\ UNCHANGED <<reload, out, client>>

(***************************************************************************)
(* The client: lists, calls, and lists again after a notification.         *)
(***************************************************************************)
Send(kind) ==
    /\ out = "open" /\ ~waiting
    /\ waiting' = TRUE
    /\ serving' = Response(kind, Blank)
    /\ UNCHANGED <<reload, out, pipe, listed>>

SendList == Send("list asked") /\ mustList' = FALSE
SendCall == Send("call asked") /\ UNCHANGED mustList

ReadMessage ==
    /\ pipe # <<>>
    /\ pipe' = Tail(pipe)
    /\ LET m == Head(pipe)
       IN  /\ waiting' = (waiting /\ m = Changed)
           /\ listed' = IF m.kind = "list" THEN m.catalogue ELSE listed
           /\ mustList' = (mustList \/ m = Changed)
    /\ UNCHANGED <<reload, out, serving>>

(***************************************************************************)
(* The world outside: xolu changes its catalogue, the operator sends       *)
(* SIGHUP (a second one is lost while the first waits in sigCh).           *)
(***************************************************************************)
XoluChanges ==
    /\ xolu < MaxVersion
    /\ xolu' = xolu + 1
    /\ UNCHANGED <<loader, late, refresh, hup, server, update, out, serving, pipe, client>>

Hup ==
    /\ ~hup
    /\ hup' = TRUE
    /\ UNCHANGED <<xolu, loader, late, refresh, server, update, out, serving, pipe, client>>

\* Load has swapped in the first catalogue and NewServer has copied it.
Init ==
    /\ xolu = 0
    /\ loader \in {0} \cup (IF MayAnswerBlank THEN {Blank} ELSE {})
    /\ late = FALSE
    /\ refresh = [r \in Refreshers |-> Idle]
    /\ hup = FALSE
    /\ server = Provided
    /\ update = Blank
    /\ out = "unset"
    /\ serving = NoRequest
    /\ pipe = <<>>
    /\ waiting = FALSE
    /\ listed = Blank
    /\ mustList = TRUE

Refresh(r) == XoluAnswers(r) \/ FetchFails(r) \/ Swap(r)

SignalGoroutine == TakeHup \/ Refresh("signal") \/ ReadLoader \/ UpdatePrimitives
ServeGoroutine == StartServing \/ HandleList \/ CheckOffered \/ ValidateCall \/ WriteResponse

Next ==
    \/ Tick \/ Refresh("ticker")
    \/ SignalGoroutine
    \/ ServeGoroutine
    \/ SendList \/ SendCall \/ ReadMessage \/ Eof
    \/ XoluChanges \/ Hup

(***************************************************************************)
(* Goroutines run, xolu answers or times out, the ticker ticks; a client   *)
(* reads its input and lists after a notification, between calls if it is  *)
(* making calls (hence strong fairness of SendList).  The two writers of   *)
(* stdout share writeMu, a sync.Mutex, which starves nobody: hence strong  *)
(* fairness for them.  xolu need not change, the operator need not signal, *)
(* the client need not call.                                               *)
(***************************************************************************)
Fairness ==
    /\ WF_vars(Tick) /\ WF_vars(Refresh("ticker"))
    /\ WF_vars(SignalGoroutine) /\ SF_vars(UpdatePrimitives)
    /\ WF_vars(ServeGoroutine) /\ SF_vars(WriteResponse)
    /\ WF_vars(ReadMessage) /\ SF_vars(SendList /\ mustList)

Spec == Init /\ [][Next]_vars /\ Fairness

(***************************************************************************)
(* Properties                                                              *)
(***************************************************************************)
TypeOK ==
    /\ xolu \in Versions
    /\ {loader, server, update, listed} \subseteq Catalogues
    /\ refresh \in [Refreshers ->
            [pc : {"idle", "asked", "answered", "swapped", "read", "replaced"},
             got : Catalogues, from : Versions, overtaken : BOOLEAN]]
    /\ refresh["ticker"].pc \in {"idle", "asked", "answered"}
    /\ out \in {"unset", "open", "nil"}
    /\ Len(pipe) <= PipeSize
    /\ {late, hup, waiting, mustList} \subseteq BOOLEAN

Listing == serving = Response("list asked", Blank)
Notified == mustList \/ \E i \in DOMAIN pipe : pipe[i] = Changed

\* The newest list on its way to the client, or the one it has.
NewestList ==
    IF serving.kind = "list" THEN serving.catalogue
    ELSE IF \E i \in DOMAIN pipe : pipe[i].kind = "list"
         THEN (CHOOSE m \in {pipe[i] : i \in DOMAIN pipe} : m.kind = "list").catalogue
         ELSE listed

(***************************************************************************)
(* A client whose list is out of date has been told, or is being told, to  *)
(* list again, also when its response was computed before the change and   *)
(* written after the notification (UpdatePrimitives, HandleMessage).       *)
(***************************************************************************)
StaleClientWillRelist ==
    out = "open" /\ NewestList # server /\ ~Listing =>
        Notified \/ refresh["signal"].pc = "replaced"

(***************************************************************************)
(* A client that keeps reading catches up with the server's list again and *)
(* again, however often SIGHUP replaces it, unless it hangs up.            *)
(***************************************************************************)
ClientCatchesUp == []<>(out = "nil" \/ listed = server)

(***************************************************************************)
(* The loader goes back to an older catalogue only when the other refresh  *)
(* swapped while this one was under way (Refresh fetches outside the lock).*)
(***************************************************************************)
OnlyOverlapGoesBack ==
    [][loader' < loader /\ loader' # Blank =>
        \E r \in Refreshers : refresh[r].pc = "answered" /\ refresh[r].overtaken]_vars

(***************************************************************************)
(* What SIGHUP publishes is at least as recent as the SIGHUP, unless a     *)
(* refresh of the ticker overlapped it.                                    *)
(***************************************************************************)
HupPublishesRecent ==
    [][server' # server /\ server' # Blank =>
        server' >= refresh["signal"].from \/ refresh["signal"].overtaken]_vars

(***************************************************************************)
(* A call is offered from the server's list and checked against the        *)
(* loader's, two catalogues under two locks (executeTool), and a refresh   *)
(* may come between.  The call in hand meets a contract older than its     *)
(* offer only while the loader holds what an overtaken refresh put there.  *)
(* A blank loader has no contracts: StandardPrimitives stand in for it,    *)
(* whatever the call was offered from.                                     *)
(***************************************************************************)
ContractFollowsOffer ==
    serving.kind = "offered" /\ loader # Blank =>
        serving.catalogue <= loader \/ late

\* What the documents say and the code does not keep: a refresh, by SIGHUP or by ticker, updates the server's catalogue
\* (specs/006-mcp-server-stdio/spec.md, RF-6).
RefreshReachesServer == []<>(server = Provided)
=============================================================================
