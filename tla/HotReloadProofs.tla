-------------------------- MODULE HotReloadProofs --------------------------
(***************************************************************************)
(* Catalogues go back and contracts fall behind their offers only where    *)
(* two refreshes overlap, and a client whose list is out of date is always *)
(* told: for every number of catalogues and every size of the pipe.        *)
(*                                                                         *)
(* The first half of the invariant is about the loader, the server and the *)
(* two refreshes and says what each refresh knows of the versions; the     *)
(* second is about the serve loop, the pipe and the client and says where  *)
(* the one response is.  Only the notification touches both.               *)
(***************************************************************************)
EXTENDS HotReload, TLAPS

Published == {Blank} \cup Versions

Tasks == [pc : {"idle", "asked", "answered", "swapped", "read", "replaced"},
          got : Published, from : Versions, overtaken : BOOLEAN]

Kinds == {"none", "list asked", "list", "call asked", "offered", "call", "list_changed"}
Messages == [kind : Kinds, catalogue : Catalogues]

ReloadType ==
    /\ xolu \in Versions
    /\ loader \in Published /\ update \in Published /\ server \in Catalogues
    /\ refresh \in [Refreshers -> Tasks]
    /\ refresh["ticker"].pc \in {"idle", "asked", "answered"}
    /\ hup \in BOOLEAN

\* What a refresh knows: it has seen every catalogue that was there when it began, unless
\* the other one swapped meanwhile.
Fits(t) ==
    /\ t.from <= xolu
    /\ t.pc = "answered" => t.got = Blank \/ (t.from <= t.got /\ t.got <= xolu)
    /\ \/ t.overtaken
       \/ /\ t.pc \in {"asked", "answered"} => loader <= t.from /\ server <= t.from /\ update <= t.from
          /\ t.pc = "swapped" => loader = Blank \/ t.from <= loader
          /\ t.pc = "read" => update = Blank \/ t.from <= update

ReloadInv ==
    /\ ReloadType
    /\ loader <= xolu /\ update <= xolu /\ server <= xolu
    /\ \A r \in Refreshers : Fits(refresh[r])

ClientType ==
    /\ out \in {"unset", "open", "nil"}
    /\ serving \in Messages /\ pipe \in Seq(Messages) /\ Len(pipe) <= PipeSize
    /\ waiting \in BOOLEAN /\ mustList \in BOOLEAN
    /\ listed \in Catalogues

AllChanged == \A i \in DOMAIN pipe : pipe[i] = Changed

\* A client that waits has its one response in the serve loop or in the pipe.
ClientInv ==
    /\ ClientType
    /\ out = "unset" => mustList /\ ~waiting
    /\ ~waiting => serving = NoRequest
    /\ ~waiting \/ serving # NoRequest => AllChanged
    /\ waiting /\ serving = NoRequest =>
        \E k \in DOMAIN pipe : /\ pipe[k] # Changed
                               /\ \A i \in DOMAIN pipe : i # k => pipe[i] = Changed

IInv == ReloadInv /\ ClientInv /\ StaleClientWillRelist

-----------------------------------------------------------------------------

LEMMA Numbers ==
    /\ \A v \in Versions : v \in Int /\ v >= 0 /\ v # Blank /\ Blank <= v
    /\ 0 \in Versions /\ Blank \in Int /\ Standard \in Int
    /\ \A c \in Catalogues : c \in Int
    /\ Published \subseteq Catalogues /\ Blank \in Published
<1>1. MaxVersion \in Nat
  BY HotReloadAssumption
<1>2. \A v \in Versions : v \in Int /\ v >= 0
  BY <1>1 DEF Versions
<1>3. 0 \in Versions /\ Blank \in Int /\ Standard \in Int
  BY <1>1 DEF Versions, Blank, Standard
<1>4. \A v \in Versions : v # Blank /\ Blank <= v
  BY <1>2 DEF Blank
<1> QED
  BY <1>2, <1>3, <1>4 DEF Catalogues, Published

LEMMA TaskFacts ==
    ASSUME ReloadType, NEW r \in Refreshers
    PROVE  /\ refresh[r] \in Tasks
           /\ refresh[r].from \in Int /\ refresh[r].from >= 0 /\ refresh[r].got \in Int
           /\ loader \in Int /\ update \in Int /\ server \in Int /\ xolu \in Int
<1>1. refresh[r] \in Tasks
  BY DEF ReloadType
<1> QED
  BY <1>1, Numbers DEF ReloadType, Tasks

LEMMA IdleFits == Idle \in Tasks /\ Idle.pc = "idle" /\ Idle.from = 0
BY Numbers DEF Idle, Tasks

\* A step of one refresh that leaves the catalogues alone.
LEMMA TaskStep ==
    ASSUME ReloadInv, NEW r \in Refreshers, NEW t \in Tasks, refresh' = [refresh EXCEPT ![r] = t],
           r = "ticker" => t.pc \in {"idle", "asked", "answered"},
           UNCHANGED <<xolu, loader, server, update>>, hup' \in BOOLEAN, Fits(t)
    PROVE  ReloadInv'
<1>1. refresh' \in [Refreshers -> Tasks] /\ refresh'[r] = t /\ \A q \in Refreshers : q # r => refresh'[q] = refresh[q]
  BY DEF ReloadInv, ReloadType
<1>2. "ticker" \in Refreshers
  BY DEF Refreshers
<1>3. ReloadType'
  BY <1>1, <1>2 DEF ReloadInv, ReloadType
<1>4. \A q \in Refreshers : Fits(refresh[q])'
  BY <1>1 DEF ReloadInv, Fits
<1> QED
  BY <1>3, <1>4 DEF ReloadInv

LEMMA AskInv == ASSUME ReloadInv, NEW r \in Refreshers, Ask(r), UNCHANGED <<xolu, loader, server, update>>,
                       hup' \in BOOLEAN
                PROVE  ReloadInv'
<1> DEFINE t == [Idle EXCEPT !.pc = "asked", !.from = xolu]
<1>1. t \in Tasks /\ t.pc = "asked" /\ t.from = xolu
  BY Numbers DEF ReloadInv, ReloadType, Idle, Tasks
<1>2. xolu \in Int
  BY TaskFacts DEF ReloadInv
<1> HIDE DEF t
<1>3. Fits(t)
  BY <1>1, <1>2 DEF Fits, ReloadInv
<1>4. refresh' = [refresh EXCEPT ![r] = t]
  BY DEF Ask, t
<1> QED
  BY <1>1, <1>3, <1>4, TaskStep

LEMMA AnswerInv == ASSUME ReloadInv, NEW r \in Refreshers, XoluAnswers(r) PROVE ReloadInv'
<1>1. PICK c \in {xolu} \cup (IF MayAnswerBlank THEN {Blank} ELSE {}) :
        refresh' = [refresh EXCEPT ![r].pc = "answered", ![r].got = c]
  BY DEF XoluAnswers
<1>2. /\ c = xolu \/ c = Blank
      /\ refresh[r].pc = "asked" /\ refresh[r] \in Tasks /\ Fits(refresh[r]) /\ refresh[r].from \in Int /\ xolu \in Int
      /\ UNCHANGED <<xolu, loader, server, update>> /\ hup' \in BOOLEAN
  BY <1>1, TaskFacts DEF XoluAnswers, ReloadInv, ReloadType
<1> DEFINE t == [refresh[r] EXCEPT !.pc = "answered", !.got = c]
<1>3. /\ t \in Tasks /\ t.pc = "answered" /\ t.got = c
      /\ t.from = refresh[r].from /\ t.overtaken = refresh[r].overtaken
  BY <1>2, Numbers DEF ReloadInv, ReloadType, Tasks, Published
<1>4. refresh' = [refresh EXCEPT ![r] = t]
  BY <1>1 DEF ReloadInv, ReloadType
<1> HIDE DEF t
<1>5. Fits(t)
  BY <1>2, <1>3 DEF Fits
<1> QED
  BY <1>2, <1>3, <1>4, <1>5, TaskStep

LEMMA FailInv == ASSUME ReloadInv, NEW r \in Refreshers, FetchFails(r) PROVE ReloadInv'
<1>1. Fits(Idle)
  BY IdleFits, Numbers DEF Fits, ReloadInv, ReloadType
<1>2. UNCHANGED <<xolu, loader, server, update>> /\ hup' \in BOOLEAN /\ refresh' = [refresh EXCEPT ![r] = Idle]
  BY DEF FetchFails, ReloadInv, ReloadType
<1> QED
  BY <1>1, <1>2, IdleFits, TaskStep

\* The refresh that swaps tells the other one that it was overtaken.
LEMMA SwapInv == ASSUME ReloadInv, NEW r \in Refreshers, Swap(r) PROVE ReloadInv'
<1>1. /\ refresh[r].pc = "answered" /\ refresh[r] \in Tasks /\ Fits(refresh[r]) /\ refresh[r].from \in Int
      /\ loader' = refresh[r].got /\ loader' \in Published /\ loader' \in Int /\ xolu \in Int /\ xolu >= 0
      /\ UNCHANGED <<xolu, server, update, hup>>
  BY TaskFacts, Numbers DEF Swap, ReloadInv, ReloadType, Tasks
<1>2. loader' <= xolu
  BY <1>1, Numbers DEF Fits, ReloadInv, ReloadType
<1> DEFINE own == IF r = "signal" THEN [refresh[r] EXCEPT !.pc = "swapped", !.got = Blank] ELSE Idle
           other(q) == [refresh[q] EXCEPT !.overtaken = refresh[q].pc # "idle"]
<1>3. /\ refresh' = [q \in Refreshers |-> IF q = r THEN own ELSE other(q)]
  BY DEF Swap
<1>4. /\ own \in Tasks /\ own.from <= xolu
      /\ r = "signal" => own.pc = "swapped" /\ own.from = refresh[r].from /\ own.overtaken = refresh[r].overtaken
      /\ r # "signal" => own.pc = "idle"
  BY <1>1, IdleFits, Numbers DEF Tasks, Fits
<1>5. ASSUME NEW q \in Refreshers
      PROVE  /\ other(q) \in Tasks /\ other(q).from = refresh[q].from
             /\ other(q).pc = refresh[q].pc /\ other(q).got = refresh[q].got
             /\ other(q).pc # "idle" => other(q).overtaken
  BY TaskFacts DEF Tasks, ReloadInv
<1> HIDE DEF own, other
<1>6. ReloadType'
  <2>1. refresh' \in [Refreshers -> Tasks]
    BY <1>3, <1>4, <1>5
  <2>2. "ticker" \in Refreshers /\ (r = "ticker" \/ r = "signal")
    BY DEF Refreshers
  <2>3. refresh'["ticker"].pc \in {"idle", "asked", "answered"}
    BY <1>3, <1>4, <1>5, <2>2 DEF ReloadInv, ReloadType
  <2> QED
    BY <1>1, <2>1, <2>3 DEF ReloadInv, ReloadType
<1>7. ASSUME NEW q \in Refreshers PROVE Fits(refresh[q])'
  <2>1. CASE q = r
    BY <1>1, <1>3, <1>4, <2>1 DEF Fits
  <2>2. CASE q # r
    <3>1. refresh'[q] = other(q) /\ Fits(refresh[q])
      BY <1>3, <2>2 DEF ReloadInv
    <3> QED
      BY <1>1, <1>5, <3>1 DEF Fits
  <2> QED
    BY <2>1, <2>2
<1> QED
  BY <1>1, <1>2, <1>6, <1>7 DEF ReloadInv

LEMMA ReadLoaderInv == ASSUME ReloadInv, ReadLoader PROVE ReloadInv'
<1> DEFINE t == [refresh["signal"] EXCEPT !.pc = "read"]
<1>0. "signal" \in Refreshers /\ "signal" # "ticker"
  BY DEF Refreshers
<1>1. /\ refresh["signal"].pc = "swapped" /\ refresh["signal"] \in Tasks /\ Fits(refresh["signal"])
      /\ update' = loader /\ loader \in Published /\ UNCHANGED <<xolu, loader, hup, server>>
      /\ refresh' = [refresh EXCEPT !["signal"] = t]
  BY <1>0 DEF ReadLoader, ReloadInv, ReloadType
<1>2. t \in Tasks /\ t.pc = "read" /\ t.from = refresh["signal"].from /\ t.overtaken = refresh["signal"].overtaken
  BY <1>1 DEF Tasks
<1> HIDE DEF t
<1>3. refresh' \in [Refreshers -> Tasks] /\ refresh'["signal"] = t
      /\ \A q \in Refreshers : q # "signal" => refresh'[q] = refresh[q]
  BY <1>0, <1>1, <1>2 DEF ReloadInv, ReloadType
<1>4. ReloadType'
  BY <1>0, <1>1, <1>3 DEF ReloadInv, ReloadType, Refreshers
<1>5. ASSUME NEW q \in Refreshers PROVE Fits(refresh[q])'
  <2>1. Fits(refresh[q])
    BY DEF ReloadInv
  <2>2. CASE q = "signal"
    BY <1>1, <1>2, <1>3, <2>2 DEF Fits
  <2>3. CASE q # "signal"
    <3>1. refresh'[q] = refresh[q] /\ refresh[q].pc # "read"
      BY <1>3, <2>3 DEF ReloadInv, ReloadType, Refreshers
    <3> QED
      BY <1>1, <2>1, <3>1 DEF Fits
  <2> QED
    BY <2>2, <2>3
<1> QED
  BY <1>1, <1>4, <1>5 DEF ReloadInv

LEMMA ReplaceInv == ASSUME ReloadInv, refresh["signal"].pc = "read", Replace("replaced") PROVE ReloadInv'
<1> DEFINE t == [refresh["signal"] EXCEPT !.pc = "replaced"]
<1>0. "signal" \in Refreshers /\ "signal" # "ticker"
  BY DEF Refreshers
<1>1. /\ refresh["signal"].pc = "read" /\ refresh["signal"] \in Tasks /\ Fits(refresh["signal"])
      /\ server' = update /\ update' = Blank /\ update \in Published /\ UNCHANGED <<xolu, loader, hup>>
      /\ refresh' = [refresh EXCEPT !["signal"] = t]
  BY <1>0 DEF Replace, ReloadInv, ReloadType
<1>2. t \in Tasks /\ t.pc = "replaced" /\ t.from = refresh["signal"].from /\ t.overtaken = refresh["signal"].overtaken
  BY <1>1 DEF Tasks
<1> HIDE DEF t
<1>3. refresh' \in [Refreshers -> Tasks] /\ refresh'["signal"] = t
      /\ \A q \in Refreshers : q # "signal" => refresh'[q] = refresh[q]
  BY <1>0, <1>1, <1>2 DEF ReloadInv, ReloadType
<1>4. ReloadType'
  BY <1>0, <1>1, <1>3, Numbers DEF ReloadInv, ReloadType, Refreshers
<1>5. Blank <= xolu /\ \A q \in Refreshers : Blank <= refresh[q].from
  <2>1. xolu \in Versions /\ \A q \in Refreshers : refresh[q].from \in Versions
    BY DEF ReloadInv, ReloadType, Tasks
  <2> QED
    BY <2>1, Numbers
<1>6. \A q \in Refreshers : Fits(refresh[q])'
  BY <1>1, <1>2, <1>3, <1>5 DEF ReloadInv, Fits
<1> QED
  BY <1>1, <1>4, <1>5, <1>6 DEF ReloadInv

LEMMA NotifyReload == ASSUME ReloadInv, Notify(Idle) PROVE ReloadInv'
<1>1. Fits(Idle)
  BY IdleFits, Numbers DEF Fits, ReloadInv, ReloadType
<1>2. /\ UNCHANGED <<xolu, loader, server, update>> /\ hup' \in BOOLEAN /\ "signal" \in Refreshers
      /\ "signal" # "ticker" /\ refresh' = [refresh EXCEPT !["signal"] = Idle]
  BY DEF Notify, ReloadInv, ReloadType, Refreshers
<1> QED
  BY <1>1, <1>2, IdleFits, TaskStep

LEMMA XoluChangesInv == ASSUME ReloadInv, XoluChanges PROVE ReloadInv'
<1>1. xolu' = xolu + 1 /\ xolu' \in Versions /\ UNCHANGED <<loader, refresh, hup, server, update>>
  BY HotReloadAssumption DEF XoluChanges, ReloadInv, ReloadType, Versions
<1>2. xolu \in Int /\ loader \in Int /\ update \in Int /\ server \in Int
  BY Numbers DEF ReloadInv, ReloadType
<1>3. \A r \in Refreshers : refresh[r].from \in Int /\ refresh[r].got \in Int
  BY TaskFacts DEF ReloadInv
<1>4. ReloadType'
  BY <1>1 DEF ReloadInv, ReloadType
<1>5. \A r \in Refreshers : Fits(refresh[r])'
  BY <1>1, <1>2, <1>3 DEF ReloadInv, Fits
<1>6. loader' <= xolu' /\ update' <= xolu' /\ server' <= xolu'
  BY <1>1, <1>2 DEF ReloadInv
<1> QED
  BY <1>4, <1>5, <1>6 DEF ReloadInv

ReloadStep ==
    \/ Tick \/ TakeHup \/ (\E r \in Refreshers : Refresh(r))
    \/ ReadLoader \/ (refresh["signal"].pc = "read" /\ Replace("replaced"))
    \/ XoluChanges \/ Hup

\* The loader's side: none of these steps touches the serve loop, the pipe or the client.
LEMMA ReloadSteps ==
    ASSUME ReloadInv, ReloadStep
    PROVE  ReloadInv' /\ UNCHANGED <<out, serving, pipe, client>>
<1>1. CASE Tick
  <2>1. Ask("ticker") /\ UNCHANGED <<xolu, loader, hup, server, update, out, serving, pipe, client>>
    BY <1>1 DEF Tick
  <2> QED
    BY <2>1, AskInv DEF ReloadInv, ReloadType, Refreshers
<1>2. CASE TakeHup
  <2>1. Ask("signal") /\ UNCHANGED <<xolu, loader, server, update, out, serving, pipe, client>> /\ hup' = FALSE
    BY <1>2 DEF TakeHup
  <2> QED
    BY <2>1, AskInv DEF Refreshers
<1>3. ASSUME NEW r \in Refreshers, Refresh(r) PROVE ReloadInv' /\ UNCHANGED <<out, serving, pipe, client>>
  <2>1. CASE XoluAnswers(r)
    BY <2>1, AnswerInv DEF XoluAnswers
  <2>2. CASE FetchFails(r)
    BY <2>2, FailInv DEF FetchFails
  <2>3. CASE Swap(r)
    BY <2>3, SwapInv DEF Swap
  <2> QED
    BY <1>3, <2>1, <2>2, <2>3 DEF Refresh
<1>4. CASE ReadLoader
  BY <1>4, ReadLoaderInv DEF ReadLoader
<1>5. CASE refresh["signal"].pc = "read" /\ Replace("replaced")
  BY <1>5, ReplaceInv DEF Replace
<1>6. CASE XoluChanges
  BY <1>6, XoluChangesInv DEF XoluChanges
<1>7. CASE Hup
  <2>1. hup' = TRUE /\ UNCHANGED <<xolu, loader, refresh, server, update, out, serving, pipe, client>>
    BY <1>7 DEF Hup
  <2> QED
    BY <2>1 DEF ReloadInv, ReloadType, Fits
<1> QED
  BY <1>1, <1>2, <1>3, <1>4, <1>5, <1>6, <1>7 DEF ReloadStep

-----------------------------------------------------------------------------

(***************************************************************************)
(* The serve loop and the client.                                          *)
(***************************************************************************)
LEMMA MessageFacts ==
    /\ NoRequest \in Messages /\ Changed \in Messages
    /\ NoRequest.kind = "none" /\ Changed.kind = "list_changed"
    /\ \A k \in Kinds, c \in Catalogues :
        /\ Response(k, c) \in Messages /\ Response(k, c).kind = k /\ Response(k, c).catalogue = c
        /\ k # "none" => Response(k, c) # NoRequest
        /\ k # "list_changed" => Response(k, c) # Changed
    /\ Blank \in Catalogues
<1>1. Blank \in Catalogues
  BY Numbers
<1>2. NoRequest \in Messages /\ NoRequest.kind = "none"
  BY <1>1 DEF NoRequest, Messages, Kinds
<1>3. Changed \in Messages /\ Changed.kind = "list_changed"
  BY <1>1 DEF Changed, Response, Messages, Kinds
<1>4. \A k \in Kinds, c \in Catalogues :
        Response(k, c) \in Messages /\ Response(k, c).kind = k /\ Response(k, c).catalogue = c
  BY DEF Response, Messages
<1> QED
  BY <1>1, <1>2, <1>3, <1>4

\* A list among notifications is the one that is found.
LEMMA TheList ==
    ASSUME NEW p \in Seq(Messages), NEW k \in DOMAIN p, p[k].kind = "list",
           \A i \in DOMAIN p : i # k => p[i] = Changed
    PROVE  (CHOOSE m \in {p[i] : i \in DOMAIN p} : m.kind = "list") = p[k]
<1>1. \A i \in DOMAIN p : p[i].kind = "list" => i = k
  BY MessageFacts
<1> DEFINE S == {p[i] : i \in DOMAIN p}
<1>2. p[k] \in S /\ \A m \in S : m.kind = "list" => m = p[k]
  BY <1>1
<1> HIDE DEF S
<1>3. (CHOOSE m \in S : m.kind = "list") = p[k]
  BY <1>2
<1> QED
  BY <1>3 DEF S

\* Every step of the loader's side leaves the client informed: the list changes only as
\* the refresh comes to "replaced", and it leaves "replaced" only with the notification.
LEMMA ReloadTells ==
    ASSUME IInv, ReloadStep PROVE StaleClientWillRelist'
<1>1. UNCHANGED <<out, serving, pipe, waiting, listed, mustList>>
  BY ReloadSteps DEF IInv, client
<1>2. NewestList' = NewestList /\ Listing' = Listing /\ Notified' = Notified
  BY <1>1 DEF NewestList, Listing, Notified
<1>3. \/ server' = server /\ (refresh["signal"].pc = "replaced" => refresh'["signal"].pc = "replaced")
      \/ refresh'["signal"].pc = "replaced"
  <2>0. refresh \in [Refreshers -> Tasks] /\ "signal" \in Refreshers /\ "ticker" \in Refreshers
    BY DEF IInv, ReloadInv, ReloadType, Refreshers
  <2>1. CASE Tick \/ TakeHup \/ ReadLoader \/ XoluChanges \/ Hup
    BY <2>0, <2>1 DEF Tick, TakeHup, Ask, ReadLoader, XoluChanges, Hup
  <2>2. CASE refresh["signal"].pc = "read" /\ Replace("replaced")
    BY <2>0, <2>2 DEF Replace, Tasks
  <2>3. ASSUME NEW r \in Refreshers, Refresh(r)
        PROVE  server' = server /\ (refresh["signal"].pc = "replaced" => refresh'["signal"].pc = "replaced")
    <3>1. CASE XoluAnswers(r)
      BY <2>0, <3>1 DEF XoluAnswers, Tasks
    <3>2. CASE FetchFails(r)
      BY <2>0, <3>2 DEF FetchFails
    <3>3. CASE Swap(r)
      BY <2>0, <3>3 DEF Swap, Tasks
    <3> QED
      BY <2>3, <3>1, <3>2, <3>3 DEF Refresh
  <2> QED
    BY <2>1, <2>2, <2>3 DEF ReloadStep
<1> QED
  BY <1>1, <1>2, <1>3 DEF IInv, StaleClientWillRelist

\* The notification reaches the pipe, or nobody is served any more.
LEMMA NotifyInv == ASSUME IInv, Notify(Idle) PROVE IInv'
<1>1. ReloadInv'
  BY NotifyReload DEF IInv
<1>2. /\ out' = out /\ serving' = serving /\ waiting' = waiting /\ listed' = listed /\ mustList' = mustList
      /\ pipe \in Seq(Messages) /\ PipeSize \in Nat
      /\ out = "open" => Len(pipe) < PipeSize /\ pipe' = Append(pipe, Changed)
      /\ out # "open" => pipe' = pipe
  BY HotReloadAssumption DEF Notify, client, IInv, ClientInv, ClientType
<1>3. CASE out # "open"
  <2>1. ClientInv'
    BY <1>2, <1>3 DEF IInv, ClientInv, ClientType, AllChanged
  <2>2. StaleClientWillRelist'
    BY <1>2, <1>3 DEF StaleClientWillRelist
  <2> QED
    BY <1>1, <2>1, <2>2 DEF IInv
<1>4. CASE out = "open"
  <2> DEFINE n == Len(pipe) + 1
  <2>1. /\ pipe' \in Seq(Messages) /\ Len(pipe') = n /\ pipe'[n] = Changed /\ n \in DOMAIN pipe'
        /\ Len(pipe') <= PipeSize
        /\ \A i \in DOMAIN pipe : i \in DOMAIN pipe' /\ i # n /\ pipe'[i] = pipe[i]
        /\ \A i \in DOMAIN pipe' : i # n => i \in DOMAIN pipe
    BY <1>2, <1>4, MessageFacts
  <2> HIDE DEF n
  <2>2. ClientType' /\ (AllChanged => AllChanged')
    BY <1>2, <2>1 DEF IInv, ClientInv, ClientType, AllChanged
  <2>3. ClientInv'
    BY <1>2, <1>4, <2>1, <2>2 DEF IInv, ClientInv
  <2>4. Notified'
    BY <2>1 DEF Notified
  <2> QED
    BY <1>1, <2>3, <2>4 DEF IInv, StaleClientWillRelist
<1> QED
  BY <1>3, <1>4

\* The serve loop works on the request it has; the pipe holds notifications.
ServeStep == HandleList \/ CheckOffered \/ ValidateCall

LEMMA ServeInv == ASSUME IInv, ServeStep PROVE IInv'
<1>1. /\ UNCHANGED <<xolu, loader, refresh, hup, server, update, out, pipe, waiting, listed, mustList>>
      /\ serving \in Messages /\ server \in Catalogues /\ serving.kind \in {"list asked", "call asked", "offered"}
      /\ serving'.kind \in {"list", "offered", "call"} /\ serving' \in Messages
      /\ serving'.kind = "list" => serving'.catalogue = server
      /\ serving'.kind # "list" => serving.kind \in {"call asked", "offered"}
  <2>0. server \in Catalogues /\ serving \in Messages
    BY DEF IInv, ReloadInv, ReloadType, ClientInv, ClientType
  <2>1. CASE HandleList
    BY <2>0, <2>1, MessageFacts DEF HandleList, reload, client, Kinds
  <2>2. CASE CheckOffered
    BY <2>0, <2>2, MessageFacts DEF CheckOffered, reload, client, Kinds
  <2>3. CASE ValidateCall
    <3>1. serving' = [serving EXCEPT !.kind = "call"] /\ serving.kind = "offered"
          /\ UNCHANGED <<reload, out, pipe, client>>
      BY <2>3 DEF ValidateCall
    <3>2. serving' \in Messages /\ serving'.kind = "call"
      BY <2>0, <3>1 DEF Messages, Kinds
    <3> QED
      BY <2>0, <3>1, <3>2 DEF reload, client
  <2> QED
    BY <2>1, <2>2, <2>3 DEF ServeStep
<1>2. serving # NoRequest /\ serving' # NoRequest
  BY <1>1, MessageFacts
<1>3. ReloadInv'
  BY <1>1 DEF IInv, ReloadInv, ReloadType, Fits
<1>4. ClientInv'
  BY <1>1, <1>2 DEF IInv, ClientInv, ClientType, AllChanged
<1>5. StaleClientWillRelist'
  <2>1. CASE serving'.kind = "list"
    BY <1>1, <2>1 DEF NewestList, StaleClientWillRelist
  <2>2. CASE serving'.kind # "list"
    <3>0. /\ serving.kind # "list" /\ serving.kind # "list asked"
          /\ pipe' = pipe /\ listed' = listed /\ mustList' = mustList
      BY <1>1, <2>2
    <3>1. ~Listing
      <4>1. Response("list asked", Blank).kind = "list asked"
        BY MessageFacts DEF Kinds
      <4> QED
        BY <3>0, <4>1 DEF Listing
    <3>2. NewestList' = NewestList /\ Notified' = Notified
      <4> DEFINE InPipe(p, l) == IF \E i \in DOMAIN p : p[i].kind = "list"
                                 THEN (CHOOSE m \in {p[i] : i \in DOMAIN p} : m.kind = "list").catalogue
                                 ELSE l
      <4>1. NewestList = InPipe(pipe, listed)
        BY <3>0 DEF NewestList
      <4>2. NewestList' = InPipe(pipe', listed')
        BY <2>2 DEF NewestList
      <4> HIDE DEF InPipe
      <4>3. NewestList' = NewestList
        BY <3>0, <4>1, <4>2
      <4>4. Notified' = Notified
        BY <3>0 DEF Notified
      <4> QED
        BY <4>3, <4>4
    <3> QED
      BY <1>1, <3>1, <3>2 DEF IInv, StaleClientWillRelist
  <2> QED
    BY <2>1, <2>2
<1> QED
  BY <1>3, <1>4, <1>5 DEF IInv

LEMMA WriteResponseInv == ASSUME IInv, WriteResponse PROVE IInv'
<1> DEFINE n == Len(pipe) + 1
           m == Response(serving.kind, serving.catalogue)
<1>1. /\ UNCHANGED <<xolu, loader, refresh, hup, server, update, out, waiting, listed, mustList>>
      /\ serving.kind \in {"list", "call"} /\ serving \in Messages
      /\ Len(pipe) < PipeSize /\ pipe \in Seq(Messages) /\ PipeSize \in Nat
      /\ pipe' = Append(pipe, m) /\ serving' = NoRequest
  BY HotReloadAssumption DEF WriteResponse, reload, client, IInv, ClientInv, ClientType
<1>2. m \in Messages /\ m.kind = serving.kind /\ m.catalogue = serving.catalogue /\ m # Changed
  <2>1. serving.kind \in Kinds /\ serving.catalogue \in Catalogues
    BY <1>1 DEF Messages
  <2> QED
    BY <1>1, <2>1, MessageFacts
<1>3. serving # NoRequest /\ waiting /\ AllChanged /\ out # "unset"
  BY <1>1, MessageFacts DEF IInv, ClientInv, ClientType
<1> HIDE DEF m
<1>4. /\ pipe' \in Seq(Messages) /\ Len(pipe') = n /\ pipe'[n] = m /\ n \in DOMAIN pipe'
      /\ Len(pipe') <= PipeSize
      /\ \A i \in DOMAIN pipe : i \in DOMAIN pipe' /\ i # n /\ pipe'[i] = pipe[i]
      /\ \A i \in DOMAIN pipe' : i # n => i \in DOMAIN pipe
  BY <1>1, <1>2
<1> HIDE DEF n
<1>5. \A i \in DOMAIN pipe' : i # n => pipe'[i] = Changed
  BY <1>3, <1>4 DEF AllChanged
<1>6. ReloadInv'
  BY <1>1 DEF IInv, ReloadInv, ReloadType, Fits
<1>7. ClientInv'
  <2>1. ClientType'
    BY <1>1, <1>4, MessageFacts DEF IInv, ClientInv, ClientType
  <2> QED
    BY <1>1, <1>2, <1>3, <1>4, <1>5, <2>1 DEF ClientInv
<1>8. StaleClientWillRelist'
  <2>1. Notified => Notified'
    BY <1>1, <1>4 DEF Notified
  <2>2. ~Listing
    BY <1>1, MessageFacts DEF Listing, Kinds
  <2>3. NewestList' = NewestList
    <3>0. serving'.kind # "list"
      BY <1>1, MessageFacts
    <3>1. CASE serving.kind = "list"
      <4>1. (CHOOSE x \in {pipe'[i] : i \in DOMAIN pipe'} : x.kind = "list") = pipe'[n]
        BY <1>2, <1>4, <1>5, <3>1, TheList
      <4>2. NewestList' = m.catalogue
        BY <1>2, <1>4, <3>0, <3>1, <4>1 DEF NewestList
      <4> QED
        BY <1>2, <3>1, <4>2 DEF NewestList
    <3>2. CASE serving.kind = "call"
      <4>1. \A i \in DOMAIN pipe' : pipe'[i].kind # "list"
        BY <1>2, <1>5, <3>2, <1>4, MessageFacts
      <4>2. \A i \in DOMAIN pipe : pipe[i].kind # "list"
        BY <1>3, MessageFacts DEF AllChanged
      <4> QED
        BY <1>1, <3>0, <3>2, <4>1, <4>2 DEF NewestList
    <3> QED
      BY <1>1, <3>1, <3>2
  <2> QED
    BY <1>1, <2>1, <2>2, <2>3 DEF IInv, StaleClientWillRelist
<1> QED
  BY <1>6, <1>7, <1>8 DEF IInv

\* A request goes out: nothing was on its way.
LEMMA SendInv == ASSUME IInv, SendList \/ SendCall PROVE IInv'
<1>1. /\ UNCHANGED <<xolu, loader, refresh, hup, server, update, out, pipe, listed>>
      /\ out = "open" /\ ~waiting /\ waiting' = TRUE
      /\ serving' \in Messages /\ serving' # NoRequest /\ serving'.kind # "list"
      /\ \/ Listing' /\ mustList' = FALSE
         \/ mustList' = mustList
  <2>1. \E kind \in {"list asked", "call asked"} : Send(kind)
    BY DEF SendList, SendCall
  <2>2. PICK kind \in {"list asked", "call asked"} : Send(kind)
    BY <2>1
  <2>3. serving' = Response(kind, Blank) /\ kind \in Kinds /\ kind # "none" /\ kind # "list"
    BY <2>2 DEF Send, Kinds
  <2>4. serving' \in Messages /\ serving' # NoRequest /\ serving'.kind # "list"
    BY <2>3, MessageFacts
  <2>5. SendList => Listing' /\ mustList' = FALSE
    BY DEF SendList, Send, Listing
  <2>6. SendCall => mustList' = mustList
    BY DEF SendCall
  <2> QED
    BY <2>2, <2>4, <2>5, <2>6 DEF Send, reload
<1>2. serving = NoRequest /\ AllChanged
  BY <1>1 DEF IInv, ClientInv
<1>3. ReloadInv'
  BY <1>1 DEF IInv, ReloadInv, ReloadType, Fits
<1>4. ClientInv'
  <2>1. mustList' \in BOOLEAN /\ waiting' \in BOOLEAN
    BY <1>1 DEF IInv, ClientInv, ClientType
  <2> QED
    BY <1>1, <1>2, <2>1 DEF IInv, ClientInv, ClientType, AllChanged
<1>5. StaleClientWillRelist'
  <2>1. CASE Listing'
    BY <2>1 DEF StaleClientWillRelist
  <2>2. CASE mustList' = mustList
    <3>1. serving.kind # "list" /\ ~Listing
      BY <1>2, MessageFacts DEF Listing, Kinds
    <3>2. NewestList' = NewestList /\ Notified' = Notified
      BY <1>1, <2>2, <3>1 DEF NewestList, Notified
    <3> QED
      BY <1>1, <3>1, <3>2 DEF IInv, StaleClientWillRelist
  <2> QED
    BY <1>1, <2>1, <2>2
<1> QED
  BY <1>3, <1>4, <1>5 DEF IInv

LEMMA OpenInv == ASSUME IInv, StartServing \/ Eof PROVE IInv'
<1>1. /\ UNCHANGED <<xolu, loader, refresh, hup, server, update, serving, pipe, waiting, listed, mustList>>
      /\ ~waiting /\ ((out' = "open" /\ out = "unset") \/ out' = "nil")
  BY DEF StartServing, Eof, reload, client, IInv, ClientInv
<1>2. ReloadInv'
  BY <1>1 DEF IInv, ReloadInv, ReloadType, Fits
<1>3. ClientInv'
  BY <1>1 DEF IInv, ClientInv, ClientType, AllChanged
<1>4. StaleClientWillRelist'
  BY <1>1 DEF IInv, ClientInv, StaleClientWillRelist, Notified
<1> QED
  BY <1>2, <1>3, <1>4 DEF IInv

\* The client reads a notification, or the one response.
LEMMA ReadMessageInv == ASSUME IInv, ReadMessage PROVE IInv'
<1> DEFINE m == Head(pipe)
<1>1. /\ UNCHANGED <<xolu, loader, refresh, hup, server, update, out, serving>>
      /\ pipe # <<>> /\ pipe' = Tail(pipe) /\ pipe \in Seq(Messages) /\ Len(pipe) <= PipeSize /\ PipeSize \in Nat
      /\ waiting' = (waiting /\ m = Changed)
      /\ listed' = (IF m.kind = "list" THEN m.catalogue ELSE listed)
      /\ mustList' = (mustList \/ m = Changed)
  BY HotReloadAssumption DEF ReadMessage, reload, IInv, ClientInv, ClientType
<1>2. /\ m = pipe[1] /\ 1 \in DOMAIN pipe /\ m \in Messages
      /\ pipe' \in Seq(Messages) /\ Len(pipe') <= PipeSize
      /\ \A i \in DOMAIN pipe' : i + 1 \in DOMAIN pipe /\ i + 1 # 1 /\ pipe'[i] = pipe[i + 1]
      /\ \A i \in DOMAIN pipe : i # 1 => i - 1 \in DOMAIN pipe' /\ pipe'[i - 1] = pipe[i]
      /\ \A i, j \in DOMAIN pipe' : i + 1 = j + 1 => i = j
      /\ \A i \in DOMAIN pipe : (i - 1) + 1 = i
  BY <1>1
<1> HIDE DEF m
<1>3. /\ waiting \in BOOLEAN /\ mustList \in BOOLEAN /\ listed \in Catalogues /\ out \in {"unset", "open", "nil"}
      /\ waiting' \in BOOLEAN /\ mustList' \in BOOLEAN /\ listed' \in Catalogues
  BY <1>1, <1>2 DEF IInv, ClientInv, ClientType, Messages
<1>4. ReloadInv'
  BY <1>1 DEF IInv, ReloadInv, ReloadType, Fits
<1>5. ClientType'
  BY <1>1, <1>2, <1>3 DEF IInv, ClientInv, ClientType
<1>6. CASE m = Changed
  <2>1. waiting' = waiting /\ listed' = listed /\ mustList'
    BY <1>1, <1>3, <1>6, MessageFacts
  <2>2. AllChanged => AllChanged'
    BY <1>2 DEF AllChanged
  <2>3. waiting /\ serving = NoRequest =>
            \E k \in DOMAIN pipe' : pipe'[k] # Changed /\ \A i \in DOMAIN pipe' : i # k => pipe'[i] = Changed
    <3> SUFFICES ASSUME waiting, serving = NoRequest
                 PROVE \E k \in DOMAIN pipe' : pipe'[k] # Changed /\ \A i \in DOMAIN pipe' : i # k => pipe'[i] = Changed
      OBVIOUS
    <3>1. PICK k \in DOMAIN pipe : pipe[k] # Changed /\ \A i \in DOMAIN pipe : i # k => pipe[i] = Changed
      BY DEF IInv, ClientInv
    <3>2. k # 1
      BY <1>2, <1>6, <3>1
    <3>3. k - 1 \in DOMAIN pipe' /\ pipe'[k - 1] # Changed
      BY <1>2, <3>1, <3>2
    <3>4. \A i \in DOMAIN pipe' : i # k - 1 => i + 1 # k
      BY <1>2, <3>3
    <3>5. \A i \in DOMAIN pipe' : i # k - 1 => pipe'[i] = Changed
      BY <1>2, <3>1, <3>4
    <3> QED
      BY <3>3, <3>5
  <2>4. ClientInv'
    BY <1>1, <1>5, <2>1, <2>2, <2>3 DEF IInv, ClientInv
  <2>5. StaleClientWillRelist'
    BY <2>1 DEF StaleClientWillRelist, Notified
  <2> QED
    BY <1>4, <2>4, <2>5 DEF IInv
<1>7. CASE m # Changed
  <2>1. waiting /\ serving = NoRequest /\ out # "unset"
    BY <1>2, <1>7 DEF IInv, ClientInv, AllChanged
  <2>2. \A i \in DOMAIN pipe : i # 1 => pipe[i] = Changed
    BY <1>2, <1>7, <2>1 DEF IInv, ClientInv
  <2>3. AllChanged'
    BY <1>2, <2>2 DEF AllChanged
  <2>4. ~waiting' /\ serving' = NoRequest /\ out' # "unset" /\ mustList' = mustList
    BY <1>1, <1>3, <1>7, <2>1
  <2>5. ClientInv'
    BY <1>5, <2>3, <2>4 DEF ClientInv
  <2>6. Notified => Notified'
    BY <1>2, <1>7, <2>4 DEF Notified
  <2>7. NewestList' = NewestList
    <3>0. serving.kind # "list" /\ serving'.kind # "list"
      BY <2>1, <2>4, MessageFacts
    <3>1. \A i \in DOMAIN pipe' : pipe'[i].kind # "list"
      BY <2>3, MessageFacts DEF AllChanged
    <3>2. NewestList' = listed'
      BY <3>0, <3>1 DEF NewestList
    <3>3. CASE m.kind = "list"
      <4>1. (CHOOSE x \in {pipe[i] : i \in DOMAIN pipe} : x.kind = "list") = pipe[1]
        BY <1>1, <1>2, <2>2, <3>3, TheList
      <4>2. NewestList = m.catalogue
        BY <1>2, <3>0, <3>3, <4>1 DEF NewestList
      <4> QED
        BY <1>1, <3>2, <3>3, <4>2
    <3>4. CASE m.kind # "list"
      <4>1. \A i \in DOMAIN pipe : pipe[i].kind # "list"
        BY <1>2, <2>2, <3>4, MessageFacts
      <4> QED
        BY <1>1, <3>0, <3>2, <3>4, <4>1 DEF NewestList
    <3> QED
      BY <3>3, <3>4
  <2>8. ~Listing
    BY <2>1, MessageFacts DEF Listing, Kinds
  <2>9. StaleClientWillRelist'
    BY <1>1, <2>6, <2>7, <2>8 DEF IInv, StaleClientWillRelist
  <2> QED
    BY <1>4, <2>5, <2>9 DEF IInv
<1> QED
  BY <1>6, <1>7

LEMMA InitInv == Init => IInv
<1> SUFFICES ASSUME Init PROVE IInv
  OBVIOUS
<1>1. loader \in Published /\ loader <= 0 /\ server \in Catalogues /\ server <= 0 /\ xolu = 0 /\ update = Blank
  <2>1. loader \in {0, Blank}
    BY DEF Init
  <2>2. server \in {0, Standard}
    BY <2>1, Numbers DEF Init, Provided
  <2> QED
    BY <2>1, <2>2, Numbers DEF Init, Published, Catalogues, Blank, Standard
<1>2. ReloadType
  BY <1>1, IdleFits, Numbers DEF Init, ReloadType, Refreshers
<1>3. Fits(Idle)
  BY <1>1, IdleFits DEF Fits
<1>4. ReloadInv
  BY <1>1, <1>2, <1>3, Numbers DEF Init, ReloadInv
<1>5. ClientInv
  <2>1. Len(pipe) = 0 /\ pipe \in Seq(Messages) /\ DOMAIN pipe = {} /\ 0 <= PipeSize
    BY HotReloadAssumption DEF Init
  <2> QED
    BY <2>1, MessageFacts DEF Init, ClientInv, ClientType, AllChanged
<1>6. StaleClientWillRelist
  BY DEF Init, StaleClientWillRelist
<1> QED
  BY <1>4, <1>5, <1>6 DEF IInv

LEMMA StutterInv == IInv /\ UNCHANGED vars => IInv'
<1> SUFFICES ASSUME IInv, UNCHANGED vars PROVE IInv'
  OBVIOUS
<1>1. UNCHANGED <<xolu, loader, refresh, hup, server, update, out, serving, pipe, waiting, listed, mustList>>
  BY DEF vars, reload, client
<1>2. ReloadInv' /\ ClientInv'
  BY <1>1 DEF IInv, ReloadInv, ReloadType, Fits, ClientInv, ClientType, AllChanged
<1>3. StaleClientWillRelist'
  BY <1>1 DEF IInv, StaleClientWillRelist, NewestList, Listing, Notified
<1> QED
  BY <1>2, <1>3 DEF IInv

\* Next, sorted by what it touches.
LEMMA Sorted ==
    Next => \/ ReloadStep \/ Notify(Idle) \/ ServeStep \/ WriteResponse
            \/ SendList \/ SendCall \/ StartServing \/ Eof \/ ReadMessage
BY DEF Next, SignalGoroutine, ServeGoroutine, UpdatePrimitives, ReloadStep, ServeStep, Refreshers

LEMMA Invariance == Spec => []IInv
<1>1. IInv /\ [Next]_vars => IInv'
  <2> SUFFICES ASSUME IInv, [Next]_vars PROVE IInv'
    OBVIOUS
  <2>1. CASE ReloadStep
    <3>1. ReloadInv' /\ UNCHANGED <<out, serving, pipe, waiting, listed, mustList>>
      BY <2>1, ReloadSteps DEF IInv, client
    <3>2. ClientInv'
      BY <3>1 DEF IInv, ClientInv, ClientType, AllChanged
    <3> QED
      BY <2>1, <3>1, <3>2, ReloadTells DEF IInv
  <2>2. CASE Notify(Idle)
    BY <2>2, NotifyInv
  <2>3. CASE ServeStep \/ WriteResponse
    BY <2>3, ServeInv, WriteResponseInv
  <2>4. CASE SendList \/ SendCall \/ StartServing \/ Eof \/ ReadMessage
    BY <2>4, SendInv, OpenInv, ReadMessageInv
  <2>5. CASE UNCHANGED vars
    BY <2>5, StutterInv
  <2> QED
    BY <2>1, <2>2, <2>3, <2>4, <2>5, Sorted
<1> QED
  BY <1>1, InitInv, PTL DEF Spec

-----------------------------------------------------------------------------

(***************************************************************************)
(* What moves a catalogue: a swap the loader's, ReadLoader the one that is *)
(* about to be published, Replace the server's.                            *)
(***************************************************************************)
LEMMA Moves ==
    ASSUME IInv, [Next]_vars
    PROVE  \/ \E r \in Refreshers : Swap(r)
           \/ ReadLoader
           \/ refresh["signal"].pc = "read" /\ Replace("replaced")
           \/ /\ loader' = loader /\ server' = server /\ update' = update
              /\ refresh'["signal"].pc = "read" => refresh["signal"].pc = "read"
<1>0. refresh \in [Refreshers -> Tasks] /\ "signal" \in Refreshers /\ "ticker" \in Refreshers
  BY DEF IInv, ReloadInv, ReloadType, Refreshers
<1> DEFINE Still == /\ loader' = loader /\ server' = server /\ update' = update
                    /\ refresh'["signal"].pc = "read" => refresh["signal"].pc = "read"
<1>1. CASE Tick \/ TakeHup
  <2>1. PICK r \in Refreshers : Ask(r) /\ loader' = loader /\ server' = server /\ update' = update
    BY <1>0, <1>1 DEF Tick, TakeHup
  <2>2. [Idle EXCEPT !.pc = "asked", !.from = xolu].pc # "read"
    BY DEF Idle
  <2> QED
    BY <1>0, <2>1, <2>2 DEF Ask
<1>2. ASSUME NEW r \in Refreshers, XoluAnswers(r) PROVE Still
  BY <1>0, <1>2 DEF XoluAnswers, Tasks
<1>3. ASSUME NEW r \in Refreshers, FetchFails(r) PROVE Still
  <2>1. refresh' = [refresh EXCEPT ![r] = Idle] /\ loader' = loader /\ server' = server /\ update' = update
    BY <1>3 DEF FetchFails
  <2>2. Idle.pc # "read"
    BY IdleFits
  <2> QED
    BY <1>0, <2>1, <2>2
<1>4. CASE XoluChanges \/ Hup
  BY <1>4 DEF XoluChanges, Hup
<1>5. CASE Notify(Idle)
  BY <1>0, <1>5 DEF Notify, Idle
<1>6. CASE ServeStep \/ WriteResponse
  BY <1>6 DEF ServeStep, HandleList, CheckOffered, ValidateCall, WriteResponse, reload
<1>7. CASE SendList \/ SendCall \/ StartServing \/ Eof \/ ReadMessage
  BY <1>7 DEF SendList, SendCall, Send, StartServing, Eof, ReadMessage, reload
<1>8. CASE UNCHANGED vars
  BY <1>8 DEF vars, reload
<1> HIDE DEF Still
<1>9. Still \/ (\E r \in Refreshers : Swap(r)) \/ ReadLoader \/ (refresh["signal"].pc = "read" /\ Replace("replaced"))
  <2>1. CASE ReloadStep
    BY <1>1, <1>2, <1>3, <1>4, <2>1 DEF ReloadStep, Refresh, Still
  <2> QED
    BY <1>5, <1>6, <1>7, <1>8, <2>1, Sorted DEF Still
<1> QED
  BY <1>9 DEF Still

\* A swap that was not overtaken brings nothing older than what is there.
LEMMA SwapIsNewer ==
    ASSUME IInv, NEW r \in Refreshers, Swap(r), ~refresh[r].overtaken, loader' # Blank
    PROVE  loader <= loader' /\ server <= loader' /\ update <= loader'
<1>1. /\ refresh[r].pc = "answered" /\ loader' = refresh[r].got /\ Fits(refresh[r])
      /\ refresh[r].from \in Int /\ refresh[r].got \in Int /\ loader \in Int /\ server \in Int /\ update \in Int
  BY TaskFacts DEF Swap, IInv, ReloadInv
<1>2. refresh[r].from <= loader' /\ loader <= refresh[r].from /\ server <= refresh[r].from /\ update <= refresh[r].from
  BY <1>1 DEF Fits
<1> QED
  BY <1>1, <1>2

-----------------------------------------------------------------------------

LEMMA LateIsBoolean == Spec => [](late \in BOOLEAN)
<1>1. Init => late \in BOOLEAN
  BY DEF Init
<1>2. IInv /\ late \in BOOLEAN /\ [Next]_vars => (late \in BOOLEAN)'
  <2> SUFFICES ASSUME IInv, late \in BOOLEAN, [Next]_vars PROVE late' \in BOOLEAN
    OBVIOUS
  <2>1. refresh \in [Refreshers -> Tasks]
    BY DEF IInv, ReloadInv, ReloadType
  <2>2. ASSUME NEW r \in Refreshers, Swap(r) PROVE late' \in BOOLEAN
    BY <2>1, <2>2 DEF Swap, Tasks
  <2>3. ASSUME NEW r \in Refreshers, XoluAnswers(r) \/ FetchFails(r) PROVE late' = late
    BY <2>3 DEF XoluAnswers, FetchFails
  <2>4. ASSUME Tick \/ TakeHup \/ ReadLoader \/ UpdatePrimitives \/ XoluChanges \/ Hup PROVE late' = late
    BY <2>4 DEF Tick, TakeHup, ReadLoader, UpdatePrimitives, Replace, Notify, XoluChanges, Hup
  <2>5. ASSUME ServeGoroutine \/ SendList \/ SendCall \/ ReadMessage \/ Eof \/ UNCHANGED vars PROVE late' = late
    BY <2>5 DEF ServeGoroutine, StartServing, HandleList, CheckOffered, ValidateCall, WriteResponse,
                SendList, SendCall, Send, ReadMessage, Eof, reload, vars
  <2> QED
    BY <2>2, <2>3, <2>4, <2>5 DEF Next, SignalGoroutine, Refresh, Refreshers
<1> QED
  BY <1>1, <1>2, Invariance, PTL DEF Spec

\* Every variable keeps its type.
THEOREM TypeCorrect == Spec => []TypeOK
<1>1. IInv /\ late \in BOOLEAN => TypeOK
  <2> SUFFICES ASSUME IInv, late \in BOOLEAN PROVE TypeOK
    OBVIOUS
  <2>1. /\ xolu \in Versions /\ loader \in Catalogues /\ server \in Catalogues /\ update \in Catalogues
        /\ listed \in Catalogues /\ hup \in BOOLEAN /\ waiting \in BOOLEAN /\ mustList \in BOOLEAN
        /\ out \in {"unset", "open", "nil"} /\ Len(pipe) <= PipeSize
    BY Numbers DEF IInv, ReloadInv, ReloadType, ClientInv, ClientType
  <2>2. refresh \in [Refreshers ->
            [pc : {"idle", "asked", "answered", "swapped", "read", "replaced"},
             got : Catalogues, from : Versions, overtaken : BOOLEAN]]
    <3>1. Tasks \subseteq [pc : {"idle", "asked", "answered", "swapped", "read", "replaced"},
                           got : Catalogues, from : Versions, overtaken : BOOLEAN]
      BY Numbers DEF Tasks
    <3> QED
      BY <3>1 DEF IInv, ReloadInv, ReloadType
  <2>3. refresh["ticker"].pc \in {"idle", "asked", "answered"}
    BY DEF IInv, ReloadInv, ReloadType
  <2> QED
    BY <2>1, <2>2, <2>3 DEF TypeOK
<1> QED
  BY <1>1, Invariance, LateIsBoolean, PTL

\* A client whose list is out of date has been told, or is being told, to list again
\* (UpdatePrimitives, HandleMessage).
THEOREM StaleClientIsTold == Spec => []StaleClientWillRelist
<1>1. IInv => StaleClientWillRelist
  BY DEF IInv
<1> QED
  BY <1>1, Invariance, PTL

\* The loader goes back to an older catalogue only when the other refresh swapped while
\* this one was under way (SchemaLoader.Refresh).
THEOREM GoingBackNeedsOverlap == Spec => OnlyOverlapGoesBack
<1>1. IInv /\ [Next]_vars =>
        [loader' < loader /\ loader' # Blank =>
            \E r \in Refreshers : refresh[r].pc = "answered" /\ refresh[r].overtaken]_vars
  <2> SUFFICES ASSUME IInv, [Next]_vars, loader' < loader, loader' # Blank
               PROVE  \E r \in Refreshers : refresh[r].pc = "answered" /\ refresh[r].overtaken
    OBVIOUS
  <2>0. loader \in Int
    BY TaskFacts, Numbers DEF IInv, ReloadInv, ReloadType
  <2>1. PICK r \in Refreshers : Swap(r)
    BY <2>0, Moves DEF ReadLoader, Replace
  <2>2. refresh[r].pc = "answered" /\ loader' \in Int
    BY <2>1, TaskFacts DEF Swap, IInv, ReloadInv
  <2>3. CASE ~refresh[r].overtaken
    <3>1. loader <= loader'
      BY <2>1, <2>3, SwapIsNewer
    <3> QED
      BY <2>0, <2>2, <3>1
  <2> QED
    BY <2>2, <2>3
<1> QED
  BY <1>1, Invariance, PTL DEF Spec, OnlyOverlapGoesBack

\* What SIGHUP publishes is at least as recent as the SIGHUP, unless a refresh of the
\* ticker overlapped it (main.go, UpdatePrimitives).
THEOREM HupIsRecent == Spec => HupPublishesRecent
<1>1. IInv /\ [Next]_vars =>
        [server' # server /\ server' # Blank =>
            server' >= refresh["signal"].from \/ refresh["signal"].overtaken]_vars
  <2> SUFFICES ASSUME IInv, [Next]_vars, server' # server, server' # Blank, ~refresh["signal"].overtaken
               PROVE  server' >= refresh["signal"].from
    OBVIOUS
  <2>1. refresh["signal"].pc = "read" /\ server' = update
    BY Moves DEF Swap, ReadLoader, Replace
  <2>2. /\ Fits(refresh["signal"]) /\ refresh["signal"].from \in Int /\ update \in Int
    BY TaskFacts DEF IInv, ReloadInv, Refreshers
  <2>3. refresh["signal"].from <= update
    BY <2>1, <2>2 DEF Fits
  <2> QED
    BY <2>1, <2>2, <2>3
<1> QED
  BY <1>1, Invariance, PTL DEF Spec, HupPublishesRecent

-----------------------------------------------------------------------------
(***************************************************************************)
(* The call in hand.  What it was offered from is bounded, as the server's *)
(* list is, by the beginning of every refresh that nothing has overtaken;  *)
(* so a swap that is not late never falls below it.                        *)
(***************************************************************************)
InHand == IF serving.kind = "offered" THEN {serving.catalogue} ELSE {}

\* What a call is checked against, or may be from now on.
Offers == {server} \cup InHand \cup (IF refresh["signal"].pc = "read" THEN {update} ELSE {})

OnTime(t) == t.pc \in {"asked", "answered"} /\ ~t.overtaken

OfferInv ==
    /\ \A c \in InHand : c \in Int /\ c <= xolu
    /\ \A r \in Refreshers : OnTime(refresh[r]) => \A c \in InHand : c <= refresh[r].from
    /\ late \/ loader = Blank \/ \A c \in Offers : c <= loader

\* A step of one refresh that leaves the catalogues alone.
LEMMA TaskOffers ==
    ASSUME IInv, OfferInv, NEW r \in Refreshers, NEW t \in Tasks, refresh' = [refresh EXCEPT ![r] = t],
           UNCHANGED <<xolu, loader, late, server, update, serving>>, t.pc # "read",
           OnTime(t) => t.from = xolu \/ (OnTime(refresh[r]) /\ t.from = refresh[r].from)
    PROVE  OfferInv'
<1>1. refresh'[r] = t /\ \A q \in Refreshers : q # r => refresh'[q] = refresh[q]
  BY DEF IInv, ReloadInv, ReloadType
<1>2. InHand' = InHand /\ xolu' = xolu /\ loader' = loader /\ late' = late
  BY DEF InHand
<1>3. Offers' \subseteq Offers
  BY <1>1, <1>2 DEF Offers, Refreshers
<1>4. \A q \in Refreshers : OnTime(refresh[q])' => \A c \in InHand' : c <= refresh'[q].from
  BY <1>1, <1>2 DEF OfferInv, OnTime
<1> QED
  BY <1>2, <1>3, <1>4 DEF OfferInv

\* A step of the serve loop: a call is offered from the server's list.
LEMMA ServeOffers ==
    ASSUME IInv, OfferInv, UNCHANGED reload, InHand' \subseteq InHand \cup {server}
    PROVE  OfferInv'
<1>1. /\ xolu' = xolu /\ loader' = loader /\ late' = late /\ refresh' = refresh
      /\ server' = server /\ update' = update
  BY DEF reload
<1>2. server \in Int /\ server <= xolu
  BY Numbers DEF IInv, ReloadInv, ReloadType
<1>3. \A r \in Refreshers : OnTime(refresh[r]) => server <= refresh[r].from
  BY DEF IInv, ReloadInv, Fits, OnTime
<1>4. Offers' \subseteq Offers
  BY <1>1 DEF Offers
<1> QED
  BY <1>1, <1>2, <1>3, <1>4 DEF OfferInv, OnTime

\* A swap that was not overtaken brings nothing older than what the call in hand has.
LEMMA SwapOffers == ASSUME IInv, OfferInv, NEW r \in Refreshers, Swap(r) PROVE OfferInv'
<1>0. refresh \in [Refreshers -> Tasks] /\ "signal" \in Refreshers
  BY DEF IInv, ReloadInv, ReloadType, Refreshers
<1>1. /\ refresh[r].pc = "answered" /\ Fits(refresh[r]) /\ refresh[r].from \in Int
      /\ late' = refresh[r].overtaken /\ loader' = refresh[r].got /\ loader' \in Int
      /\ UNCHANGED <<xolu, server, update, serving>>
  BY TaskFacts DEF Swap, IInv, ReloadInv
<1>2. InHand' = InHand
  BY <1>1 DEF InHand
<1>3. \A q \in Refreshers : ~OnTime(refresh[q])'
  <2>1. CASE r = "signal"
    BY <1>0, <2>1, IdleFits DEF Swap, OnTime, Tasks
  <2>2. CASE r # "signal"
    BY <1>0, <2>2, IdleFits DEF Swap, OnTime, Tasks
  <2> QED
    BY <2>1, <2>2
<1>4. Offers' \subseteq {server, update} \cup InHand
  BY <1>1, <1>2 DEF Offers
<1>5. ASSUME ~late', loader' # Blank, NEW c \in Offers' PROVE c <= loader'
  <2>1. server <= loader' /\ update <= loader'
    BY <1>1, <1>5, SwapIsNewer
  <2>2. ASSUME c \in InHand PROVE c <= loader'
    <3>1. c \in Int /\ c <= refresh[r].from
      BY <1>1, <1>5, <2>2 DEF OfferInv, OnTime
    <3>2. refresh[r].from <= loader'
      BY <1>1, <1>5 DEF Fits
    <3> QED
      BY <1>1, <3>1, <3>2
  <2> QED
    BY <1>4, <2>1, <2>2
<1> QED
  BY <1>1, <1>2, <1>3, <1>5 DEF OfferInv

\* The signal goroutine takes the loader's list, or hands it to the server.
LEMMA UpdateOffers ==
    ASSUME IInv, OfferInv, ReadLoader \/ (refresh["signal"].pc = "read" /\ Replace("replaced"))
    PROVE  OfferInv'
<1>0. refresh \in [Refreshers -> Tasks] /\ "signal" \in Refreshers
  BY DEF IInv, ReloadInv, ReloadType, Refreshers
<1>1. UNCHANGED <<xolu, loader, late, serving>> /\ InHand' = InHand /\ loader \in Int
  BY TaskFacts DEF ReadLoader, Replace, InHand, IInv, ReloadInv, Refreshers
<1>2. \A r \in Refreshers : OnTime(refresh[r])' => OnTime(refresh[r]) /\ refresh'[r].from = refresh[r].from
  <2>1. CASE ReadLoader
    BY <1>0, <2>1 DEF ReadLoader, OnTime, Tasks
  <2>2. CASE Replace("replaced")
    BY <1>0, <2>2 DEF Replace, OnTime, Tasks
  <2> QED
    BY <2>1, <2>2
<1>3. Offers' \subseteq Offers \cup {loader}
  <2>1. CASE ReadLoader
    BY <1>0, <1>1, <2>1 DEF ReadLoader, Offers
  <2>2. CASE refresh["signal"].pc = "read" /\ Replace("replaced")
    <3>1. server' = update /\ refresh'["signal"].pc # "read"
      BY <1>0, <2>2 DEF Replace, Tasks
    <3> QED
      BY <1>1, <2>2, <3>1 DEF Offers
  <2> QED
    BY <2>1, <2>2
<1>4. loader <= loader
  BY <1>1
<1> QED
  BY <1>1, <1>2, <1>3, <1>4 DEF OfferInv

\* xolu moves on, or a SIGHUP comes.
LEMMA OutsideOffers == ASSUME IInv, OfferInv, XoluChanges \/ Hup PROVE OfferInv'
<1>1. UNCHANGED <<loader, late, refresh, server, update, serving>> /\ (xolu' = xolu + 1 \/ xolu' = xolu)
  BY DEF XoluChanges, Hup
<1>2. xolu \in Int
  BY Numbers DEF IInv, ReloadInv, ReloadType
<1>3. InHand' = InHand /\ Offers' = Offers
  BY <1>1 DEF InHand, Offers
<1>4. \A c \in InHand : c \in Int /\ c <= xolu'
  BY <1>1, <1>2 DEF OfferInv
<1> QED
  BY <1>1, <1>3, <1>4 DEF OfferInv, OnTime

LEMMA OfferStep == IInv /\ OfferInv /\ [Next]_vars => OfferInv'
<1> SUFFICES ASSUME IInv, OfferInv, [Next]_vars PROVE OfferInv'
  OBVIOUS
<1>0. refresh \in [Refreshers -> Tasks] /\ "signal" \in Refreshers /\ "ticker" \in Refreshers
  BY DEF IInv, ReloadInv, ReloadType, Refreshers
<1>1. CASE Tick \/ TakeHup
  <2> DEFINE t == [Idle EXCEPT !.pc = "asked", !.from = xolu]
  <2>1. t \in Tasks /\ t.pc = "asked" /\ t.from = xolu
    BY Numbers DEF IInv, ReloadInv, ReloadType, Idle, Tasks
  <2>2. PICK r \in Refreshers : Ask(r) /\ UNCHANGED <<xolu, loader, late, server, update, serving>>
    BY <1>0, <1>1 DEF Tick, TakeHup
  <2>3. refresh' = [refresh EXCEPT ![r] = t]
    BY <2>2 DEF Ask
  <2> HIDE DEF t
  <2> QED
    BY <2>1, <2>2, <2>3, TaskOffers
<1>2. ASSUME NEW r \in Refreshers, XoluAnswers(r) PROVE OfferInv'
  <2>1. PICK c : refresh' = [refresh EXCEPT ![r].pc = "answered", ![r].got = c] /\ c \in {xolu, Blank}
    BY <1>2 DEF XoluAnswers
  <2> DEFINE t == [refresh[r] EXCEPT !.pc = "answered", !.got = c]
  <2>2. /\ t \in Tasks /\ t.pc = "answered" /\ t.from = refresh[r].from /\ t.overtaken = refresh[r].overtaken
        /\ refresh[r].pc = "asked"
    BY <1>0, <1>2, <2>1, Numbers DEF XoluAnswers, IInv, ReloadInv, ReloadType, Tasks, Published
  <2>3. refresh' = [refresh EXCEPT ![r] = t] /\ UNCHANGED <<xolu, loader, late, server, update, serving>>
    BY <1>0, <1>2, <2>1 DEF XoluAnswers
  <2> HIDE DEF t
  <2>4. t.pc # "read" /\ (OnTime(t) => OnTime(refresh[r]) /\ t.from = refresh[r].from)
    BY <2>2 DEF OnTime
  <2> QED
    BY <2>2, <2>3, <2>4, TaskOffers
<1>3. ASSUME NEW r \in Refreshers, FetchFails(r) \/ (r = "signal" /\ Notify(Idle)) PROVE OfferInv'
  <2>1. refresh' = [refresh EXCEPT ![r] = Idle] /\ UNCHANGED <<xolu, loader, late, server, update, serving>>
    BY <1>3 DEF FetchFails, Notify
  <2>2. Idle.pc # "read" /\ ~OnTime(Idle)
    BY IdleFits DEF OnTime
  <2> QED
    BY <2>1, <2>2, IdleFits, TaskOffers
<1>4. ASSUME NEW r \in Refreshers, Swap(r) PROVE OfferInv'
  BY <1>4, SwapOffers
<1>5. CASE ReadLoader \/ (refresh["signal"].pc = "read" /\ Replace("replaced"))
  BY <1>5, UpdateOffers
<1>6. CASE XoluChanges \/ Hup
  BY <1>6, OutsideOffers
<1>7. CASE ServeStep \/ WriteResponse
  <2>1. UNCHANGED reload
    BY <1>7 DEF ServeStep, HandleList, CheckOffered, ValidateCall, WriteResponse
  <2>2. InHand' \subseteq InHand \cup {server}
    <3>1. serving \in Messages /\ server \in Catalogues
      BY DEF IInv, ReloadInv, ReloadType, ClientInv, ClientType
    <3>2. CASE HandleList \/ WriteResponse
      BY <3>1, <3>2, MessageFacts DEF HandleList, WriteResponse, InHand, Kinds
    <3>3. CASE CheckOffered
      BY <3>1, <3>3, MessageFacts DEF CheckOffered, InHand, Kinds
    <3>4. CASE ValidateCall
      BY <3>1, <3>4 DEF ValidateCall, InHand, Messages
    <3> QED
      BY <1>7, <3>2, <3>3, <3>4 DEF ServeStep
  <2> QED
    BY <2>1, <2>2, ServeOffers
<1>8. CASE SendList \/ SendCall
  <2>1. PICK kind \in {"list asked", "call asked"} : Send(kind)
    BY <1>8 DEF SendList, SendCall
  <2>2. UNCHANGED reload /\ serving'.kind = kind
    BY <2>1 DEF Send, Response
  <2>3. InHand' = {}
    BY <2>2 DEF InHand
  <2> QED
    BY <2>2, <2>3, ServeOffers
<1>9. CASE StartServing \/ Eof \/ ReadMessage \/ UNCHANGED vars
  <2>1. UNCHANGED <<reload, serving>>
    BY <1>9 DEF StartServing, Eof, ReadMessage, vars
  <2> QED
    BY <2>1, ServeOffers DEF InHand
<1>10. ReloadStep => OfferInv'
  BY <1>1, <1>2, <1>3, <1>4, <1>5, <1>6 DEF ReloadStep, Refresh
<1> QED
  BY <1>0, <1>3, <1>7, <1>8, <1>9, <1>10, Sorted

LEMMA OfferInvariance == Spec => []OfferInv
<1>1. Init => OfferInv
  <2> SUFFICES ASSUME Init PROVE OfferInv
    OBVIOUS
  <2>1. InHand = {} /\ Offers = {server} /\ server \in {0, Standard} /\ loader \in {0, Blank}
    BY IdleFits, MessageFacts DEF Init, InHand, Offers, Refreshers, Provided
  <2>2. loader = Blank \/ server <= loader
    BY <2>1, Numbers DEF Init, Provided
  <2> QED
    BY <2>1, <2>2 DEF OfferInv
<1> QED
  BY <1>1, OfferStep, Invariance, PTL DEF Spec

\* The call in hand meets a contract older than its offer only while the loader holds what
\* an overtaken refresh put there (executeTool reads both catalogues under two locks).
THEOREM ContractsFallBehindByOverlap == Spec => []ContractFollowsOffer
<1>1. OfferInv => ContractFollowsOffer
  BY DEF OfferInv, Offers, InHand, ContractFollowsOffer
<1> QED
  BY <1>1, OfferInvariance, PTL
=============================================================================
