------------------------------ MODULE Calendar ------------------------------
(***************************************************************************)
(* The calendar calls of pkg/xolu/calendar.go, one after another: cal_check*)
(* asks calendar after calendar while others book and free them,           *)
(* cal_propose sends a booking whose answer may be lost and cal_confirm    *)
(* sends the pair that names one.  All calls are about one span; durations *)
(* and bearers are data.                                                   *)
(***************************************************************************)
EXTENDS Integers, Sequences

CONSTANTS
    Cal,        \* xolu's calendars
    OwnIds,     \* booking ids an agent may choose
    MaxNamed,   \* bound: calendars in one list
    MaxCalls,   \* bound: calls of the agent
    MaxMoves    \* bound: changes of others to the calendars

VARIABLES
    busy,       \* xolu: the calendars that are taken in the span
    bookings,   \* xolu: the agent's bookings, proposed or binding
    onWay,      \* the proposals xolu may still apply
    op,         \* the call in hand
    reply,      \* how the last call ended
    calls,      \* the calls so far, and with them the clock
    wasFree, wasBusy,   \* history: of the calendars, during the last call
    told,       \* history: the bookings the agent was told of
    lost,       \* history: the proposals whose answer never came
    moves       \* the changes of others so far

xoluCalendar == <<busy, bookings, onWay, moves>>
history == <<wasFree, wasBusy, told, lost>>
calendarVars == <<xoluCalendar, op, reply, calls, history>>

\* What stands for an argument, beside calendars and ids of the agent.
Empty == <<"empty">>        \* an empty string
Absent == <<"absent">>      \* no such argument
Null == <<"null">>          \* a null
NilText == <<"<nil>">>      \* what Sprint makes of it
Drawn(n) == <<"bk", n>>     \* bk-<nanoseconds>

ASSUME CalendarAssumption ==
    /\ Cal \cap {Empty, Absent, Null, NilText} = {}
    /\ OwnIds \cap {Empty, Absent, Null} = {}
    /\ MaxNamed \in Nat \ {0}
    /\ MaxCalls \in Nat
    /\ MaxMoves \in Nat

\* calendars[], calendar_id, and whether the call's other arguments are there.
Naming ==
    [calendars : UNION {[1..n -> Cal \cup {Empty}] : n \in 0..MaxNamed},
     calendar_id : Cal \cup {Absent, Null}, complete : {TRUE}]
    \cup [calendars : {<<>>}, calendar_id : Cal, complete : {FALSE}]

Idle == [kind |-> "none", cals |-> <<>>, answers |-> <<>>, id |-> Absent, given |-> Absent]
Reply(code) == [code |-> code, cals |-> <<>>, blocking |-> {}, id |-> Absent, given |-> Absent]

(***************************************************************************)
(* The arguments: calendarsArg, oneCalendar and the ids.                   *)
(***************************************************************************)
\* The members of the list that are no empty strings, in its order.
Filled(list) ==
    LET upTo[n \in 0..Len(list)] ==
            IF n = 0 THEN <<>>
            ELSE IF list[n] = Empty THEN upTo[n - 1] ELSE Append(upTo[n - 1], list[n])
    IN  upTo[Len(list)]

CalendarsArg(args) ==
    LET listed == Filled(args.calendars)
    IN  IF listed # <<>> THEN listed
        ELSE IF args.calendar_id \in Cal THEN <<args.calendar_id>> ELSE <<>>

OneCalendar(args) == Len(CalendarsArg(args)) = 1

\* Faulty variant: cal_confirm reads the list first, as the others do.
ConfirmCalendarsListFirst(args) == CalendarsArg(args)

\* cal_confirm takes a null for a calendar.
ConfirmCalendars(args) ==
    CASE args.calendar_id \in Cal -> <<args.calendar_id>>
      [] args.calendar_id = Null -> <<NilText>>
      [] OTHER -> CalendarsArg(args)

BookingId(asked) ==
    CASE asked \in OwnIds -> asked
      [] asked = Null -> NilText
      [] asked \in {Absent, Empty} -> Drawn(calls + 1)

\* A call is refused without a request, or put in hand.
Begin(acceptable, next) ==
    /\ op = Idle /\ calls < MaxCalls
    /\ calls' = calls + 1
    /\ IF acceptable
       THEN op' = next /\ reply' = Reply("none")
       ELSE op' = op /\ reply' = Reply("CONTRACT_VIOLATION")
    /\ wasFree' = Cal \ busy /\ wasBusy' = busy

End(r) == op' = Idle /\ reply' = r

(***************************************************************************)
(* cal_check: one request per calendar, in the order of the list; the      *)
(* first that fails fails the call.                                        *)
(***************************************************************************)
Check(args) ==
    /\ Begin(CalendarsArg(args) # <<>> /\ args.complete,
             [Idle EXCEPT !.kind = "check", !.cals = CalendarsArg(args)])
    /\ UNCHANGED <<xoluCalendar, told, lost>>

\* Faulty variant: the answers are collected in reverse order.
CheckNextReversed ==
    /\ op.kind = "check" /\ Len(op.answers) < Len(op.cals)
    /\ op' = [op EXCEPT !.answers = <<op.cals[Len(@) + 1] \notin busy>> \o @]
    /\ UNCHANGED <<xoluCalendar, reply, calls, history>>

CheckNext ==
    /\ op.kind = "check" /\ Len(op.answers) < Len(op.cals)
    /\ op' = [op EXCEPT !.answers = Append(@, op.cals[Len(@) + 1] \notin busy)]
    /\ UNCHANGED <<xoluCalendar, reply, calls, history>>

\* Feasible is that nothing blocks.
CheckDone ==
    /\ op.kind = "check" /\ Len(op.answers) = Len(op.cals)
    /\ LET blocking == {op.cals[i] : i \in {j \in DOMAIN op.answers : ~op.answers[j]}}
       IN  End([Reply("ok") EXCEPT !.cals = op.cals, !.blocking = blocking])
    /\ UNCHANGED <<xoluCalendar, calls, history>>

(***************************************************************************)
(* cal_openings and cal_confirm: one request.                              *)
(***************************************************************************)
Openings(args) ==
    /\ Begin(OneCalendar(args) /\ args.complete,
             [Idle EXCEPT !.kind = "openings", !.cals = CalendarsArg(args)])
    /\ UNCHANGED <<xoluCalendar, told, lost>>

OpeningsDone ==
    /\ op.kind = "openings"
    /\ End(Reply("ok"))
    /\ UNCHANGED <<xoluCalendar, calls, history>>

Confirm(args, id) ==
    /\ Begin(Len(ConfirmCalendars(args)) = 1 /\ id # Absent,
             [Idle EXCEPT !.kind = "confirm", !.cals = ConfirmCalendars(args), !.id = id,
                          !.given = args.calendar_id])
    /\ UNCHANGED <<xoluCalendar, told, lost>>

\* What the request in hand names.
Named == [cal |-> op.cals[1], id |-> op.id]

ConfirmDone ==
    /\ op.kind = "confirm"
    /\ End([Reply(IF Named \in bookings THEN "ok" ELSE "NOT_FOUND") EXCEPT !.id = op.id, !.given = op.given])
    /\ UNCHANGED <<xoluCalendar, calls, history>>

(***************************************************************************)
(* cal_propose.  The request lives on its own once it is sent.             *)
(***************************************************************************)
Propose(args, asked) ==
    /\ Begin(OneCalendar(args) /\ args.complete,
             [Idle EXCEPT !.kind = "propose", !.cals = CalendarsArg(args), !.id = BookingId(asked)])
    /\ onWay' = IF op' = op THEN onWay ELSE onWay \cup {[cal |-> op'.cals[1], id |-> op'.id]}
    /\ UNCHANGED <<busy, bookings, moves, told, lost>>

\* xolu books, or finds the booking there, or refuses, and its answer arrives.
ProposeDone ==
    /\ op.kind = "propose" /\ Named \in onWay
    /\ onWay' = onWay \ {Named}
    /\ \/ End(Reply("ok")) /\ bookings' = bookings \cup {Named} /\ told' = told \cup {Named}
       \/ End(Reply("refused")) /\ UNCHANGED <<bookings, told>>
    /\ UNCHANGED <<busy, moves, calls, wasFree, wasBusy, lost>>

\* Faulty variant: a proposal without an answer is sent again under a new id.
RequestFailsOnce ==
    /\ op # Idle
    /\ IF op.kind = "propose" /\ calls < MaxCalls
       THEN /\ calls' = calls + 1
            /\ op' = [op EXCEPT !.id = Drawn(calls + 1)]
            /\ onWay' = onWay \cup {[cal |-> op.cals[1], id |-> Drawn(calls + 1)]}
            /\ UNCHANGED <<reply, lost>>
       ELSE /\ End(Reply("failed"))
            /\ lost' = IF op.kind = "propose" THEN lost \cup {Named} ELSE lost
            /\ UNCHANGED <<onWay, calls>>
    /\ UNCHANGED <<busy, bookings, moves, wasFree, wasBusy, told>>

\* A request fails on its way, or its answer does.
RequestFails ==
    /\ op # Idle
    /\ End(Reply("failed"))
    /\ lost' = IF op.kind = "propose" THEN lost \cup {Named} ELSE lost
    /\ UNCHANGED <<xoluCalendar, calls, wasFree, wasBusy, told>>

\* xolu gets to a proposal after molu stopped waiting for it, or drops it.
LateProposal ==
    /\ \E b \in onWay :
        /\ op.kind = "propose" => b # Named
        /\ onWay' = onWay \ {b}
        /\ bookings' \in {bookings, bookings \cup {b}}
    /\ UNCHANGED <<busy, moves, op, reply, calls, history>>

\* Others book and free the calendars, which only a check looks at.
Move ==
    /\ moves < MaxMoves /\ op.kind = "check"
    /\ moves' = moves + 1
    /\ \E c \in Cal : busy' = (busy \cup {c}) \ (busy \cap {c})
    /\ wasFree' = wasFree \cup (Cal \ busy') /\ wasBusy' = wasBusy \cup busy'
    /\ UNCHANGED <<bookings, onWay, op, reply, calls, told, lost>>

CalendarInit ==
    /\ busy \in SUBSET Cal
    /\ bookings = {} /\ onWay = {} /\ told = {} /\ lost = {}
    /\ op = Idle /\ reply = Reply("none")
    /\ calls = 0 /\ moves = 0
    /\ wasFree = {} /\ wasBusy = {}

\* The agent confirms what it was told, or what it made up.
CalendarCall ==
    \E args \in Naming :
        \/ Check(args)
        \/ Openings(args)
        \/ \E asked \in OwnIds \cup {Absent, Empty, Null} : Propose(args, asked)
        \/ \E id \in {b.id : b \in told} \cup OwnIds \cup {Absent} : Confirm(args, id)

Step == CheckNext \/ CheckDone \/ OpeningsDone \/ ConfirmDone \/ ProposeDone \/ RequestFails

CalendarNext == CalendarCall \/ Step \/ LateProposal \/ Move

CalendarSpec == CalendarInit /\ [][CalendarNext]_calendarVars

-----------------------------------------------------------------------------

Ids == OwnIds \cup {NilText} \cup {Drawn(n) : n \in 1..MaxCalls}

Calls ==
    [kind : {"none", "check", "openings", "propose", "confirm"},
     cals : Seq(Cal \cup {NilText}), answers : Seq(BOOLEAN), id : Ids \cup {Absent},
     given : Cal \cup {Absent, Null}]

Replies ==
    [code : {"none", "ok", "CONTRACT_VIOLATION", "NOT_FOUND", "refused", "failed"},
     cals : Seq(Cal), blocking : SUBSET Cal, id : Ids \cup {Absent}, given : Cal \cup {Absent, Null}]

CalendarTypeOK ==
    /\ {busy, wasFree, wasBusy} \subseteq SUBSET Cal
    /\ bookings \cup onWay \cup told \cup lost \subseteq [cal : Cal, id : Ids]
    /\ op \in Calls /\ Len(op.answers) <= Len(op.cals) /\ Len(op.cals) <= MaxNamed
    /\ reply \in Replies
    /\ calls \in 0..MaxCalls /\ moves \in 0..MaxMoves

(***************************************************************************)
(* The combined answer of cal_check is true calendar by calendar, though   *)
(* not at one instant: a calendar it does not name as blocking was free,   *)
(* and one it names was taken, at some instant of the call (calCheck asks  *)
(* one after the other and others book meanwhile).                         *)
(***************************************************************************)
CheckIsTrueOfEach ==
    reply.code = "ok" /\ reply.cals # <<>> =>
        /\ reply.blocking \subseteq wasBusy
        /\ {reply.cals[i] : i \in DOMAIN reply.cals} \ reply.blocking \subseteq wasFree

(***************************************************************************)
(* No booking, made or still to be made, that the agent cannot name: it    *)
(* chose the id, was told of it, or has lost exactly that answer, although *)
(* calPropose draws ids of its own and xolu may apply one late.            *)
(***************************************************************************)
BookingsAreAccountedFor ==
    \A b \in bookings \cup onWay :
        b.id \in OwnIds \/ b \in told \cup lost \/ (op.kind = "propose" /\ b = Named)

(***************************************************************************)
(* A confirm that repeats calendar_id and booking_id as cal_propose gave   *)
(* them finds the booking, whatever else it names, and however the         *)
(* proposal had named the calendar (calConfirm and calendarsArg read the   *)
(* two arguments in opposite order).                                       *)
(***************************************************************************)
ConfirmFindsTheProposal ==
    reply.code = "NOT_FOUND" => [cal |-> reply.given, id |-> reply.id] \notin told
=============================================================================
