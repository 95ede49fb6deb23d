------------------------------ MODULE MCClient -----------------------------
(***************************************************************************)
(* The calls of pkg/xolu that take several requests, for TLC: the agent    *)
(* lists, describes or uses the calendar, and the other modules rest.      *)
(* Lists have pages of two rows and windows that touch up to three pages,  *)
(* aligned and not.                                                        *)
(***************************************************************************)
EXTENDS ListPaging, Describe, Calendar, TLC

VARIABLE calling    \* "list", "describe" or "calendar"

ListRests ==
    /\ rows = <<>> /\ limit = 1 /\ offset = 0 /\ page = 1 /\ collected = <<>> /\ total = 0
    /\ counts = TRUE /\ answered = TRUE /\ asRead = <<<<>>>> /\ changes = <<>>

DescribeRests ==
    /\ items = [g \in Groups |-> {}] /\ registered = {} /\ v2 = TRUE
    /\ scope = "all" /\ name = Every /\ at = Len(Order) + 1 /\ todo = NotListed
    /\ found = [g \in Groups |-> {}] /\ unavailable = {}
    /\ detail = [gn \in Groups \X Name |-> "none"] /\ outcome = "ok"
    /\ stayed = items /\ kept = {} /\ deleted = items /\ disturbed = 0

CalendarRests ==
    /\ busy = {} /\ bookings = {} /\ onWay = {} /\ told = {} /\ lost = {}
    /\ op = Idle /\ reply = Reply("none") /\ calls = 0 /\ moves = 0
    /\ wasFree = {} /\ wasBusy = {}

ClientInit ==
    \/ calling = "list" /\ Init /\ DescribeRests /\ CalendarRests
    \/ calling = "describe" /\ DescribeInit /\ ListRests /\ CalendarRests
    \/ calling = "calendar" /\ CalendarInit /\ ListRests /\ DescribeRests

ClientNext ==
    /\ UNCHANGED calling
    /\ \/ calling = "list" /\ Next /\ UNCHANGED <<describeVars, calendarVars>>
       \/ calling = "describe" /\ DescribeNext /\ UNCHANGED <<vars, calendarVars>>
       \/ calling = "calendar" /\ CalendarNext /\ UNCHANGED <<vars, describeVars>>

ClientSpec == ClientInit /\ [][ClientNext]_<<vars, describeVars, calendarVars, calling>>

\* Names and calendars are interchangeable; rows are not, their order is xolu's.
Symmetry == Permutations(Name) \cup Permutations(Cal)

\* The type invariant of the three.
ClientTypeOK == ListTypeOK /\ DescribeTypeOK /\ CalendarTypeOK
=============================================================================
