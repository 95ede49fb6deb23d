-------------------------- MODULE TelemetryProofs ---------------------------
(*****************************************************************************)
(* The log files: a line that Write took is lost in two ways only, and no    *)
(* file outgrows the limit, for every size, age and number of lines.  The    *)
(* inductive invariant IInv follows each line from the file to the archive:  *)
(* who holds it and, where a goroutine holds it, what it will find on the    *)
(* disk.                                                                     *)
(*                                                                           *)
(* The loggers: a logger's lines carry what it was derived with and nothing  *)
(* else.  LoggerInv needs no more than the types, in which references point  *)
(* at what is there, because the memory behind them only grows (Keeps).      *)
(*****************************************************************************)
EXTENDS LogRotator, Logger, FiniteSetTheorems, TLAPS

OldLine(l) == now - wrote[l] > MaxAge

HeldLine(l) ==
    \/ l \in active
    \/ \E s \in Seconds : l \in rotated[s].lines
    \/ \E s \in Seconds : l \in archive[s].lines
    \/ \E n \in Lines : jobs[n].pc = "removed" /\ l \in jobs[n].got

\* Lines are taken in order, rotations are fewer than lines, a pass looks back MaxAge.
OrderInv ==
    /\ \A l \in Lines : wrote[l] # Never => l <= line /\ wrote[l] <= now
    /\ \A n \in Lines : n > rotations => jobs[n] = NoJob
    /\ rotations <= line
    /\ cutoff <= now - MaxAge

\* Only lines that were taken are in files, and in the hands of goroutines.
TakenInv ==
    /\ active \subseteq Taken
    /\ \A s \in Seconds : rotated[s].lines \subseteq Taken /\ archive[s].lines \subseteq Taken
    /\ \A n \in Lines : jobs[n].got \subseteq Taken

\* currentSize counts the lines of the open file, one of which is the newest.
SizeInv ==
    /\ IsFiniteSet(active) /\ Cardinality(active) <= MaxSize
    /\ file = "open" => size = Cardinality(active)
    /\ active # {} => \E l \in active : \A m \in active : wrote[m] <= wrote[l]
    /\ \A s \in Seconds : Cardinality(rotated[s].lines) <= MaxSize

\* A file is as new as its newest line.
MtimeInv ==
    \A s \in Seconds :
        /\ ~rotated[s].there => rotated[s].lines = {}
        /\ ~archive[s].there => archive[s].lines = {}
        /\ \A l \in rotated[s].lines : wrote[l] <= rotated[s].mtime
        /\ \A l \in archive[s].lines : wrote[l] <= archive[s].mtime

\* A goroutine finds its archive unwritten, and gone only when its lines are old.
Holds(n) ==
    LET s == jobs[n].stamp
    IN  /\ jobs[n].pc # "none" => archive[s].lines = {}
        /\ jobs[n].pc \in {"opened", "created"} => rotated[s].lines \subseteq jobs[n].got
        /\ jobs[n].pc \in {"created", "removed"} =>
             \A l \in jobs[n].got :
                IF archive[s].there THEN wrote[l] <= archive[s].mtime ELSE OldLine(l)

JobInv ==
    ~collided =>
        /\ \A m, n \in Lines : m # n /\ jobs[m].pc # "none" /\ jobs[n].pc # "none"
                                => jobs[m].stamp # jobs[n].stamp
        /\ \A n \in Lines : Holds(n)

Kept == ~collided /\ ~unflushed => \A l \in Taken : OldLine(l) \/ HeldLine(l)

IInv == TypeOK /\ OrderInv /\ TakenInv /\ SizeInv /\ MtimeInv /\ JobInv /\ Kept

-----------------------------------------------------------------------------

LEMMA Constants ==
    /\ MaxSize \in Nat \ {0} /\ MaxAge \in Nat \ {0} /\ MaxLines \in Nat /\ MaxSeconds \in Nat
    /\ \A l \in Lines : l \in Nat \ {0} /\ l <= MaxLines
    /\ \A s \in Seconds : s \in Nat
    /\ 0 \in Seconds /\ Never \notin Seconds
BY LogRotatorAssumption DEF Lines, Seconds, Never

LEMMA EmptyFile == IsFiniteSet({}) /\ Cardinality({}) = 0 /\ 0 <= MaxSize
BY FS_EmptySet, Constants

LEMMA FileTypes ==
    /\ NoFile \in FileType
    /\ \A lines \in SUBSET Lines, t \in Seconds : File(lines, t) \in FileType
BY DEF NoFile, File, FileType

LEMMA InitInv == Init => IInv
<1> SUFFICES ASSUME Init PROVE IInv
  OBVIOUS
<1>1. TypeOK
  <2>1. 0 \in 0..MaxSize /\ 0 \in 0..MaxLines /\ 0 - MaxAge \in (0 - MaxAge)..MaxSeconds
    BY Constants
  <2>2. NoJob \in [pc : {"none", "start", "opened", "created", "removed"}, stamp : Seconds, got : SUBSET Lines]
    BY Constants DEF NoJob
  <2>3. rotated \in [Seconds -> FileType] /\ archive \in [Seconds -> FileType]
    BY FileTypes DEF Init
  <2>4. jobs \in [Lines -> [pc : {"none", "start", "opened", "created", "removed"},
                           stamp : Seconds, got : SUBSET Lines]]
    BY <2>2 DEF Init
  <2>5. wrote \in [Lines -> Seconds \cup {Never}]
    BY DEF Init
  <2> QED
    BY <2>1, <2>3, <2>4, <2>5, Constants DEF Init, TypeOK
<1>2. OrderInv
  <2>1. cutoff <= now - MaxAge /\ rotations <= line
    BY Constants DEF Init
  <2>2. \A l \in Lines : wrote[l] = Never /\ jobs[l] = NoJob
    BY DEF Init
  <2> QED
    BY <2>1, <2>2 DEF OrderInv
<1>3. TakenInv
  BY DEF Init, TakenInv, NoFile, NoJob
<1>4. SizeInv
  <2>1. active = {} /\ size = 0 /\ \A s \in Seconds : rotated[s].lines = {}
    BY DEF Init, NoFile
  <2> QED
    BY <2>1, EmptyFile DEF SizeInv
<1>5. MtimeInv
  BY DEF Init, MtimeInv, NoFile
<1>6. JobInv
  BY DEF Init, JobInv, Holds, NoJob, NoFile
<1>7. Kept
  BY DEF Init, Kept, Taken
<1> QED
  BY <1>1, <1>2, <1>3, <1>4, <1>5, <1>6, <1>7 DEF IInv

-----------------------------------------------------------------------------

JobType == [pc : {"none", "start", "opened", "created", "removed"}, stamp : Seconds, got : SUBSET Lines]

LEMMA TypeFacts ==
    ASSUME TypeOK
    PROVE  /\ now \in Nat /\ now <= MaxSeconds /\ cutoff \in Int /\ size \in Nat /\ line \in Nat /\ rotations \in Nat
           /\ \A l \in Lines : wrote[l] \in Int
           /\ rotated \in [Seconds -> FileType] /\ archive \in [Seconds -> FileType]
           /\ jobs \in [Lines -> JobType]
           /\ \A s \in Seconds : rotated[s].mtime \in Int /\ archive[s].mtime \in Int
           /\ \A n \in Lines : jobs[n].stamp \in Seconds
<1>1. now \in 0..MaxSeconds /\ size \in 0..MaxSize /\ line \in 0..MaxLines /\ rotations \in 0..MaxLines
  BY DEF TypeOK, Seconds
<1>2. now \in Nat /\ now <= MaxSeconds /\ size \in Nat /\ line \in Nat /\ rotations \in Nat
  BY <1>1, Constants
<1>3. cutoff \in Int
  BY Constants DEF TypeOK
<1>4. \A l \in Lines : wrote[l] \in Int
  BY Constants DEF TypeOK, Never
<1>5. /\ rotated \in [Seconds -> FileType] /\ archive \in [Seconds -> FileType]
      /\ jobs \in [Lines -> JobType]
  BY DEF TypeOK, JobType
<1>6. \A f \in FileType : f.mtime \in Int
  BY Constants DEF FileType, Never
<1>7. \A n \in Lines : jobs[n].stamp \in Seconds
  BY <1>5 DEF JobType
<1> QED
  BY <1>2, <1>3, <1>4, <1>5, <1>6, <1>7

(***************************************************************************)
(* A step of a goroutine: it may change its own entry and the two files of *)
(* its second, and must not let go of a line that is not old.              *)
(***************************************************************************)
LEMMA JobStepInv ==
    ASSUME IInv, NEW n \in Lines, jobs[n].pc # "none",
           NEW job \in JobType, jobs' = [jobs EXCEPT ![n] = job],
           job.pc = "none" \/ job.stamp = jobs[n].stamp, job.got \subseteq Taken,
           NEW r \in FileType, rotated' = [rotated EXCEPT ![jobs[n].stamp] = r],
           r = rotated[jobs[n].stamp] \/ r = NoFile,
           NEW a \in FileType, archive' = [archive EXCEPT ![jobs[n].stamp] = a],
           a \in {archive[jobs[n].stamp], NoFile} \/ (a.there /\ a.mtime = now /\ a.lines \subseteq Taken),
           UNCHANGED <<active, now, file, size, rotations, wrote, line, cutoff, collided>>,
           unflushed' \in BOOLEAN, unflushed => unflushed',
           ~collided => Holds(n)',
           ~collided /\ ~unflushed' =>
             \A l \in Taken :
                \/ l \in rotated[jobs[n].stamp].lines
                \/ l \in archive[jobs[n].stamp].lines
                \/ jobs[n].pc = "removed" /\ l \in jobs[n].got
                => OldLine(l) \/ l \in r.lines \/ l \in a.lines \/ (job.pc = "removed" /\ l \in job.got)
    PROVE  IInv'
<1> DEFINE s0 == jobs[n].stamp
<1>0. TypeOK /\ OrderInv /\ TakenInv /\ SizeInv /\ MtimeInv /\ JobInv /\ Kept
  BY DEF IInv
<1>1. /\ s0 \in Seconds /\ jobs \in [Lines -> JobType]
      /\ rotated \in [Seconds -> FileType] /\ archive \in [Seconds -> FileType]
      /\ now \in Nat /\ \A l \in Lines : wrote[l] \in Int
  BY <1>0, TypeFacts
<1>2. /\ rotated' \in [Seconds -> FileType] /\ archive' \in [Seconds -> FileType] /\ jobs' \in [Lines -> JobType]
      /\ rotated'[s0] = r /\ archive'[s0] = a /\ jobs'[n] = job
      /\ \A s \in Seconds : s # s0 => rotated'[s] = rotated[s] /\ archive'[s] = archive[s]
      /\ \A m \in Lines : m # n => jobs'[m] = jobs[m]
  BY <1>1
<1>3. /\ now' = now /\ file' = file /\ size' = size /\ active' = active /\ rotations' = rotations
      /\ wrote' = wrote /\ line' = line /\ cutoff' = cutoff /\ collided' = collided /\ Taken' = Taken
  BY DEF Taken
<1>4. TypeOK'
  BY <1>0, <1>2, <1>3 DEF TypeOK, JobType
<1>5. OrderInv'
  <2>1. n <= rotations
    BY <1>0, <1>1, Constants, TypeFacts DEF OrderInv, NoJob
  <2>2. \A m \in Lines : m > rotations => m # n
    BY <1>0, <2>1, Constants, TypeFacts
  <2> QED
    BY <1>0, <1>2, <1>3, <2>2 DEF OrderInv
<1>6. TakenInv'
  BY <1>0, <1>1, <1>2, <1>3 DEF TakenInv, NoFile
<1>7. SizeInv'
  <2>1. \A s \in Seconds : rotated'[s].lines = rotated[s].lines \/ rotated'[s].lines = {}
    BY <1>2 DEF NoFile
  <2>2. \A s \in Seconds : Cardinality(rotated'[s].lines) <= MaxSize
    BY <1>0, <2>1, EmptyFile DEF SizeInv
  <2> QED
    BY <1>0, <1>3, <2>2 DEF SizeInv
<1>8. MtimeInv'
  <2>1. \A l \in Taken : wrote[l] <= now
    BY <1>0 DEF OrderInv, Taken
  <2> QED
    BY <1>0, <1>1, <1>2, <1>3, <2>1 DEF MtimeInv, NoFile
<1>9. JobInv'
  <2> SUFFICES ASSUME ~collided PROVE JobInv'
    BY <1>3 DEF JobInv
  <2>1. \A l, m \in Lines : l # m /\ jobs'[l].pc # "none" /\ jobs'[m].pc # "none" => jobs'[l].stamp # jobs'[m].stamp
    BY <1>0, <1>2 DEF JobInv
  <2>2. ASSUME NEW m \in Lines, m # n PROVE Holds(m)'
    <3>1. jobs[m].pc # "none" => jobs[m].stamp # s0 /\ jobs[m].stamp \in Seconds
      BY <1>0, <2>2, TypeFacts DEF JobInv
    <3>2. Holds(m)
      BY <1>0 DEF JobInv
    <3> QED
      BY <1>2, <1>3, <2>2, <3>1, <3>2 DEF Holds, OldLine
  <2> QED
    BY <1>3, <2>1, <2>2 DEF JobInv
<1>10. Kept'
  <2> SUFFICES ASSUME ~collided, ~unflushed', NEW l \in Taken, ~OldLine(l) PROVE HeldLine(l)'
    BY <1>3 DEF Kept, OldLine
  <2>1. HeldLine(l)
    BY <1>0 DEF Kept
  <2>2. CASE \/ l \in rotated[s0].lines \/ l \in archive[s0].lines
             \/ jobs[n].pc = "removed" /\ l \in jobs[n].got
    BY <1>1, <1>2, <2>2 DEF HeldLine
  <2>3. CASE ~(\/ l \in rotated[s0].lines \/ l \in archive[s0].lines
               \/ jobs[n].pc = "removed" /\ l \in jobs[n].got)
    BY <1>2, <1>3, <2>1, <2>3 DEF HeldLine
  <2> QED
    BY <2>2, <2>3
<1> QED
  BY <1>4, <1>5, <1>6, <1>7, <1>8, <1>9, <1>10 DEF IInv

\* What a goroutine that is under way knows of its entry and of its second.
LEMMA JobFacts ==
    ASSUME IInv, NEW n \in Lines
    PROVE  /\ n \in DOMAIN jobs /\ jobs[n] \in JobType /\ jobs[n].got \subseteq Taken
           /\ jobs[n].stamp \in Seconds /\ now \in Seconds
           /\ rotated[jobs[n].stamp] \in FileType /\ archive[jobs[n].stamp] \in FileType
           /\ rotated = [rotated EXCEPT ![jobs[n].stamp] = rotated[jobs[n].stamp]]
           /\ archive = [archive EXCEPT ![jobs[n].stamp] = archive[jobs[n].stamp]]
           /\ rotated[jobs[n].stamp].lines \subseteq Taken
           /\ \A l \in Taken : l \in Lines /\ wrote[l] \in Int /\ wrote[l] <= now
           /\ NoJob \in JobType /\ NoJob.pc = "none" /\ NoJob.got = {}
<1>1. /\ jobs \in [Lines -> JobType] /\ rotated \in [Seconds -> FileType] /\ archive \in [Seconds -> FileType]
      /\ \A l \in Lines : wrote[l] \in Int
  BY TypeFacts DEF IInv
<1>2. jobs[n] \in JobType /\ jobs[n].stamp \in Seconds
  BY <1>1 DEF JobType
<1>3. jobs[n].got \subseteq Taken /\ rotated[jobs[n].stamp].lines \subseteq Taken
  BY <1>2 DEF IInv, TakenInv
<1>4. \A l \in Taken : l \in Lines /\ wrote[l] \in Int /\ wrote[l] <= now
  BY <1>1 DEF IInv, OrderInv, Taken
<1>5. NoJob \in JobType /\ NoJob.pc = "none" /\ NoJob.got = {}
  BY Constants DEF NoJob, JobType
<1>6. now \in Seconds
  BY DEF IInv, TypeOK
<1> QED
  BY <1>1, <1>2, <1>3, <1>4, <1>5, <1>6

\* Entries of a goroutine with some fields changed.
LEMMA JobWith ==
    ASSUME NEW j \in JobType, NEW pc \in {"none", "start", "opened", "created", "removed"}, NEW got \in SUBSET Lines
    PROVE  /\ [j EXCEPT !.pc = pc] \in JobType
           /\ [j EXCEPT !.pc = pc].pc = pc /\ [j EXCEPT !.pc = pc].stamp = j.stamp /\ [j EXCEPT !.pc = pc].got = j.got
           /\ [j EXCEPT !.pc = pc, !.got = got] \in JobType
           /\ [j EXCEPT !.pc = pc, !.got = got].pc = pc /\ [j EXCEPT !.pc = pc, !.got = got].stamp = j.stamp
           /\ [j EXCEPT !.pc = pc, !.got = got].got = got
BY DEF JobType

LEMMA CompressInv == IInv /\ Compress => IInv'
<1> SUFFICES ASSUME IInv, Compress PROVE IInv'
  OBVIOUS
<1>0. /\ TypeOK /\ JobInv
      /\ UNCHANGED <<now, file, size, rotations, wrote, line, cutoff, collided>>
  BY DEF IInv, Compress
<1>n. PICK n \in Lines : Open(n) \/ Create(n) \/ CopyFails(n) \/ RemoveOriginal(n) \/ CloseArchive(n)
  BY <1>0 DEF Compress, TypeOK
<1> DEFINE s0 == jobs[n].stamp
<1>1. /\ jobs[n] \in JobType /\ jobs[n].got \subseteq Taken /\ s0 \in Seconds /\ now \in Seconds
      /\ rotated[s0] \in FileType /\ archive[s0] \in FileType
      /\ rotated = [rotated EXCEPT ![s0] = rotated[s0]] /\ archive = [archive EXCEPT ![s0] = archive[s0]]
      /\ rotated[s0].lines \subseteq Taken
      /\ \A l \in Taken : l \in Lines /\ wrote[l] \in Int /\ wrote[l] <= now
      /\ NoJob \in JobType /\ NoJob.pc = "none" /\ NoJob.got = {}
  BY JobFacts
<1>2. ~collided => Holds(n)
  BY <1>0 DEF JobInv
<1>3. jobs \in [Lines -> JobType] /\ rotated \in [Seconds -> FileType] /\ archive \in [Seconds -> FileType]
  BY <1>0, TypeFacts
<1>4. unflushed \in BOOLEAN
  BY <1>0 DEF TypeOK
<1>5. CASE Open(n)
  <2>1. jobs[n].pc = "start" /\ UNCHANGED <<active, rotated, archive, unflushed>>
    BY <1>5 DEF Open, disk
  <2>2. CASE rotated[s0].there
    <3> DEFINE job == [jobs[n] EXCEPT !.pc = "opened", !.got = rotated[s0].lines]
    <3>1. jobs' = [jobs EXCEPT ![n] = job]
      BY <1>5, <2>2 DEF Open, Job
    <3>a. rotated[s0].lines \in SUBSET Lines
      BY <1>1 DEF FileType
    <3>2. job \in JobType /\ job.pc = "opened" /\ job.stamp = s0 /\ job.got = rotated[s0].lines
      BY <1>1, <3>a DEF JobType
    <3> HIDE DEF job
    <3>3. jobs'[n] = job
      BY <1>3, <3>1
    <3>4. ~collided => Holds(n)'
      BY <1>2, <2>1, <3>2, <3>3 DEF Holds
    <3>5. rotated' = [rotated EXCEPT ![s0] = rotated[s0]] /\ archive' = [archive EXCEPT ![s0] = archive[s0]]
      BY <1>1, <2>1
    <3>6. job.got \subseteq Taken
      BY <1>1, <3>2
    <3> QED
      BY <1>0, <1>1, <1>4, <2>1, <3>1, <3>2, <3>4, <3>5, <3>6, JobStepInv
  <2>3. CASE ~rotated[s0].there
    <3>1. jobs' = [jobs EXCEPT ![n] = NoJob]
      BY <1>5, <2>3 DEF Open, Job
    <3>2. Holds(n)'
      BY <1>1, <1>3, <3>1 DEF Holds
    <3> QED
      BY <1>0, <1>1, <1>4, <2>1, <3>1, <3>2, JobStepInv
  <2> QED
    BY <2>2, <2>3
<1>6. CASE Create(n)
  <2>1. jobs[n].pc = "opened" /\ UNCHANGED <<active, rotated, unflushed>>
    BY <1>6 DEF Create
  <2>2. CASE /\ Job(n, [jobs[n] EXCEPT !.pc = "created"])
             /\ archive' = [archive EXCEPT ![s0] = File({}, now)]
    <3> DEFINE job == [jobs[n] EXCEPT !.pc = "created"]
               a == File({}, now)
    <3>1. jobs' = [jobs EXCEPT ![n] = job] /\ archive' = [archive EXCEPT ![s0] = a]
      BY <2>2 DEF Job
    <3>2. job \in JobType /\ job.pc = "created" /\ job.stamp = s0 /\ job.got = jobs[n].got
      BY <1>1, JobWith
    <3>3. a \in FileType /\ a.there /\ a.mtime = now /\ a.lines = {}
      BY <1>1, FileTypes DEF File
    <3> HIDE DEF job, a
    <3>4. jobs'[n] = job /\ archive'[s0] = a
      BY <1>1, <1>3, <3>1
    <3>5. ~collided => Holds(n)'
      BY <1>0, <1>1, <1>2, <2>1, <3>2, <3>3, <3>4 DEF Holds
    <3>6. ~collided => archive[s0].lines = {}
      BY <1>2, <2>1 DEF Holds
    <3> QED
      BY <1>0, <1>1, <1>4, <2>1, <3>1, <3>2, <3>3, <3>5, <3>6, JobStepInv
  <2>3. CASE Job(n, NoJob) /\ UNCHANGED archive
    <3>1. jobs' = [jobs EXCEPT ![n] = NoJob]
      BY <2>3 DEF Job
    <3>2. Holds(n)'
      BY <1>1, <1>3, <3>1 DEF Holds
    <3> QED
      BY <1>0, <1>1, <1>4, <2>1, <2>3, <3>1, <3>2, JobStepInv
  <2> QED
    BY <1>6, <2>2, <2>3 DEF Create
<1>7. CASE CopyFails(n)
  <2>1. /\ jobs[n].pc = "created" /\ UNCHANGED <<active, rotated, unflushed>>
        /\ jobs' = [jobs EXCEPT ![n] = NoJob] /\ archive' = [archive EXCEPT ![s0] = NoFile]
    BY <1>7 DEF CopyFails, Job
  <2>2. Holds(n)'
    BY <1>1, <1>3, <2>1 DEF Holds
  <2>3. ~collided => archive[s0].lines = {}
    BY <1>2, <2>1 DEF Holds
  <2> QED
    BY <1>0, <1>1, <1>4, <2>1, <2>2, <2>3, FileTypes, JobStepInv
<1>8. CASE RemoveOriginal(n)
  <2> DEFINE job == [jobs[n] EXCEPT !.pc = "removed"]
  <2>1. /\ jobs[n].pc = "created" /\ UNCHANGED <<active, archive, unflushed>>
        /\ jobs' = [jobs EXCEPT ![n] = job] /\ rotated' = [rotated EXCEPT ![s0] = NoFile]
    BY <1>8 DEF RemoveOriginal, Job
  <2>2. job \in JobType /\ job.pc = "removed" /\ job.stamp = s0 /\ job.got = jobs[n].got
    BY <1>1, JobWith
  <2> HIDE DEF job
  <2>3. jobs'[n] = job
    BY <1>3, <2>1
  <2>4. ~collided => Holds(n)'
    BY <1>0, <1>2, <2>1, <2>2, <2>3 DEF Holds, OldLine
  <2>5. ~collided => rotated[s0].lines \subseteq job.got
    BY <1>2, <2>1, <2>2 DEF Holds
  <2> QED
    BY <1>0, <1>1, <1>4, <2>1, <2>2, <2>4, <2>5, FileTypes, JobStepInv
<1>9. CASE CloseArchive(n)
  <2>1. /\ jobs[n].pc = "removed" /\ UNCHANGED <<active, rotated>>
        /\ jobs' = [jobs EXCEPT ![n] = NoJob]
    BY <1>9 DEF CloseArchive, Job
  <2>2. Holds(n)'
    BY <1>1, <1>3, <2>1 DEF Holds
  <2>3. CASE /\ archive[s0].there
             /\ archive' = [archive EXCEPT ![s0] = File(IF Alone(n) THEN jobs[n].got ELSE {}, now)]
             /\ UNCHANGED unflushed
    <3> DEFINE a == File(IF Alone(n) THEN jobs[n].got ELSE {}, now)
    <3>1. ~collided => Alone(n)
      BY <1>0, <1>3, <2>1 DEF JobInv, Alone
    <3>2. (IF Alone(n) THEN jobs[n].got ELSE {}) \in SUBSET Lines
      BY <1>1 DEF JobType
    <3>3. a \in FileType /\ a.there /\ a.mtime = now /\ a.lines \subseteq Taken
      BY <1>1, <3>2, FileTypes DEF File
    <3>4. ~collided => a.lines = jobs[n].got /\ archive[s0].lines = {}
      BY <1>2, <2>1, <3>1 DEF File, Holds
    <3> HIDE DEF a
    <3>5. archive' = [archive EXCEPT ![s0] = a]
      BY <2>3 DEF a
    <3>6. rotated' = [rotated EXCEPT ![s0] = rotated[s0]]
      BY <1>1, <2>1
    <3>7. ~collided /\ ~unflushed' =>
             \A l \in Taken :
                \/ l \in rotated[s0].lines
                \/ l \in archive[s0].lines
                \/ jobs[n].pc = "removed" /\ l \in jobs[n].got
                => OldLine(l) \/ l \in rotated[s0].lines \/ l \in a.lines \/ (NoJob.pc = "removed" /\ l \in NoJob.got)
      BY <3>4
    <3> QED
      BY <1>0, <1>1, <1>4, <2>1, <2>2, <2>3, <3>3, <3>5, <3>6, <3>7, JobStepInv
  <2>4. CASE ~archive[s0].there /\ UNCHANGED <<archive, unflushed>>
    <3>1. ~collided => \A l \in jobs[n].got : OldLine(l)
      BY <1>2, <2>1, <2>4 DEF Holds
    <3> QED
      BY <1>0, <1>1, <1>4, <2>1, <2>2, <2>4, <3>1, JobStepInv
  <2>5. CASE unflushed' = TRUE /\ UNCHANGED archive
    BY <1>0, <1>1, <2>1, <2>2, <2>5, JobStepInv
  <2> QED
    BY <1>9, <2>3, <2>4, <2>5 DEF CloseArchive
<1> QED
  BY <1>n, <1>5, <1>6, <1>7, <1>8, <1>9

-----------------------------------------------------------------------------

\* The line that a writer comes with was never taken; the others keep their time.
LEMMA TakeFacts ==
    ASSUME IInv, line < MaxLines, line' = line + 1, wrote' = [wrote EXCEPT ![line'] = now]
    PROVE  /\ line' \in Lines /\ line' \notin Taken
           /\ wrote' \in [Lines -> Seconds \cup {Never}] /\ wrote'[line'] = now
           /\ \A l \in Lines : l # line' => wrote'[l] = wrote[l]
           /\ \A l \in Taken : wrote'[l] = wrote[l]
           /\ Taken' = Taken \cup {line'}
<1>1. TypeOK /\ OrderInv
  BY DEF IInv
<1>2. line \in 0..MaxLines /\ now \in Seconds /\ wrote \in [Lines -> Seconds \cup {Never}]
  BY <1>1 DEF TypeOK
<1>3. line' \in Lines /\ ~(line' <= line)
  BY <1>2, Constants DEF Lines
<1>4. line' \notin Taken
  BY <1>1, <1>3 DEF OrderInv, Taken
<1>5. wrote' \in [Lines -> Seconds \cup {Never}] /\ wrote'[line'] = now /\ \A l \in Lines : l # line' => wrote'[l] = wrote[l]
  BY <1>2, <1>3
<1>6. now # Never
  BY <1>2, Constants
<1>7. Taken' = Taken \cup {line'}
  BY <1>3, <1>5, <1>6 DEF Taken
<1>8. \A l \in Taken : wrote'[l] = wrote[l]
  BY <1>4, <1>5 DEF Taken
<1> QED
  BY <1>3, <1>4, <1>5, <1>7, <1>8

LEMMA WriteLineInv ==
    ASSUME IInv, line < MaxLines, line' = line + 1, WriteLine
    PROVE  IInv'
<1>0. /\ TypeOK /\ OrderInv /\ TakenInv /\ SizeInv /\ MtimeInv /\ JobInv /\ Kept
      /\ file = "open" /\ size < MaxSize /\ active' = active \cup {line'} /\ size' = size + 1
      /\ wrote' = [wrote EXCEPT ![line'] = now]
      /\ file' = file /\ rotated' = rotated /\ archive' = archive /\ jobs' = jobs /\ rotations' = rotations
      /\ collided' = collided /\ now' = now /\ cutoff' = cutoff /\ unflushed' = unflushed
  BY DEF IInv, WriteLine, Take
<1>1. /\ line' \in Lines /\ line' \notin Taken
      /\ wrote' \in [Lines -> Seconds \cup {Never}] /\ wrote'[line'] = now
      /\ \A l \in Lines : l # line' => wrote'[l] = wrote[l]
      /\ \A l \in Taken : wrote'[l] = wrote[l]
      /\ Taken' = Taken \cup {line'}
  BY <1>0, TakeFacts
<1>2. /\ now \in Nat /\ size \in Nat /\ line \in Nat /\ rotations \in Nat
      /\ \A l \in Lines : wrote[l] \in Int
      /\ \A s \in Seconds : rotated[s].mtime \in Int /\ archive[s].mtime \in Int
  BY <1>0, TypeFacts
<1>3. TypeOK'
  <2>1. line' \in 0..MaxLines /\ size' \in 0..MaxSize
    BY <1>0, <1>1, <1>2, Constants
  <2> QED
    BY <1>0, <1>1, <2>1 DEF TypeOK
<1>4. OrderInv'
  <2>1. \A l \in Lines : wrote'[l] # Never => l <= line' /\ wrote'[l] <= now
    BY <1>0, <1>1, <1>2, Constants DEF OrderInv
  <2> QED
    BY <1>0, <1>2, <2>1 DEF OrderInv
<1>5. TakenInv'
  BY <1>0, <1>1 DEF TakenInv
<1>6. SizeInv'
  <2>1. active \subseteq Taken /\ line' \notin active
    BY <1>0, <1>1 DEF TakenInv
  <2>2. IsFiniteSet(active') /\ Cardinality(active') = Cardinality(active) + 1
    BY <1>0, <2>1, FS_AddElement DEF SizeInv
  <2>3. size' = Cardinality(active') /\ Cardinality(active') <= MaxSize
    BY <1>0, <1>2, <2>2, Constants DEF SizeInv
  <2>4. \A m \in active' : wrote'[m] <= wrote'[line']
    BY <1>0, <1>1, <1>2, <2>1 DEF OrderInv, Taken
  <2> QED
    BY <1>0, <2>2, <2>3, <2>4 DEF SizeInv
<1>7. MtimeInv'
  BY <1>0, <1>1 DEF MtimeInv, TakenInv
<1>8. JobInv'
  BY <1>0, <1>1 DEF JobInv, Holds, OldLine, TakenInv
<1>9. Kept'
  BY <1>0, <1>1 DEF Kept, OldLine, HeldLine
<1> QED
  BY <1>3, <1>4, <1>5, <1>6, <1>7, <1>8, <1>9 DEF IInv

(***************************************************************************)
(* The rename, with the new file opened and the line in it, or not opened  *)
(* and the line refused.                                                   *)
(***************************************************************************)
LEMMA RenameInv ==
    ASSUME IInv, line < MaxLines, line' = line + 1, file = "open", size >= MaxSize, Rename,
           UNCHANGED <<now, archive, cutoff, unflushed>>,
           active' \subseteq {line'}, Taken' = Taken \cup active',
           wrote' \in [Lines -> Seconds \cup {Never}],
           \A l \in Taken : wrote'[l] = wrote[l], \A l \in active' : wrote'[l] = now,
           file' \in {"open", "nil"}, size' \in 0..MaxSize,
           file' = "open" => size' = 1 /\ active' = {line'}
    PROVE  IInv'
<1>0. TypeOK /\ OrderInv /\ TakenInv /\ SizeInv /\ MtimeInv /\ JobInv /\ Kept
  BY DEF IInv
<1>1. /\ now \in Nat /\ now \in Seconds /\ size \in Nat /\ line \in Nat /\ rotations \in Nat
      /\ \A l \in Lines : wrote[l] \in Int
      /\ rotated \in [Seconds -> FileType] /\ archive \in [Seconds -> FileType] /\ jobs \in [Lines -> JobType]
      /\ \A s \in Seconds : rotated[s].mtime \in Int /\ archive[s].mtime \in Int
      /\ \A n \in Lines : jobs[n].stamp \in Seconds
  BY <1>0, TypeFacts DEF TypeOK
<1>2. now' = now /\ archive' = archive /\ cutoff' = cutoff /\ unflushed' = unflushed
  OBVIOUS
<1>3. line' \in Lines /\ line' \in 0..MaxLines
  BY <1>1, Constants DEF Lines
<1>4. PICK newest \in active : \A m \in active : wrote[m] <= wrote[newest]
  <2>1. Cardinality(active) # 0
    BY <1>0, Constants DEF SizeInv
  <2> QED
    BY <1>0, <2>1, EmptyFile DEF SizeInv
<1>5. active \subseteq Taken /\ Taken \subseteq Lines
  BY <1>0 DEF TakenInv, Taken
<1> DEFINE full == File(active, wrote[newest])
           job == [NoJob EXCEPT !.pc = "start", !.stamp = now]
<1>k. PICK k \in Lines : k = rotations + 1
  <2>1. rotations <= line
    BY <1>0 DEF OrderInv
  <2>2. rotations + 1 \in Lines
    BY <1>1, <2>1, Constants DEF Lines
  <2> QED
    BY <2>2
<1>6. /\ full \in FileType /\ full.there /\ full.lines = active /\ full.mtime = wrote[newest]
      /\ rotated' = [rotated EXCEPT ![now] = full]
  <2>1. \A m \in active : wrote[m] \in Int
    BY <1>1, <1>5
  <2>2. Max({wrote[l] : l \in active}) = wrote[newest]
    <3> DEFINE T == {wrote[l] : l \in active}
    <3>1. wrote[newest] \in T /\ \A y \in T : y \in Int /\ wrote[newest] >= y
      BY <1>4, <2>1
    <3> HIDE DEF T
    <3>2. \A x \in T : (\A y \in T : x >= y) => x = wrote[newest]
      <4>1. ASSUME NEW x \in T, \A y \in T : x >= y PROVE x = wrote[newest]
        <5>1. x \in Int /\ wrote[newest] \in Int /\ wrote[newest] >= x /\ x >= wrote[newest]
          BY <3>1, <4>1
        <5> QED
          BY <5>1
      <4> QED
        BY <4>1
    <3>3. Max(T) = wrote[newest]
      BY <3>1, <3>2 DEF Max
    <3> QED
      BY <3>3 DEF T
  <2>3. wrote[newest] \in Seconds
    BY <1>0, <1>4, <1>5 DEF TypeOK, Taken
  <2> QED
    BY <1>5, <2>2, <2>3, FileTypes DEF Rename, File
<1>7. /\ k \in Lines /\ jobs[k] = NoJob /\ jobs' = [jobs EXCEPT ![k] = job]
      /\ job \in JobType /\ job.pc = "start" /\ job.stamp = now /\ job.got = {}
  <2>1. k > rotations
    BY <1>1, <1>k
  <2> QED
    BY <1>0, <1>1, <1>k, <2>1, Constants DEF OrderInv, Rename, NoJob, JobType
<1>8. NoJob.pc = "none" /\ NoJob.got = {}
  BY DEF NoJob
<1> HIDE DEF full, job
<1>9. /\ rotated' \in [Seconds -> FileType] /\ rotated'[now] = full
      /\ \A s \in Seconds : s # now => rotated'[s] = rotated[s]
      /\ jobs' \in [Lines -> JobType] /\ jobs'[k] = job
      /\ \A n \in Lines : n # k => jobs'[n] = jobs[n]
  BY <1>1, <1>6, <1>7
<1>10. rotations' = k /\ k = rotations + 1 /\ collided' = (collided \/ Used(now)) /\ collided' \in BOOLEAN
  BY <1>0, <1>k DEF Rename, TypeOK
<1>11. TypeOK'
  <2>1. rotations' \in 0..MaxLines
    BY <1>7, <1>10, Constants DEF Lines
  <2>2. active' \subseteq Lines
    BY <1>3
  <2> QED
    BY <1>0, <1>2, <1>3, <1>9, <1>10, <2>1, <2>2 DEF TypeOK, JobType
<1>12. OrderInv'
  <2>1. \A l \in Lines : wrote'[l] # Never => l \in Taken'
    BY DEF Taken
  <2>2. ASSUME NEW l \in Lines, wrote'[l] # Never PROVE l <= line' /\ wrote'[l] <= now
    <3>1. CASE l \in Taken
      BY <1>0, <1>1, <3>1, Constants DEF OrderInv, Taken
    <3>2. CASE l \in active'
      BY <1>1, <3>2
    <3> QED
      BY <2>1, <2>2, <3>1, <3>2
  <2>3. \A n \in Lines : n > rotations' => jobs'[n] = NoJob
    BY <1>0, <1>1, <1>7, <1>9, <1>10, Constants DEF OrderInv
  <2>4. rotations' <= line' /\ cutoff' <= now' - MaxAge
    BY <1>0, <1>1, <1>2, <1>10 DEF OrderInv
  <2> QED
    BY <1>2, <2>2, <2>3, <2>4 DEF OrderInv
<1>13. TakenInv'
  BY <1>0, <1>2, <1>5, <1>6, <1>7, <1>9 DEF TakenInv
<1>14. SizeInv'
  <2>1. active' = {} \/ active' = {line'}
    OBVIOUS
  <2>2. IsFiniteSet(active') /\ Cardinality(active') <= MaxSize /\ (active' = {line'} => Cardinality(active') = 1)
    <3>1. IsFiniteSet({line'}) /\ Cardinality({line'}) = 1
      BY FS_Singleton
    <3>2. 1 <= MaxSize /\ {line'} # {}
      BY Constants
    <3> QED
      BY <2>1, <3>1, <3>2, EmptyFile
  <2>3. active' # {} => \E l \in active' : \A m \in active' : wrote'[m] <= wrote'[l]
    <3>1. \A l, m \in active' : wrote'[l] = now /\ wrote'[m] = now /\ now <= now
      BY <1>1
    <3> QED
      BY <3>1
  <2>4. \A s \in Seconds : Cardinality(rotated'[s].lines) <= MaxSize
    BY <1>0, <1>6, <1>9 DEF SizeInv
  <2> QED
    BY <2>2, <2>3, <2>4 DEF SizeInv
<1>15. MtimeInv'
  <2>1. \A l \in active : wrote'[l] <= wrote[newest]
    BY <1>4, <1>5
  <2> QED
    BY <1>0, <1>2, <1>6, <1>9, <2>1 DEF MtimeInv, TakenInv
<1>16. JobInv'
  <2> SUFFICES ASSUME ~collided' PROVE JobInv'
    BY DEF JobInv
  <2>1. /\ ~collided /\ ~archive[now].there
        /\ \A n \in Lines : jobs[n].pc # "none" => jobs[n].stamp # now
    BY <1>1, <1>10 DEF Used
  <2>2. \A m, n \in Lines : m # n /\ jobs'[m].pc # "none" /\ jobs'[n].pc # "none" => jobs'[m].stamp # jobs'[n].stamp
    BY <1>0, <1>7, <1>9, <2>1 DEF JobInv
  <2>3. ASSUME NEW n \in Lines, n # k PROVE Holds(n)'
    <3>1. Holds(n) /\ jobs[n].got \subseteq Taken
      BY <1>0, <2>1 DEF JobInv, TakenInv
    <3>2. jobs'[n] = jobs[n] /\ (jobs[n].pc # "none" => rotated'[jobs[n].stamp] = rotated[jobs[n].stamp])
      BY <1>1, <1>9, <2>1, <2>3
    <3>3. \A l \in jobs[n].got : wrote'[l] = wrote[l]
      BY <3>1
    <3> QED
      BY <1>2, <3>1, <3>2, <3>3 DEF Holds, OldLine
  <2>4. Holds(k)'
    <3>1. archive'[now].lines = {}
      BY <1>0, <1>1, <1>2, <2>1 DEF MtimeInv
    <3>2. jobs'[k].stamp = now /\ jobs'[k].pc = "start"
      BY <1>7, <1>9
    <3> QED
      BY <3>1, <3>2 DEF Holds
  <2> QED
    BY <2>2, <2>3, <2>4 DEF JobInv
<1>17. Kept'
  <2> SUFFICES ASSUME ~collided', ~unflushed', NEW l \in Taken', ~OldLine(l)' PROVE HeldLine(l)'
    BY DEF Kept
  <2>1. CASE l \in active'
    BY <2>1 DEF HeldLine
  <2>2. CASE l \in Taken
    <3>1. ~OldLine(l)
      BY <1>2, <2>2 DEF OldLine
    <3>2. ~collided /\ ~rotated[now].there
      BY <1>10 DEF Used
    <3>3. rotated[now].lines = {}
      BY <1>0, <1>1, <3>2 DEF MtimeInv
    <3>4. HeldLine(l)
      BY <1>0, <1>2, <2>2, <3>1, <3>2 DEF Kept
    <3> QED
      BY <1>1, <1>2, <1>6, <1>7, <1>8, <1>9, <3>3, <3>4 DEF HeldLine
  <2> QED
    BY <2>1, <2>2
<1> QED
  BY <1>11, <1>12, <1>13, <1>14, <1>15, <1>16, <1>17 DEF IInv

LEMMA WriteInv == IInv /\ Write => IInv'
<1> SUFFICES ASSUME IInv, Write PROVE IInv'
  OBVIOUS
<1>0. line < MaxLines /\ line' = line + 1
  BY DEF Write
<1>1. CASE WriteLine
  BY <1>0, <1>1, WriteLineInv
<1>2. CASE Rotate
  <2>1. /\ file = "open" /\ size >= MaxSize /\ active' = {line'} /\ size' = 1 /\ Rename /\ file' = file
        /\ wrote' = [wrote EXCEPT ![line'] = now] /\ UNCHANGED <<now, archive, cutoff, unflushed>>
    BY <1>2 DEF Rotate, Take
  <2>2. /\ line' \in Lines /\ Taken' = Taken \cup {line'}
        /\ wrote' \in [Lines -> Seconds \cup {Never}] /\ wrote'[line'] = now
        /\ \A l \in Taken : wrote'[l] = wrote[l]
    BY <1>0, <2>1, TakeFacts
  <2>3. 1 \in 0..MaxSize
    BY Constants
  <2> QED
    BY <1>0, <2>1, <2>2, <2>3, RenameInv
<1>3. CASE OpenFails
  <2>1. /\ file = "open" /\ size >= MaxSize /\ active' = {} /\ size' = size /\ Rename /\ file' = "nil"
        /\ wrote' = wrote /\ UNCHANGED <<now, archive, cutoff, unflushed>>
    BY <1>3 DEF OpenFails
  <2>2. wrote' \in [Lines -> Seconds \cup {Never}] /\ size' \in 0..MaxSize /\ Taken' = Taken \cup {}
    BY <2>1 DEF IInv, TypeOK, Taken
  <2> QED
    BY <1>0, <2>1, <2>2, RenameInv
<1>4. CASE RenameFails \/ Refuse
  <2>0. TypeOK /\ OrderInv /\ TakenInv /\ SizeInv /\ MtimeInv /\ JobInv /\ Kept
    BY DEF IInv
  <2>1. /\ now' = now /\ size' = size /\ active' = active /\ rotated' = rotated /\ archive' = archive
        /\ jobs' = jobs /\ rotations' = rotations /\ wrote' = wrote /\ cutoff' = cutoff
        /\ collided' = collided /\ unflushed' = unflushed /\ Taken' = Taken
        /\ file' \in {"open", "nil", "closed"} /\ (file' = "open" => file = "open")
    BY <1>4, <2>0 DEF RenameFails, Refuse, disk, Taken, TypeOK
  <2>2. line \in 0..MaxLines /\ rotations \in 0..MaxLines
    BY <2>0 DEF TypeOK
  <2>3. line' \in 0..MaxLines /\ (rotations <= line => rotations <= line') /\ \A l \in Lines : l <= line => l <= line'
    BY <1>0, <2>2, Constants
  <2>4. TypeOK'
    BY <2>0, <2>1, <2>3 DEF TypeOK
  <2>5. OrderInv' /\ TakenInv' /\ SizeInv' /\ MtimeInv'
    BY <2>0, <2>1, <2>3 DEF OrderInv, TakenInv, SizeInv, MtimeInv
  <2>6. JobInv' /\ Kept'
    BY <2>0, <2>1 DEF JobInv, Kept, Holds, OldLine, HeldLine
  <2> QED
    BY <2>4, <2>5, <2>6 DEF IInv
<1> QED
  BY <1>1, <1>2, <1>3, <1>4 DEF Write

(***************************************************************************)
(* The cleaner, the process and the clock.                                 *)
(***************************************************************************)
\* What is removed is older than a cutoff that lies MaxAge back, or further.
LEMMA OldFiles ==
    ASSUME IInv, NEW s \in Seconds
    PROVE  /\ Old(rotated[s]) => \A l \in rotated[s].lines : OldLine(l)
           /\ Old(archive[s]) => \A l \in archive[s].lines : OldLine(l)
           /\ Old(archive[s]) => \A l \in Lines : wrote[l] <= archive[s].mtime => OldLine(l)
<1>1. /\ cutoff \in Int /\ now \in Int /\ MaxAge \in Int /\ cutoff <= now - MaxAge
      /\ rotated[s].mtime \in Int /\ archive[s].mtime \in Int /\ \A l \in Lines : wrote[l] \in Int
  BY TypeFacts, Constants DEF IInv, OrderInv
<1>2. rotated[s].lines \subseteq Lines /\ archive[s].lines \subseteq Lines
  BY DEF IInv, TakenInv, Taken
<1>3. ASSUME NEW w \in Int, NEW t \in Int, w <= t, t < cutoff PROVE now - w > MaxAge
  BY <1>1, <1>3
<1>4. \A l \in rotated[s].lines : wrote[l] <= rotated[s].mtime
  BY DEF IInv, MtimeInv
<1>5. \A l \in archive[s].lines : wrote[l] <= archive[s].mtime
  BY DEF IInv, MtimeInv
<1> QED
  BY <1>1, <1>2, <1>3, <1>4, <1>5 DEF Old, OldLine

LEMMA RemoveOldInv == IInv /\ RemoveOld => IInv'
<1> SUFFICES ASSUME IInv, RemoveOld PROVE IInv'
  OBVIOUS
<1>0. /\ TypeOK /\ OrderInv /\ TakenInv /\ SizeInv /\ MtimeInv /\ JobInv /\ Kept
      /\ UNCHANGED <<now, file, size, active, jobs, rotations, wrote, line, cutoff, collided, unflushed>>
      /\ Taken' = Taken
  BY DEF IInv, RemoveOld, Taken
<1>1. /\ rotated \in [Seconds -> FileType] /\ archive \in [Seconds -> FileType] /\ jobs \in [Lines -> JobType]
      /\ \A n \in Lines : jobs[n].stamp \in Seconds
  BY <1>0, TypeFacts
<1>2. /\ NoFile \in FileType /\ ~NoFile.there /\ NoFile.lines = {}
  BY FileTypes DEF NoFile
<1>3. PICK s \in Seconds :
        \/ Old(rotated[s]) /\ rotated' = [rotated EXCEPT ![s] = NoFile] /\ UNCHANGED archive
        \/ Old(archive[s]) /\ archive' = [archive EXCEPT ![s] = NoFile] /\ UNCHANGED rotated
  BY DEF RemoveOld
<1>4. /\ Old(rotated[s]) => \A l \in rotated[s].lines : OldLine(l)
      /\ Old(archive[s]) => \A l \in archive[s].lines : OldLine(l)
      /\ Old(archive[s]) => \A l \in Lines : wrote[l] <= archive[s].mtime => OldLine(l)
  BY OldFiles
\* Both cases at once: each file is as it was, or gone with lines that were old.
<1>5. /\ rotated' \in [Seconds -> FileType] /\ archive' \in [Seconds -> FileType]
      /\ \A t \in Seconds :
            \/ rotated'[t] = rotated[t]
            \/ rotated'[t] = NoFile /\ \A l \in rotated[t].lines : OldLine(l)
      /\ \A t \in Seconds :
            \/ archive'[t] = archive[t]
            \/ /\ archive'[t] = NoFile /\ archive[t].there /\ \A l \in archive[t].lines : OldLine(l)
               /\ \A l \in Lines : wrote[l] <= archive[t].mtime => OldLine(l)
  BY <1>1, <1>2, <1>3, <1>4 DEF Old
<1>6. TypeOK' /\ OrderInv'
  BY <1>0, <1>5 DEF TypeOK, OrderInv
<1>7. TakenInv' /\ MtimeInv'
  BY <1>0, <1>2, <1>5 DEF TakenInv, MtimeInv
<1>8. SizeInv'
  BY <1>0, <1>2, <1>5, EmptyFile DEF SizeInv
<1>9. JobInv'
  <2> SUFFICES ASSUME ~collided, NEW n \in Lines PROVE Holds(n)'
    BY <1>0 DEF JobInv
  <2>1. Holds(n) /\ jobs[n].stamp \in Seconds /\ jobs[n].got \subseteq Lines
    BY <1>0, <1>1 DEF JobInv, JobType
  <2> QED
    BY <1>0, <1>2, <1>5, <2>1 DEF Holds, OldLine
<1>10. Kept'
  BY <1>0, <1>2, <1>5 DEF Kept, OldLine, HeldLine
<1> QED
  BY <1>6, <1>7, <1>8, <1>9, <1>10 DEF IInv

LEMMA CleanUpInv == IInv /\ CleanUp => IInv'
<1> SUFFICES ASSUME IInv, CleanUp PROVE IInv'
  OBVIOUS
<1>0. /\ TypeOK /\ OrderInv /\ TakenInv /\ SizeInv /\ MtimeInv /\ JobInv /\ Kept
      /\ cutoff' = now - MaxAge /\ Taken' = Taken
      /\ UNCHANGED <<now, file, size, disk, jobs, rotations, wrote, line, collided, unflushed>>
  BY DEF IInv, CleanUp, Taken
<1>1. cutoff' \in (0 - MaxAge)..MaxSeconds /\ cutoff' <= now - MaxAge
  BY <1>0, TypeFacts, Constants
<1>2. TypeOK' /\ OrderInv'
  BY <1>0, <1>1 DEF TypeOK, OrderInv, disk
<1>3. TakenInv' /\ SizeInv' /\ MtimeInv' /\ JobInv' /\ Kept'
  BY <1>0 DEF TakenInv, SizeInv, MtimeInv, JobInv, Kept, Holds, OldLine, HeldLine, disk
<1> QED
  BY <1>2, <1>3 DEF IInv

LEMMA CloseInv == IInv /\ Close => IInv'
<1> SUFFICES ASSUME IInv, Close PROVE IInv'
  OBVIOUS
<1>0. /\ TypeOK /\ OrderInv /\ TakenInv /\ SizeInv /\ MtimeInv /\ JobInv /\ Kept
      /\ file' = "closed" /\ Taken' = Taken
      /\ UNCHANGED <<now, size, disk, jobs, rotations, wrote, line, cutoff, collided, unflushed>>
  BY DEF IInv, Close, Taken
<1>1. TypeOK' /\ OrderInv'
  BY <1>0 DEF TypeOK, OrderInv, disk
<1>2. TakenInv' /\ SizeInv' /\ MtimeInv' /\ JobInv' /\ Kept'
  BY <1>0 DEF TakenInv, SizeInv, MtimeInv, JobInv, Kept, Holds, OldLine, HeldLine, disk
<1> QED
  BY <1>1, <1>2 DEF IInv

\* The goroutines end with the process; what one held was not flushed.
LEMMA RestartInv == IInv /\ Restart => IInv'
<1> SUFFICES ASSUME IInv, Restart PROVE IInv'
  OBVIOUS
<1>0. /\ TypeOK /\ OrderInv /\ TakenInv /\ SizeInv /\ MtimeInv /\ JobInv /\ Kept
      /\ file' \in {"open", "closed"} /\ size' = Cardinality(active) /\ cutoff' = 0 - MaxAge
      /\ unflushed' = (unflushed \/ \E n \in Lines : jobs[n].pc = "removed")
      /\ jobs' = [n \in Lines |-> NoJob]
      /\ now' = now /\ active' = active /\ rotated' = rotated /\ archive' = archive
      /\ rotations' = rotations /\ wrote' = wrote /\ line' = line /\ collided' = collided /\ Taken' = Taken
  BY DEF IInv, Restart, Taken, TypeOK, disk
<1>1. NoJob \in JobType /\ NoJob.pc = "none" /\ NoJob.got = {}
  BY Constants DEF NoJob, JobType
<1>2. size' \in 0..MaxSize
  <2>1. Cardinality(active) \in Nat /\ Cardinality(active) <= MaxSize
    BY <1>0, FS_CardinalityType DEF SizeInv
  <2> QED
    BY <1>0, <2>1, Constants
<1>3. cutoff' \in (0 - MaxAge)..MaxSeconds /\ cutoff' <= now - MaxAge
  BY <1>0, TypeFacts, Constants
<1>4. TypeOK'
  <2>1. jobs' \in [Lines -> JobType]
    BY <1>0, <1>1
  <2>2. unflushed' \in BOOLEAN
    BY <1>0 DEF TypeOK
  <2> QED
    BY <1>0, <1>2, <1>3, <2>1, <2>2 DEF TypeOK, JobType
<1>5. OrderInv' /\ TakenInv' /\ MtimeInv'
  BY <1>0, <1>1, <1>3 DEF OrderInv, TakenInv, MtimeInv
<1>6. SizeInv'
  BY <1>0 DEF SizeInv
<1>7. JobInv'
  BY <1>0, <1>1 DEF JobInv, Holds
<1>8. Kept'
  BY <1>0, <1>1 DEF Kept, OldLine, HeldLine
<1> QED
  BY <1>4, <1>5, <1>6, <1>7, <1>8 DEF IInv

\* Lines only grow older.
LEMMA TickInv == IInv /\ Tick => IInv'
<1> SUFFICES ASSUME IInv, Tick PROVE IInv'
  OBVIOUS
<1>0. /\ TypeOK /\ OrderInv /\ TakenInv /\ SizeInv /\ MtimeInv /\ JobInv /\ Kept
      /\ now < MaxSeconds /\ now' = now + 1 /\ Taken' = Taken
      /\ file' = file /\ size' = size /\ active' = active /\ rotated' = rotated /\ archive' = archive
      /\ jobs' = jobs /\ rotations' = rotations /\ wrote' = wrote /\ line' = line /\ cutoff' = cutoff
      /\ collided' = collided /\ unflushed' = unflushed
  BY DEF IInv, Tick, Taken, disk
<1>1. /\ now \in Nat /\ cutoff \in Int /\ \A l \in Lines : wrote[l] \in Int
      /\ jobs \in [Lines -> JobType]
  BY <1>0, TypeFacts
<1>2. now' \in Seconds
  BY <1>0, <1>1, Constants DEF Seconds
<1>3. \A l \in Lines : OldLine(l) => OldLine(l)'
  <2> SUFFICES ASSUME NEW l \in Lines, now - wrote[l] > MaxAge PROVE now' - wrote'[l] > MaxAge
    BY DEF OldLine
  <2> QED
    BY <1>0, <1>1, Constants
<1>4. TypeOK'
  BY <1>0, <1>2 DEF TypeOK
<1>5. OrderInv'
  <2>1. \A l \in Lines : wrote[l] <= now => wrote[l] <= now'
    BY <1>0, <1>1
  <2>2. cutoff' <= now' - MaxAge
    BY <1>0, <1>1, Constants DEF OrderInv
  <2> QED
    BY <1>0, <2>1, <2>2 DEF OrderInv
<1>6. TakenInv' /\ SizeInv' /\ MtimeInv'
  BY <1>0 DEF TakenInv, SizeInv, MtimeInv
<1>7. JobInv'
  <2> SUFFICES ASSUME ~collided, NEW n \in Lines PROVE Holds(n)'
    BY <1>0 DEF JobInv
  <2>1. Holds(n) /\ jobs[n].got \subseteq Lines
    BY <1>0, <1>1 DEF JobInv, JobType
  <2> QED
    BY <1>0, <1>3, <2>1 DEF Holds
<1>8. Kept'
  <2>1. \A l \in Taken : HeldLine(l) => HeldLine(l)'
    BY <1>0 DEF HeldLine
  <2> QED
    BY <1>0, <1>3, <2>1 DEF Kept, Taken
<1> QED
  BY <1>4, <1>5, <1>6, <1>7, <1>8 DEF IInv

LEMMA StutterInv == IInv /\ UNCHANGED vars => IInv'
<1> SUFFICES ASSUME IInv, UNCHANGED vars PROVE IInv'
  OBVIOUS
<1>1. TypeOK' /\ OrderInv' /\ TakenInv' /\ SizeInv'
  BY DEF IInv, vars, disk, TypeOK, OrderInv, TakenInv, Taken, SizeInv
<1>2. MtimeInv' /\ JobInv' /\ Kept'
  BY DEF IInv, vars, disk, MtimeInv, JobInv, Kept, Taken, Holds, OldLine, HeldLine
<1> QED
  BY <1>1, <1>2 DEF IInv

LEMMA Invariance == Spec => []IInv
<1>1. IInv /\ [Next]_vars => IInv'
  BY WriteInv, CompressInv, CleanUpInv, RemoveOldInv, CloseInv, RestartInv, TickInv, StutterInv DEF Next
<1> QED
  BY <1>1, InitInv, PTL DEF Spec

-----------------------------------------------------------------------------

\* Every variable keeps its type, with files that fail to open and processes that are killed.
THEOREM TypeCorrect == Spec => []TypeOK
<1>1. IInv => TypeOK
  BY DEF IInv
<1> QED
  BY <1>1, Invariance, PTL

\* A line that Write took and that is not old is lost in two ways only: two rotations in
\* one second, or an archive that was not flushed after its original was removed.
THEOREM LossesHaveACause == Spec => []LossHasACause
<1>1. IInv => LossHasACause
  <2> SUFFICES ASSUME IInv, ~collided, ~unflushed, NEW l \in Taken, now - wrote[l] <= MaxAge PROVE l \in Held
    BY DEF LossHasACause, Lost
  <2>1. DOMAIN jobs = Lines /\ TypeOK /\ Kept
    BY DEF IInv, TypeOK
  <2>2. now \in Int /\ wrote[l] \in Int /\ MaxAge \in Int
    BY <2>1, TypeFacts, Constants DEF Taken
  <2>3. ~OldLine(l)
    BY <2>2 DEF OldLine
  <2>4. HeldLine(l)
    BY <2>1, <2>3 DEF Kept
  <2> DEFINE inFiles == UNION {rotated[s].lines : s \in Seconds}
             inArchives == UNION {archive[s].lines : s \in Seconds}
             inHands == UNION {jobs[n].got : n \in {m \in DOMAIN jobs : jobs[m].pc = "removed"}}
  <2>5. Held = active \cup inFiles \cup inArchives \cup inHands
    BY DEF Held
  <2>6. (\E s \in Seconds : l \in rotated[s].lines) => l \in inFiles
    OBVIOUS
  <2>7. (\E s \in Seconds : l \in archive[s].lines) => l \in inArchives
    OBVIOUS
  <2>8. (\E n \in Lines : jobs[n].pc = "removed" /\ l \in jobs[n].got) => l \in inHands
    <3>1. (\E n \in Lines : jobs[n].pc = "removed" /\ l \in jobs[n].got)
             => \E n \in {m \in DOMAIN jobs : jobs[m].pc = "removed"} : l \in jobs[n].got
      BY <2>1
    <3> QED
      BY <3>1
  <2> HIDE DEF inFiles, inArchives, inHands
  <2> QED
    BY <2>4, <2>5, <2>6, <2>7, <2>8 DEF HeldLine
<1> QED
  BY <1>1, Invariance, PTL

\* Neither the current file nor a rotated one outgrows MaxSize, whichever renames and opens
\* failed before it and however often the process was started again.
THEOREM FilesStayBounded == Spec => []FilesAreBounded
<1>1. IInv => FilesAreBounded
  BY DEF IInv, SizeInv, FilesAreBounded
<1> QED
  BY <1>1, Invariance, PTL

-----------------------------------------------------------------------------

\* Every reference points at what is there, and every line is the logger's own.
LoggerInv == LoggerTypeOK /\ LineIsItsDerivation

\* What a reference into a memory stands for.
Behind(ref, memory, nothing) == IF ref = NoRef THEN nothing ELSE memory[ref]

Shows(logger, rcs, fs) ==
    [context |-> Behind(logger.rc, rcs, NoContext), fields |-> Behind(logger.fields, fs, NoFields)]

LEMMA OverTypes ==
    /\ NoContext \in Contexts /\ NoFields \in Maps
    /\ \A a, b \in Contexts : Over(a, b) \in Contexts
    /\ \A a, b \in Maps : Over(a, b) \in Maps
    /\ \A f \in Maps : Over(NoFields, f) = f
BY DEF NoContext, NoFields, Contexts, Maps, Over

LEMMA SeqOf ==
    ASSUME NEW A, NEW B, NEW s \in Seq(A), \A i \in 1..Len(s) : s[i] \in B
    PROVE  s \in Seq(B)
OBVIOUS

\* What was there is kept, and what is there has its type.
Keeps(old, new, S) ==
    /\ old \in Seq(S) /\ new \in Seq(S)
    /\ Len(old) <= Len(new)
    /\ \A i \in 1..Len(old) : new[i] = old[i]

LEMMA AppendKeeps ==
    ASSUME NEW S, NEW s \in Seq(S), NEW e \in S
    PROVE  Keeps(s, Append(s, e), S) /\ Len(Append(s, e)) = Len(s) + 1 /\ Append(s, e)[Len(s) + 1] = e
BY DEF Keeps

LEMMA SameKeeps == ASSUME NEW S, NEW s \in Seq(S) PROVE Keeps(s, s, S)
BY DEF Keeps

\* A reference stands for the same while its memory only grows.
LEMMA BehindKept ==
    ASSUME NEW S, NEW old, NEW new, Keeps(old, new, S), NEW nothing, NEW ref \in 0..Len(old)
    PROVE  ref \in 0..Len(new) /\ Behind(ref, new, nothing) = Behind(ref, old, nothing)
BY DEF Keeps, Behind, NoRef

LEMMA TypedLogger ==
    ASSUME LoggerInv, NEW l \in DOMAIN loggers
    PROVE  /\ contexts \in Seq(Contexts) /\ maps \in Seq(Maps)
           /\ loggers[l] \in [rc : 0..Len(contexts), fields : 0..Len(maps)]
           /\ given[l] \in [context : Contexts, fields : Maps]
           /\ given[l] = Shows(loggers[l], contexts, maps)
<1> DEFINE Refs == [rc : 0..Len(contexts), fields : 0..Len(maps)]
           Given == [context : Contexts, fields : Maps]
<1>1. /\ contexts \in Seq(Contexts) /\ maps \in Seq(Maps)
      /\ loggers \in Seq(Refs) /\ given \in Seq(Given) /\ Len(given) = Len(loggers)
  BY DEF LoggerInv, LoggerTypeOK
<1>2. given[l] = Line(l)
  BY DEF LoggerInv, LineIsItsDerivation
<1>3. Line(l) = Shows(loggers[l], contexts, maps)
  BY DEF Line, Shows, Behind
<1>4. loggers[l] \in Refs /\ given[l] \in Given
  <2> HIDE DEF Refs, Given
  <2> QED
    BY <1>1
<1> QED
  BY <1>1, <1>2, <1>3, <1>4

\* A logger that is put shows its derivation, and the others go on showing theirs.
LEMMA PutInv ==
    ASSUME LoggerInv, Keeps(contexts, contexts', Contexts), Keeps(maps, maps', Maps),
           NEW logger \in [rc : 0..Len(contexts'), fields : 0..Len(maps')],
           NEW history \in [context : Contexts, fields : Maps],
           Put(logger, history),
           history = Shows(logger, contexts', maps')
    PROVE  LoggerInv'
<1> DEFINE Refs == [rc : 0..Len(contexts), fields : 0..Len(maps)]
           Refs2 == [rc : 0..Len(contexts'), fields : 0..Len(maps')]
<1>1. /\ loggers \in Seq(Refs) /\ given \in Seq([context : Contexts, fields : Maps])
      /\ Len(given) = Len(loggers)
      /\ loggers' = Append(loggers, logger) /\ given' = Append(given, history)
  BY DEF LoggerInv, LoggerTypeOK, Put
<1>2. ASSUME NEW l \in 1..Len(loggers)
      PROVE  loggers[l] \in Refs2 /\ given[l] = Shows(loggers[l], contexts', maps')
  <2>1. loggers[l] \in Refs
    <3> HIDE DEF Refs
    <3> QED
      BY <1>1
  <2>2. PICK rc \in 0..Len(contexts), fields \in 0..Len(maps) :
            loggers[l] = [rc |-> rc, fields |-> fields]
    BY <2>1
  <2>3. l \in DOMAIN loggers
    BY <1>1
  <2>4. given[l] = Line(l)
    BY <2>3 DEF LoggerInv, LineIsItsDerivation
  <2>5. given[l] = [context |-> Behind(rc, contexts, NoContext), fields |-> Behind(fields, maps, NoFields)]
    BY <2>2, <2>4 DEF Line, Behind
  <2>6. /\ rc \in 0..Len(contexts') /\ fields \in 0..Len(maps')
        /\ Behind(rc, contexts', NoContext) = Behind(rc, contexts, NoContext)
        /\ Behind(fields, maps', NoFields) = Behind(fields, maps, NoFields)
    BY BehindKept
  <2>7. loggers[l] \in Refs2
    BY <2>2, <2>6
  <2>8. given[l] = Shows(loggers[l], contexts', maps')
    BY <2>2, <2>5, <2>6 DEF Shows
  <2> QED
    BY <2>7, <2>8
<1>3. loggers' \in Seq(Refs2) /\ Len(loggers') = Len(loggers) + 1
  <2>1. logger \in Refs2
    OBVIOUS
  <2> HIDE DEF Refs, Refs2
  <2>2. loggers \in Seq(Refs2)
    BY <1>1, <1>2, SeqOf
  <2> QED
    BY <1>1, <2>1, <2>2
<1>4. given' \in Seq([context : Contexts, fields : Maps]) /\ Len(given') = Len(loggers) + 1
  BY <1>1
<1>5. LoggerTypeOK'
  BY <1>3, <1>4 DEF LoggerTypeOK, Keeps
<1>6. \A l \in 1..Len(loggers) + 1 : given'[l] = Shows(loggers'[l], contexts', maps')
  BY <1>1, <1>2
<1>7. DOMAIN loggers' = 1..Len(loggers) + 1
  <2> HIDE DEF Refs2
  <2> QED
    BY <1>3
<1>8. LineIsItsDerivation'
  <2> SUFFICES ASSUME NEW l \in 1..Len(loggers) + 1 PROVE Line(l)' = given'[l]
    BY <1>7 DEF LineIsItsDerivation
  <2>1. given'[l] = Shows(loggers'[l], contexts', maps')
    BY <1>6
  <2> QED
    BY <2>1 DEF Line, Shows, Behind
<1> QED
  BY <1>5, <1>8 DEF LoggerInv

LEMMA WithFieldsInv ==
    ASSUME LoggerInv, NEW l \in DOMAIN loggers, NEW f \in Maps, WithFields(l, f)
    PROVE  LoggerInv'
<1> DEFINE rc == loggers[l].rc
           ref == loggers[l].fields
           map == IF ref = NoRef THEN f ELSE Over(maps[ref], f)
           logger == [rc |-> rc, fields |-> Len(maps) + 1]
           history == [context |-> given[l].context, fields |-> Over(given[l].fields, f)]
<1>1. /\ contexts \in Seq(Contexts) /\ maps \in Seq(Maps)
      /\ given[l] \in [context : Contexts, fields : Maps]
      /\ loggers[l] \in [rc : 0..Len(contexts), fields : 0..Len(maps)]
      /\ given[l] = Shows(loggers[l], contexts, maps)
  BY TypedLogger
<1>2. rc \in 0..Len(contexts) /\ ref \in 0..Len(maps) /\ map \in Maps
  BY <1>1, OverTypes DEF NoRef
<1>3. /\ contexts' = contexts /\ maps' = Append(maps, map)
      /\ Put([loggers[l] EXCEPT !.fields = Len(maps) + 1], [given[l] EXCEPT !.fields = Over(@, f)])
  BY DEF WithFields
<1>4. Put(logger, history)
  <2>1. [loggers[l] EXCEPT !.fields = Len(maps) + 1] = logger
    BY <1>1
  <2>2. [given[l] EXCEPT !.fields = Over(@, f)] = history
    BY <1>1
  <2> HIDE DEF logger, history
  <2> QED
    BY <1>3, <2>1, <2>2
<1>5. /\ Keeps(contexts, contexts', Contexts) /\ Keeps(maps, maps', Maps)
      /\ Len(maps') = Len(maps) + 1 /\ maps'[Len(maps) + 1] = map
  BY <1>1, <1>2, <1>3, AppendKeeps, SameKeeps
<1>6. logger \in [rc : 0..Len(contexts'), fields : 0..Len(maps')]
  BY <1>1, <1>2, <1>3, <1>5
<1>7. history \in [context : Contexts, fields : Maps]
  BY <1>1, OverTypes
<1>8. Over(given[l].fields, f) = map
  BY <1>1, OverTypes DEF Shows, Behind
<1>9. history = Shows(logger, contexts', maps')
  BY <1>1, <1>3, <1>5, <1>8 DEF Shows, Behind, NoRef
<1> HIDE DEF logger, history
<1> QED
  BY <1>4, <1>5, <1>6, <1>7, <1>9, PutInv

LEMMA WithContextInv ==
    ASSUME LoggerInv, NEW l \in DOMAIN loggers, NEW c \in DOMAIN contexts, WithContext(l, c)
    PROVE  LoggerInv'
<1>1. /\ contexts \in Seq(Contexts) /\ maps \in Seq(Maps)
      /\ given[l] \in [context : Contexts, fields : Maps]
      /\ loggers[l] \in [rc : 0..Len(contexts), fields : 0..Len(maps)]
      /\ given[l] = Shows(loggers[l], contexts, maps)
  BY TypedLogger
<1>2. c \in 1..Len(contexts) /\ contexts[c] \in Contexts
  BY <1>1
<1>3. Len(contexts) \in Nat /\ Len(maps) \in Nat
  BY <1>1
<1>4. CASE WithFirstContext(l, c)
  <2> DEFINE logger == [rc |-> c, fields |-> NoRef]
             history == [context |-> contexts[c], fields |-> NoFields]
  <2>1. contexts' = contexts /\ maps' = maps /\ Put(logger, history)
    BY <1>4 DEF WithFirstContext
  <2>2. Keeps(contexts, contexts', Contexts) /\ Keeps(maps, maps', Maps)
    BY <1>1, <2>1, SameKeeps
  <2>3. /\ logger \in [rc : 0..Len(contexts'), fields : 0..Len(maps')]
        /\ history \in [context : Contexts, fields : Maps]
    BY <1>2, <1>3, <2>1, OverTypes DEF NoRef
  <2>4. history = Shows(logger, contexts', maps')
    BY <1>2, <2>1 DEF Shows, Behind, NoRef
  <2> HIDE DEF logger, history
  <2> QED
    BY <2>1, <2>2, <2>3, <2>4, PutInv
<1>5. CASE WithUselessContext(l, c)
  <2> DEFINE history == [context |-> NoContext, fields |-> NoFields]
  <2>1. contexts' = contexts /\ maps' = maps /\ Put(Base, history)
    BY <1>5 DEF WithUselessContext
  <2>2. Keeps(contexts, contexts', Contexts) /\ Keeps(maps, maps', Maps)
    BY <1>1, <2>1, SameKeeps
  <2>3. /\ Base \in [rc : 0..Len(contexts'), fields : 0..Len(maps')]
        /\ history \in [context : Contexts, fields : Maps]
    BY <1>3, <2>1, OverTypes DEF NoRef, Base
  <2>4. history = Shows(Base, contexts', maps')
    BY DEF Shows, Behind, NoRef, Base
  <2> HIDE DEF history
  <2> QED
    BY <2>1, <2>2, <2>3, <2>4, PutInv
<1>6. CASE WithFurtherContext(l, c)
  <2> DEFINE merged == Over(contexts[loggers[l].rc], contexts[c])
             logger == [rc |-> Len(contexts) + 1, fields |-> NoRef]
             history == [context |-> Over(given[l].context, contexts[c]), fields |-> NoFields]
  <2>1. /\ contexts' = Append(contexts, merged) /\ maps' = maps /\ Put(logger, history)
        /\ loggers[l].rc # NoRef
    BY <1>6 DEF WithFurtherContext
  <2>2. contexts[loggers[l].rc] \in Contexts
    BY <1>1, <2>1 DEF NoRef
  <2>3. merged \in Contexts
    BY <1>2, <2>2, OverTypes
  <2>4. /\ Keeps(contexts, contexts', Contexts) /\ Keeps(maps, maps', Maps)
        /\ Len(contexts') = Len(contexts) + 1 /\ contexts'[Len(contexts) + 1] = merged
    <3> HIDE DEF merged
    <3> QED
      BY <1>1, <2>1, <2>3, AppendKeeps, SameKeeps
  <2>5. /\ logger \in [rc : 0..Len(contexts'), fields : 0..Len(maps')]
        /\ history \in [context : Contexts, fields : Maps]
    BY <1>1, <1>2, <1>3, <2>4, OverTypes DEF NoRef
  <2>6. given[l].context = contexts[loggers[l].rc]
    BY <1>1, <2>1 DEF Shows, Behind
  <2>7. history = Shows(logger, contexts', maps')
    BY <1>3, <2>4, <2>6 DEF Shows, Behind, NoRef
  <2> HIDE DEF logger, history
  <2> QED
    BY <2>1, <2>4, <2>5, <2>7, PutInv
<1> QED
  BY <1>4, <1>5, <1>6 DEF WithContext

LEMMA RequestInv ==
    ASSUME LoggerInv, NEW content \in Contexts, Request(content)
    PROVE  LoggerInv'
<1>1. /\ contexts \in Seq(Contexts) /\ maps \in Seq(Maps)
      /\ loggers \in Seq([rc : 0..Len(contexts), fields : 0..Len(maps)])
  BY DEF LoggerInv, LoggerTypeOK
<1>2. contexts' = Append(contexts, content) /\ UNCHANGED <<loggers, maps, given>>
  BY DEF Request
<1>3. Keeps(contexts, contexts', Contexts) /\ Len(contexts') = Len(contexts) + 1
  BY <1>1, <1>2, AppendKeeps
<1>4. ASSUME NEW l \in DOMAIN loggers
      PROVE  /\ loggers[l] \in [rc : 0..Len(contexts'), fields : 0..Len(maps')]
             /\ Shows(loggers[l], contexts', maps') = given[l]
  <2>1. /\ loggers[l] \in [rc : 0..Len(contexts), fields : 0..Len(maps)]
        /\ given[l] = Shows(loggers[l], contexts, maps)
    BY TypedLogger
  <2>2. PICK rc \in 0..Len(contexts), fields \in 0..Len(maps) :
            loggers[l] = [rc |-> rc, fields |-> fields]
    BY <2>1
  <2>3. rc \in 0..Len(contexts') /\ Behind(rc, contexts', NoContext) = Behind(rc, contexts, NoContext)
    BY <1>3, BehindKept
  <2>4. loggers[l] \in [rc : 0..Len(contexts'), fields : 0..Len(maps')]
    BY <1>2, <2>2, <2>3
  <2> QED
    BY <1>2, <2>1, <2>2, <2>3, <2>4 DEF Shows
<1>5. loggers' \in Seq([rc : 0..Len(contexts'), fields : 0..Len(maps')])
  <2> DEFINE Refs == [rc : 0..Len(contexts), fields : 0..Len(maps)]
             Refs2 == [rc : 0..Len(contexts'), fields : 0..Len(maps')]
  <2>1. loggers \in Seq(Refs) /\ \A l \in DOMAIN loggers : loggers[l] \in Refs2
    BY <1>1, <1>4
  <2> HIDE DEF Refs, Refs2
  <2>2. loggers \in Seq(Refs2)
    BY <2>1, SeqOf
  <2> QED
    BY <1>2, <2>2 DEF Refs2
<1>6. LoggerTypeOK'
  BY <1>2, <1>3, <1>5 DEF LoggerInv, LoggerTypeOK, Keeps
<1>7. LineIsItsDerivation'
  BY <1>2, <1>4 DEF LineIsItsDerivation, Line, Shows, Behind
<1> QED
  BY <1>6, <1>7 DEF LoggerInv

LEMMA LoggerInitInv == LoggerInit => LoggerInv
<1> SUFFICES ASSUME LoggerInit PROVE LoggerInv
  OBVIOUS
<1>1. /\ loggers = <<Base>> /\ contexts = <<>> /\ maps = <<>>
      /\ given = <<[context |-> NoContext, fields |-> NoFields]>>
  BY DEF LoggerInit
<1>2. Base \in [rc : 0..Len(contexts), fields : 0..Len(maps)]
  BY <1>1 DEF Base, NoRef
<1>3. LoggerTypeOK
  BY <1>1, <1>2, OverTypes DEF LoggerTypeOK
<1>4. LineIsItsDerivation
  BY <1>1 DEF LineIsItsDerivation, Line, Base, NoRef
<1> QED
  BY <1>3, <1>4 DEF LoggerInv

LEMMA LoggerNextInv == LoggerInv /\ [LoggerNext]_loggerVars => LoggerInv'
<1> SUFFICES ASSUME LoggerInv, [LoggerNext]_loggerVars PROVE LoggerInv'
  OBVIOUS
<1>1. CASE UNCHANGED loggerVars
  BY <1>1 DEF loggerVars, LoggerInv, LoggerTypeOK, LineIsItsDerivation, Line
<1>2. CASE \E l \in DOMAIN loggers : Log(l)
  BY <1>1, <1>2 DEF Log
<1> QED
  BY <1>1, <1>2, WithFieldsInv, WithContextInv, RequestInv DEF LoggerNext

(***************************************************************************)
(* Whatever is derived from whatever logger, and in whatever order: a      *)
(* logger's lines carry what it was derived with and nothing else (every   *)
(* derivation of logger.go leaves the contexts and maps of others alone).  *)
(***************************************************************************)
THEOREM LinesAreTheirDerivations == LoggerSpec => []LineIsItsDerivation
<1>1. LoggerSpec => []LoggerInv
  BY LoggerInitInv, LoggerNextInv, PTL DEF LoggerSpec
<1> QED
  BY <1>1, PTL DEF LoggerInv
=============================================================================
