--------------------------- MODULE BasicSimulation ---------------------------
(***************************************************************************)
(* The life of a simulation process in its run directory: BasicSimulation  *)
(* and the main programs built around it.  One run after another uses the  *)
(* directory; between them the configuration is edited, and a run may be   *)
(* killed between any two operations on files.  A component of a program   *)
(* (a scheduler, a tracker) appears by the keys it requests, the intervals *)
(* among them, and the files it removes when it is constructed and writes  *)
(* after the simulation.                                                   *)
(***************************************************************************)
EXTENDS ExpUtil

CONSTANTS
    Programs,      \* the main programs: [construct, results : Seq(component)]
    Configs,       \* what config_ns3.properties is edited to between runs
    MaxRuns,       \* bound: runs in the directory
    FirstProgress, \* m_simulation_event_interval_s, as it is initialized
    ProgressGaps   \* what it is set to: simulated time between two messages

Finished == "finished.txt"
TimingTxt == "timing_results.txt"
TimingCsv == "timing_results.csv"
OwnFiles == {Finished, TimingTxt, TimingCsv}

Files(c) == SetOf(c.writes)
Components == UNION {SetOf(p.construct) : p \in Programs}
Results == UNION {Files(c) : c \in Components}
File == OwnFiles \cup Results \cup UNION {SetOf(c.removes) : c \in Components}

ASSUME ProgramAssumption ==
    /\ MaxRuns \in Nat /\ FirstProgress \in Nat \ {0} /\ ProgressGaps \subseteq Int
    /\ \A p \in Programs :
         /\ p.construct \in Seq(SetOf(p.construct)) /\ p.results \in Seq(SetOf(p.results))
         /\ SetOf(p.results) \subseteq SetOf(p.construct)
         /\ \A c \in SetOf(p.construct) : c.writes # <<>> => c \in SetOf(p.results)
    /\ \A c \in Components : c.writes \in Seq(Files(c)) /\ c.removes \in Seq(SetOf(c.removes))
    /\ \A c \in Components : OwnFiles \cap (Files(c) \cup SetOf(c.removes)) = {}
    /\ \A c, d \in Components : c # d => Files(c) \cap Files(d) = {}

VARIABLES
    files,         \* logs_ns3: per file its content and the run that wrote it
    run,           \* number of the latest run
    phase,         \* how far the process has come; "none" if there is none
    program,       \* the main program that runs
    m_config,      \* the configuration read
    requested,     \* m_configRequestedKeys
    enabled,       \* the components with m_enabled
    rest,          \* the components still to construct, or to write results
    todo,          \* the operations on files still to do
    now,           \* Simulator::Now
    progressAt,    \* time of the next ShowSimulationProgress event
    simulated      \* the runs whose simulated time reached its end, with what
                   \* they had enabled

process == <<phase, program, m_config, requested, enabled, rest, todo, now, progressAt>>
vars == <<files, run, process, simulated>>

Absent == [content |-> "absent", run |-> 0]

Init ==
    /\ files = [f \in File |-> Absent] /\ run = 0
    /\ phase = "none" /\ program \in Programs
    /\ m_config = <<>> /\ requested = {} /\ enabled = {}
    /\ rest = <<>> /\ todo = <<>> /\ now = 0 /\ progressAt = 0 /\ simulated = {}
-----------------------------------------------------------------------------
(* Operations on files.  Closing a file completes it, with the text given. *)
Remove(f) == [op |-> "remove", file |-> f, content |-> "absent"]
Open(f) == [op |-> "open", file |-> f, content |-> "partial"]
Close(f, text) == [op |-> "close", file |-> f, content |-> text]

Each(s, Op(_)) == [i \in DOMAIN s |-> Op(s[i])]
Complete(f) == Close(f, "complete")
WriteFinished(text) == <<Open(Finished), Close(Finished, text)>>

(* remove_file_if_exists, the opening and closing of a stream: what the    *)
(* file holds after it.                                                    *)
Effect(o) == IF o.op = "remove" THEN Absent ELSE [content |-> o.content, run |-> run]
FileOperation ==
    /\ todo # <<>>
    /\ files' = [files EXCEPT ![Head(todo).file] = Effect(Head(todo))]
    /\ todo' = Tail(todo)
    /\ UNCHANGED <<run, phase, program, m_config, requested, enabled, rest, now,
                   progressAt, simulated>>
-----------------------------------------------------------------------------
(* The process ends: at the end of main, by an exception nothing catches,  *)
(* or killed.  Its memory is gone, an open file stays as it is.            *)
Gone ==
    /\ phase' = "none" /\ m_config' = <<>> /\ requested' = {} /\ enabled' = {}
    /\ rest' = <<>> /\ todo' = <<>> /\ now' = 0 /\ progressAt' = 0
    /\ UNCHANGED <<files, run, program, simulated>>

Killed == phase # "none" /\ Gone

(* The constructor of BasicSimulation.  The directory exists. *)
ConfigureRunDirectory ==
    /\ phase = "none" /\ run < MaxRuns
    /\ run' = run + 1 /\ phase' = "reading" /\ program' \in Programs
    /\ UNCHANGED <<files, m_config, requested, enabled, rest, todo, now, progressAt, simulated>>

EndTime == OrFail("simulation_end_time_ns", parse_positive_int64)
Seed == OrFail("simulation_seed", parse_positive_int64)
EnableDistributed == OrDefault("enable_distributed", parse_boolean, "false")

ReadConfig ==
    /\ phase = "reading"
    /\ \E lines \in Configs :
         IF read_config(lines)
         THEN LET config == ConfigOf(lines)
              IN  IF Accepted(config, EndTime) /\ Accepted(config, Seed)
                  THEN /\ m_config' = config /\ requested' = {EndTime.key, Seed.key}
                       /\ phase' = "configuring"
                       /\ UNCHANGED <<files, run, program, enabled, rest, todo, now,
                                      progressAt, simulated>>
                  ELSE Gone
         ELSE Gone

(* Mutant of ConfigureSimulation: the file of the earlier run is left. *)
ConfigureKeepsFinished ==
    /\ phase = "configuring" /\ phase' = "preparing"
    /\ requested' = requested \cup {EnableDistributed.key}
    /\ todo' = <<Remove(TimingTxt), Remove(TimingCsv)>>
    /\ UNCHANGED <<files, run, program, m_config, enabled, rest, now, progressAt, simulated>>

(* Without MPI in the build, enabling a distributed simulation throws. *)
ConfigureSimulation ==
    /\ phase = "configuring"
    /\ IF Accepted(m_config, EnableDistributed)
          /\ ~ BooleanOf(GetParam(m_config, EnableDistributed))
       THEN /\ phase' = "preparing"
            /\ requested' = requested \cup {EnableDistributed.key}
            /\ todo' = <<Remove(Finished), Remove(TimingTxt), Remove(TimingCsv)>>
                       \o WriteFinished("No")
            /\ UNCHANGED <<files, run, program, m_config, enabled, rest, now, progressAt, simulated>>
       ELSE Gone
-----------------------------------------------------------------------------
ConstructProgram ==
    /\ phase = "preparing" /\ todo = <<>>
    /\ phase' = "constructing" /\ rest' = program.construct
    /\ UNCHANGED <<files, run, program, m_config, requested, enabled, todo, now, progressAt, simulated>>

(* The constructor of a component.  Those with a flag are enabled by it;   *)
(* the input files a component reads may be refused.                       *)
Enabled(c) == \A k \in c.flag : BooleanOf(GetParam(m_config, k))
KeysOf(ks) == {k.key : k \in ks}
Construct ==
    /\ phase = "constructing" /\ todo = <<>> /\ rest # <<>>
    /\ LET c == Head(rest)
           keys == IF Enabled(c) THEN c.flag \cup c.keys ELSE c.flag
       IN  \/ /\ \A k \in keys : Accepted(m_config, k)
              /\ requested' = requested \cup KeysOf(keys)
              /\ IF Enabled(c)
                 THEN enabled' = enabled \cup {c} /\ todo' = Each(c.removes, Remove)
                 ELSE UNCHANGED <<enabled, todo>>
              /\ rest' = Tail(rest)
              /\ UNCHANGED <<files, run, phase, program, m_config, now, progressAt, simulated>>
           \/ /\ \/ \E k \in keys : ~ Accepted(m_config, k)
                 \/ Enabled(c) /\ c.inputs
              /\ Gone

StopTime == Int64Of[GetParam(m_config, EndTime)]

(* An event that schedules itself again after an interval of 0 comes again *)
(* in the same instant, for ever.  The one of a component may not exist,   *)
(* for want of pairs to ping, or not be planned, in a static network.  The *)
(* loop that closes the intervals of a laser's utilization up to the       *)
(* present does not end either, if they are empty.                         *)
IsZero(k) == Int64Of[GetParam(m_config, k)] = 0
RepeatsAtOnce(c) ==
    (\E k \in c.repeats : IsZero(k)) /\ \A k \in c.static : ~ BooleanOf(GetParam(m_config, k))
TracksForEver(c) == \E k \in c.tracks : IsZero(k)

(* BasicSimulation::Run up to the first progress message. *)
ConfirmAllConfigParamKeysRequested == DOMAIN m_config \subseteq requested
StartEvents(repeating) ==
    IF ConfirmAllConfigParamKeysRequested
    THEN /\ phase' \in (IF StopTime = 0 \/ repeating = {} THEN {"running"}
                        ELSE IF \A c \in repeating : c.mayBeIdle THEN {"running", "hanging"}
                        ELSE {"hanging"})
         /\ progressAt' = FirstProgress
         /\ UNCHANGED <<files, run, program, m_config, requested, enabled, rest, todo,
                        now, simulated>>
    ELSE Gone

(* Mutant of Run: updates are planned in a static network too. *)
RunUpdatesStatic ==
    /\ phase = "constructing" /\ todo = <<>> /\ rest = <<>>
    /\ StartEvents({c \in enabled : \E k \in c.repeats : IsZero(k)})

Run ==
    /\ phase = "constructing" /\ todo = <<>> /\ rest = <<>>
    /\ StartEvents({c \in enabled : RepeatsAtOnce(c)})

(* The event reschedules itself for ever.  How long it waits is measured:  *)
(* the speed of the simulation so far times a fifth of the time that is to *)
(* pass between messages.  Nothing bounds it from below, it is negative    *)
(* when the system's clock has been set back before the start.  A time     *)
(* before 0 is stored as a huge unsigned one.  The stop event was inserted *)
(* before every other, so it is the first one of its time.                 *)
ShowSimulationProgress ==
    /\ phase = "running" /\ progressAt < StopTime
    /\ now' = progressAt
    /\ \E gap \in ProgressGaps :
         progressAt' = IF progressAt + gap < 0 THEN StopTime ELSE progressAt + gap
    /\ UNCHANGED <<files, run, phase, program, m_config, requested, enabled, rest, todo, simulated>>

(* A packet is sent over a laser. *)
TrackUtilization ==
    /\ phase = "running" /\ 0 < StopTime /\ \E c \in enabled : TracksForEver(c)
    /\ phase' = "hanging"
    /\ UNCHANGED <<files, run, program, m_config, requested, enabled, rest, todo, now,
                   progressAt, simulated>>

Stop ==
    /\ phase = "running" /\ StopTime <= progressAt
    /\ now' = StopTime /\ phase' = "writing" /\ rest' = program.results
    /\ simulated' = simulated \cup {[run |-> run, enabled |-> enabled]}
    /\ UNCHANGED <<files, run, program, m_config, requested, enabled, todo, progressAt>>

(* An event of an application throws. *)
EventThrows == phase = "running" /\ Gone
-----------------------------------------------------------------------------
(* WriteResults of the components: all files are opened, written, closed. *)
WriteResults ==
    /\ phase = "writing" /\ todo = <<>> /\ rest # <<>>
    /\ LET c == Head(rest)
       IN  todo' = IF c \in enabled THEN Each(c.writes, Open) \o Each(c.writes, Complete)
                   ELSE <<>>
    /\ rest' = Tail(rest)
    /\ UNCHANGED <<files, run, phase, program, m_config, requested, enabled, now,
                   progressAt, simulated>>

(* The utilization of a laser is brought up to the present when the file   *)
(* has been opened.                                                        *)
FinalizeUtilization ==
    /\ phase = "writing" /\ todo = <<>> /\ rest # <<>>
    /\ Head(rest) \in enabled /\ TracksForEver(Head(rest))
    /\ phase' = "hanging" /\ todo' = Each(Head(rest).writes, Open) /\ rest' = Tail(rest)
    /\ UNCHANGED <<files, run, program, m_config, requested, enabled, now, progressAt, simulated>>

(* Mutant of Finalize: Yes is written before the timing results. *)
FinalizeYesFirst ==
    /\ phase = "writing" /\ todo = <<>> /\ rest = <<>>
    /\ phase' = "finalizing"
    /\ todo' = WriteFinished("Yes")
               \o <<Open(TimingTxt), Open(TimingCsv), Complete(TimingTxt), Complete(TimingCsv)>>
    /\ UNCHANGED <<files, run, program, m_config, requested, enabled, rest, now,
                   progressAt, simulated>>

Finalize ==
    /\ phase = "writing" /\ todo = <<>> /\ rest = <<>>
    /\ phase' = "finalizing"
    /\ todo' = <<Open(TimingTxt), Open(TimingCsv), Complete(TimingTxt), Complete(TimingCsv)>>
               \o WriteFinished("Yes")
    /\ UNCHANGED <<files, run, program, m_config, requested, enabled, rest, now,
                   progressAt, simulated>>

Return == phase = "finalizing" /\ todo = <<>> /\ Gone

Proceed ==
    \/ FileOperation
    \/ ReadConfig \/ ConfigureSimulation \/ ConstructProgram \/ Construct \/ Run
    \/ ShowSimulationProgress \/ TrackUtilization \/ Stop
    \/ WriteResults \/ FinalizeUtilization \/ Finalize \/ Return

Next == ConfigureRunDirectory \/ Proceed \/ EventThrows \/ Killed

(* A process that runs goes on; nobody has to start one, nothing has to    *)
(* fail.                                                                   *)
Spec == Init /\ [][Next]_vars /\ WF_vars(Proceed)
-----------------------------------------------------------------------------
(* What a file can hold, and how far a process can be. *)
Content == {"absent", "partial", "complete", "No", "Yes"}
Phase == {"none", "reading", "configuring", "preparing", "constructing",
          "running", "hanging", "writing", "finalizing"}

(* finished.txt is what tells a reader that the other files can be used:   *)
(* while it says Yes, the run that wrote it simulated to its end, and      *)
(* every component it had enabled has its files complete, of that run,     *)
(* whatever runs before it left and whatever became of runs after it.      *)
Answer == files[Finished]
OfRun(f, r) == files[f] = [content |-> "complete", run |-> r]
YesMeansComplete ==
    Answer.content = "Yes" =>
        /\ OfRun(TimingTxt, Answer.run) /\ OfRun(TimingCsv, Answer.run)
        /\ \E s \in simulated :
             s.run = Answer.run /\ \A c \in s.enabled : \A f \in Files(c) : OfRun(f, s.run)

(* No file of results is removed, opened or written while finished.txt     *)
(* says Yes, so whoever has read the Yes can read the results.             *)
ResultsChangeOnlyUnfinished ==
    [][\A f \in Results \cup {TimingTxt, TimingCsv} :
          files'[f] # files[f] => Answer.content # "Yes"]_vars

(* main ends, though the progress event reschedules itself for ever, if    *)
(* its measured wait is again and again more than nothing and in the end   *)
(* never less, and if no component that is enabled repeats something after *)
(* an interval of 0.                                                       *)
ClockRuns ==
    /\ SF_vars(ShowSimulationProgress /\ now' < progressAt')
    /\ <>[][ShowSimulationProgress => now' <= progressAt']_vars
ZeroInterval == \E c \in enabled : RepeatsAtOnce(c) \/ TracksForEver(c)
RunEnds == ClockRuns => (phase # "none" ~> phase = "none" \/ ZeroInterval)

(* The folder's documentation: finished.txt contains "Yes" if the run has  *)
(* finished, "No" if not.  The file is reset after the configuration was   *)
(* read and used, so a run these stop leaves the Yes of an earlier run.    *)
YesIsOfThisRun == phase = "none" /\ Answer.content = "Yes" => Answer.run = run
=============================================================================
