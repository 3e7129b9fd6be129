-------------------------- MODULE JetsonSweepProofs --------------------------
(***************************************************************************)
(* Theorems about JetsonSweep, for every plan, every number of sweeps and   *)
(* every gate.                                                              *)
(***************************************************************************)
EXTENDS JetsonSweep, SequenceTheorems, TLAPS

BeforeLaunch == {"prepare", "preflight", "port_check"}
Started      == {"poll", "probe", "benchmark", "stream", "record"}
Ending       == {"shutdown", "closing"}

USE DEF me, file, NextVariant, Goto, Skip, Ended, Shut

-----------------------------------------------------------------------------
(* Types, one part of the state at a time.  The entries of the manifest     *)
(* follow the plan, so the entry that the finally block completes exists.   *)
PositionOK == /\ run \in {0} \cup Runs /\ pc \in Steps /\ v \in Variants
              /\ pc \notin Ended => run \in Runs
              /\ rc \in [Kinds -> {"none", "ok", "failed"}]

LateOK == late \in BOOLEAN

ListsOK == /\ results \in Seq(Entries)
           /\ reported \in [Kinds -> SUBSET Variants]
           /\ manifest \in [run : {0} \cup Runs, results : Seq(Entries),
                            report : SUBSET Variants]

HostOK == /\ server \in [Servers -> Alive \cup {"none", "exited"}]
          /\ detached \subseteq Servers

NotedOK == /\ strays \subseteq Commands
           /\ shutdown \in Methods
           /\ unseen \subseteq Servers /\ cut \subseteq Runs

FilesOK == /\ records \in [Kinds -> [Servers -> SUBSET Written]]
           /\ torn \in [Kinds -> SUBSET Servers]
           /\ meta \in [Servers -> {0} \cup Runs]

Progress ==
    /\ pc \in BeforeLaunch \cup Started => Len(results) = v - 1
    /\ pc \in Ending => Len(results) = v
    /\ pc \in {"report", "manifest"} => Len(results) = Count
    /\ \A i \in 1..Len(results) : results[i].variant = i
    /\ manifest.run # 0 => Len(manifest.results) = Count

Typed == PositionOK /\ LateOK /\ ListsOK /\ HostOK /\ NotedOK /\ FilesOK /\ Progress

LEMMA TypedInit == ASSUME SweepAssumption PROVE Init => Typed
<1> SUFFICES ASSUME Init PROVE Typed
  OBVIOUS
<1> USE DEF SweepAssumption, Init
<1>1. PositionOK
  BY DEF PositionOK, Variants, Steps, NotRun
<1>2. ListsOK
  BY DEF ListsOK, NoPaths, NoResults
<1>3. HostOK
  BY DEF HostOK
<1>4. FilesOK
  BY DEF FilesOK, NoPaths
<1>5. Progress
  BY DEF Progress, NoResults, BeforeLaunch, Started, Ending
<1>6. LateOK
  BY Zenon DEF LateOK
<1>7. NotedOK
  BY DEF NotedOK, Methods
<1> QED BY <1>1, <1>2, <1>3, <1>4, <1>5, <1>6, <1>7 DEF Typed

LEMMA FileType == ASSUME PositionOK, SweepAssumption, pc \notin Ended
                  PROVE  me \in Servers /\ file \in Servers
BY DEF PositionOK, SweepAssumption, FileOf, Servers, Runs

LEMMA EntryType ==
    ASSUME PositionOK, NEW ready \in BOOLEAN,
           NEW reason \in {"none", "pre_variant_command_failed", "lfb_free_blocks",
                           "runtime_missing", "server_port_still_open_before_start"}
    PROVE  /\ Entry(reason, ready) \in Entries
           /\ Entry(reason, ready).variant = v
BY DEF PositionOK, Entry, Entries, Methods

(* What the commands that outlive their sweep leave alone.                  *)
LEMMA StrayStep ==
    ASSUME NEW c \in strays, StrayAsks(c) \/ StrayEnds(c)
    PROVE  UNCHANGED <<driver, server, detached, noted, manifest>>
BY DEF StrayAsks, StrayEnds, host

LEMMA PositionStep ==
    ASSUME SweepAssumption, PositionOK, [Next]_vars PROVE PositionOK'
<1> USE DEF PositionOK, Steps, Variants, SweepAssumption
<1>1. ASSUME NEW reason, Skip(reason), pc \notin Ended PROVE PositionOK'
  BY <1>1
<1>2. CASE StartSweep
  BY <1>2 DEF StartSweep, NotRun, Runs
<1>3. CASE PrepareVariant
  <2>1. CASE Goto("preflight")
    BY <1>3, <2>1 DEF PrepareVariant
  <2> QED BY <1>3, <1>1, <2>1, Zenon DEF PrepareVariant
<1>4. CASE Preflight
  <2>1. CASE Goto("port_check")
    BY <1>4, <2>1 DEF Preflight
  <2> QED BY <1>4, <1>1, <2>1, Zenon DEF Preflight
<1>5. CASE PortBusy
  BY <1>5, <1>1, Zenon DEF PortBusy
<1>6. CASE Launch \/ NotReady \/ Record
  BY <1>6 DEF Launch, NotReady, Record
<1>7. CASE Poll
  BY <1>7 DEF Poll
<1>8. CASE Probe
  BY <1>8 DEF Probe
<1>9. CASE CommandSucceeds \/ CommandFails
  BY <1>9 DEF CommandSucceeds, CommandFails, AfterCommand, Kinds
<1>10. CASE AlreadyExited \/ Terminate \/ KillGroup \/ ShutdownTimesOut
  BY <1>10 DEF AlreadyExited, Terminate, KillGroup, ShutdownTimesOut
<1>11. CASE Closing
  BY <1>11 DEF Closing, NotRun
<1>12. CASE ProfileFails \/ Report \/ WriteManifest \/ Crash
  BY <1>12 DEF ProfileFails, Report, WriteManifest, Crash
<1>13. CASE DeadlinePasses
  BY <1>13 DEF DeadlinePasses
<1>14. CASE Request
  BY <1>14 DEF Request, driver
<1>15. ASSUME NEW s \in Servers, Container(s) PROVE PositionOK'
  BY <1>15 DEF Container, LauncherFails, DockerRun, Listen, Serve, Hang, Recover, ServerExits,
     Becomes, driver
<1>16. CASE UNCHANGED vars
  BY <1>16 DEF vars, driver
<1>17. ASSUME NEW c \in strays, StrayAsks(c) \/ StrayEnds(c) PROVE PositionOK'
  BY <1>17, StrayStep DEF driver
<1> QED BY <1>2, <1>3, <1>4, <1>5, <1>6, <1>7, <1>8, <1>9, <1>10, <1>11, <1>12, <1>13,
           <1>14, <1>15, <1>16, <1>17 DEF Next, Driver

LEMMA LateStep == ASSUME LateOK, [Next]_vars PROVE LateOK'
<1>1. ASSUME NEW c \in strays, StrayAsks(c) \/ StrayEnds(c) PROVE LateOK'
  BY <1>1, StrayStep DEF LateOK, driver
<1> QED BY <1>1, Zenon
        DEF LateOK, Next, Driver, StartSweep, PrepareVariant, Preflight, PortBusy, Launch,
            NotReady, Poll, Probe, Request, CommandSucceeds, CommandFails, Record,
            AlreadyExited, Terminate, KillGroup, ShutdownTimesOut, Closing, ProfileFails,
            Report, WriteManifest, DeadlinePasses, Crash, Container, LauncherFails,
            DockerRun, Listen, Serve, Hang, Recover, ServerExits, Becomes, driver, vars

LEMMA HostStep ==
    ASSUME SweepAssumption, PositionOK, HostOK, [Next]_vars PROVE HostOK'
<1> USE DEF HostOK
<1>1. CASE Launch \/ Terminate \/ KillGroup
  <2>1. me \in Servers
    BY <1>1, FileType DEF Launch, Terminate, KillGroup
  <2> QED BY <1>1, <2>1 DEF Launch, Terminate, KillGroup, Alive, Holding
<1>2. ASSUME NEW s \in Servers, Container(s) PROVE HostOK'
  BY <1>2 DEF Container, LauncherFails, DockerRun, Listen, Serve, Hang, Recover, ServerExits,
     Becomes, Alive, Holding, Listening, Mute
<1>3. ASSUME UNCHANGED <<server, detached>> PROVE HostOK'
  BY <1>3
<1>4. ASSUME NEW c \in strays, StrayAsks(c) \/ StrayEnds(c) PROVE HostOK'
  BY <1>3, <1>4, StrayStep
<1> QED BY <1>1, <1>2, <1>3, <1>4
        DEF Next, Driver, StartSweep, PrepareVariant, Preflight, PortBusy, NotReady, Poll,
            Probe, Request, CommandSucceeds, CommandFails, Record, AlreadyExited,
            ShutdownTimesOut, Closing, ProfileFails, Report, WriteManifest,
            DeadlinePasses, Crash, vars, host

LEMMA NotedStep ==
    ASSUME SweepAssumption, PositionOK, NotedOK, [Next]_vars PROVE NotedOK'
<1> USE DEF NotedOK
<1>1. CASE Launch
  BY <1>1 DEF Launch, Overlooked
<1>2. CASE AlreadyExited \/ Terminate \/ KillGroup
  BY <1>2 DEF AlreadyExited, Terminate, KillGroup, Methods, host
<1>3. CASE ShutdownTimesOut \/ Closing
  BY <1>3 DEF ShutdownTimesOut, Closing, PositionOK, Methods, host
<1>4. CASE Crash
  <2>1. run \in Runs /\ v \in Variants
    BY <1>4 DEF Crash, PositionOK, SweepAssumption
  <2> QED BY <1>4, <2>1 DEF Crash, Commands
<1>5. ASSUME UNCHANGED <<strays, noted>> PROVE NotedOK'
  BY <1>5 DEF noted
<1>6. ASSUME NEW c \in strays, StrayAsks(c) \/ StrayEnds(c) PROVE NotedOK'
  BY <1>6 DEF StrayAsks, StrayEnds, host, noted
<1>7. ASSUME NEW s \in Servers, Container(s) PROVE NotedOK'
  BY <1>5, <1>7 DEF Container, LauncherFails, DockerRun, Listen, Serve, Hang, Recover,
     ServerExits, Becomes
<1> QED BY <1>1, <1>2, <1>3, <1>4, <1>5, <1>6, <1>7
        DEF Next, Driver, StartSweep, PrepareVariant, Preflight, PortBusy, NotReady, Poll,
            Probe, Request, CommandSucceeds, CommandFails, Record, ProfileFails, Report,
            WriteManifest, DeadlinePasses, vars, host

(* A request adds a record to one file, a command that ends may leave a     *)
(* manifest or half a line in its own.                                      *)
LEMMA AskType ==
    ASSUME FilesOK, NEW kind \in Kinds, NEW r \in Runs, NEW w, FileOf(r, w) \in Servers,
           Ask(kind, r, w)
    PROVE  records' \in [Kinds -> [Servers -> SUBSET Written]]
<1>1. PICK by \in Servers \cup {None} :
         records' = [records EXCEPT ![kind][FileOf(r, w)] = @ \cup {[run |-> r, by |-> by]}]
  BY DEF Ask, Answering
<1>2. [run |-> r, by |-> by] \in Written
  BY DEF Written
<1> QED BY <1>1, <1>2 DEF FilesOK

LEMMA EndType ==
    ASSUME FilesOK, NEW kind \in Kinds, NEW r \in Runs, NEW w, FileOf(r, w) \in Servers,
           Documents(kind, r, w) \/ Breaks(kind, r, w)
    PROVE  torn' \in [Kinds -> SUBSET Servers] /\ meta' \in [Servers -> {0} \cup Runs]
BY DEF FilesOK, Documents, Breaks

LEMMA FilesStep ==
    ASSUME SweepAssumption, PositionOK, HostOK, NotedOK, FilesOK, [Next]_vars
    PROVE  FilesOK'
<1>0. pc \notin Ended => file \in Servers /\ run \in Runs
  BY FileType DEF PositionOK
<1>1. CASE Request
  BY <1>0, <1>1, AskType DEF Request, Kinds, FilesOK
<1>2. CASE CommandSucceeds \/ CommandFails
  BY <1>0, <1>2, EndType DEF CommandSucceeds, CommandFails, Kinds, FilesOK
<1>3. CASE Crash
  <2>1. CASE UNCHANGED <<torn, meta>>
    BY <1>3, <2>1 DEF Crash, FilesOK
  <2>2. CASE pc \in Kinds /\ Breaks(pc, run, v)
    BY <1>0, <1>3, <2>2, EndType DEF Crash, Kinds, FilesOK
  <2> QED BY <1>3, <2>1, <2>2 DEF Crash
<1>4. ASSUME NEW c \in strays, StrayAsks(c) \/ StrayEnds(c) PROVE FilesOK'
  <2>1. c.kind \in Kinds /\ c.run \in Runs /\ FileOf(c.run, c.variant) \in Servers
    BY <1>4 DEF NotedOK, Commands, FileOf, Servers, Runs, Variants, SweepAssumption
  <2>2. CASE StrayAsks(c)
    BY <2>1, <2>2, AskType DEF StrayAsks, FilesOK
  <2>3. CASE StrayEnds(c)
    BY <2>1, <2>3, EndType DEF StrayEnds, FilesOK
  <2> QED BY <1>4, <2>2, <2>3
<1>5. ASSUME UNCHANGED <<records, torn, meta>> PROVE FilesOK'
  BY <1>5 DEF FilesOK
<1>6. ASSUME NEW s \in Servers, Container(s) PROVE FilesOK'
  BY <1>5, <1>6 DEF Container, LauncherFails, DockerRun, Listen, Serve, Hang, Recover,
     ServerExits, Becomes, files
<1> QED BY <1>1, <1>2, <1>3, <1>4, <1>5, <1>6
        DEF Next, Driver, StartSweep, PrepareVariant, Preflight, PortBusy, Launch, NotReady,
            Poll, Probe, Record, AlreadyExited, Terminate, KillGroup, ShutdownTimesOut,
            Closing, ProfileFails, Report, WriteManifest, DeadlinePasses, vars, files

(* Whatever a step appends to the entries is one about the current variant. *)
Outputs == ListsOK /\ Progress

LEMMA AppendEntry ==
    ASSUME Outputs, NEW e \in Entries, e.variant = v, Len(results) = v - 1,
           v \in Nat, results' = Append(results, e)
    PROVE  /\ results' \in Seq(Entries)
           /\ Len(results') = v
           /\ \A i \in 1..Len(results') : results'[i].variant = i
BY DEF Outputs, ListsOK, Progress

LEMMA OutputsStep ==
    ASSUME SweepAssumption, PositionOK, NotedOK, FilesOK, Outputs, [Next]_vars
    PROVE  Outputs'
<1> DEFINE Reasons == {"none", "pre_variant_command_failed", "lfb_free_blocks",
                       "runtime_missing", "server_port_still_open_before_start"}
<1>0. v \in Nat /\ Count \in Nat /\ v <= Count /\ v >= 1
  BY DEF PositionOK, SweepAssumption, Variants
<1>1. ASSUME NEW reason \in Reasons, pc \in BeforeLaunch, Skip(reason)
      PROVE  Outputs'
  <2>1. Entry(reason, FALSE) \in Entries /\ Entry(reason, FALSE).variant = v
    BY EntryType
  <2>2. Len(results) = v - 1
    BY <1>1 DEF Outputs, Progress
  <2>3. /\ results' \in Seq(Entries)
        /\ Len(results') = v
        /\ \A i \in 1..Len(results') : results'[i].variant = i
    BY <1>0, <1>1, <2>1, <2>2, AppendEntry
  <2>4. ListsOK'
    BY <1>1, <2>3 DEF Outputs, ListsOK, files
  <2>5. Progress'
    <3>1. manifest' = manifest /\ pc \notin Ended
      BY <1>1 DEF files, BeforeLaunch
    <3>2. \/ pc' = "prepare" /\ v' = v + 1
          \/ pc' = "report" /\ v = Count
      BY <1>0, <1>1
    <3> QED BY <1>0, <2>3, <3>1, <3>2 DEF Outputs, Progress, BeforeLaunch, Started, Ending
  <2> QED BY <2>4, <2>5 DEF Outputs
<1>2. ASSUME NEW ready \in BOOLEAN, pc \in Started, pc' = "shutdown", v' = v,
             results' = Append(results, Entry("none", ready)),
             reported' \in [Kinds -> SUBSET Variants], manifest' = manifest
      PROVE  Outputs'
  <2>1. Entry("none", ready) \in Entries /\ Entry("none", ready).variant = v
    BY EntryType
  <2>2. Len(results) = v - 1
    BY <1>2 DEF Outputs, Progress
  <2>3. /\ results' \in Seq(Entries)
        /\ Len(results') = v
        /\ \A i \in 1..Len(results') : results'[i].variant = i
    BY <1>0, <1>2, <2>1, <2>2, AppendEntry
  <2>4. ListsOK'
    BY <1>2, <2>3 DEF Outputs, ListsOK
  <2>5. Progress'
    BY <1>2, <2>3 DEF Outputs, Progress, BeforeLaunch, Started, Ending
  <2> QED BY <2>4, <2>5 DEF Outputs
<1>3. ASSUME UNCHANGED <<v, results, reported, manifest>>,
             \/ pc' = pc \/ pc' \in Ended
             \/ pc \in BeforeLaunch \cup Started /\ pc' \in BeforeLaunch \cup Started
             \/ pc \in Ending /\ pc' \in Ending
             \/ pc \in {"report", "manifest"} /\ pc' \in {"report", "manifest"}
      PROVE  Outputs'
  BY <1>3 DEF Outputs, ListsOK, Progress, BeforeLaunch, Started, Ending
<1>4. CASE StartSweep
  BY <1>4 DEF StartSweep, Outputs, ListsOK, Progress, NoPaths, BeforeLaunch, Started,
     Ending, files
<1>5. CASE PrepareVariant
  <2>1. CASE Goto("preflight") /\ UNCHANGED files
    BY <1>3, <1>5, <2>1 DEF PrepareVariant, BeforeLaunch, files
  <2>2. pc \in BeforeLaunch
    BY <1>5 DEF PrepareVariant, BeforeLaunch
  <2> QED BY <1>1, <1>5, <2>1, <2>2, Zenon DEF PrepareVariant
<1>6. CASE Preflight
  <2>1. CASE Goto("port_check") /\ UNCHANGED files
    BY <1>3, <1>6, <2>1 DEF Preflight, BeforeLaunch, files
  <2>2. pc \in BeforeLaunch
    BY <1>6 DEF Preflight, BeforeLaunch
  <2> QED BY <1>1, <1>6, <2>1, <2>2, Zenon DEF Preflight
<1>7. CASE PortBusy
  <2>1. pc \in BeforeLaunch
    BY <1>7 DEF PortBusy, BeforeLaunch
  <2> QED BY <1>1, <1>7, <2>1, Zenon DEF PortBusy
<1>8. CASE Launch
  BY <1>3, <1>8 DEF Launch, BeforeLaunch, Started, files
<1>9. CASE NotReady
  <2>1. pc \in Started /\ reported' \in [Kinds -> SUBSET Variants]
    BY <1>9 DEF NotReady, Started, Outputs, ListsOK
  <2> QED BY <1>2, <1>9, <2>1 DEF NotReady, files
<1>10. CASE Record
  <2>1. pc \in Started /\ reported' \in [Kinds -> SUBSET Variants]
    BY <1>10 DEF Record, Started, Outputs, ListsOK, PositionOK
  <2> QED BY <1>2, <1>10, <2>1 DEF Record, files
<1>11. CASE Poll \/ Probe
  BY <1>3, <1>11 DEF Poll, Probe, Started, files
<1>12. CASE CommandSucceeds
  BY <1>3, <1>12 DEF CommandSucceeds, AfterCommand, Started, Kinds
<1>13. CASE CommandFails
  BY <1>3, <1>13 DEF CommandFails, AfterCommand, Started, Kinds
<1>14. CASE AlreadyExited \/ Terminate \/ KillGroup \/ ShutdownTimesOut
  BY <1>3, <1>14 DEF AlreadyExited, Terminate, KillGroup, ShutdownTimesOut, Ending, files
<1>15. CASE Closing
  <2>0. PICK made \in Profiles :
           results' = [results EXCEPT
                         ![Len(results)].closed = IF EndpointOpen THEN "no" ELSE "yes",
                         ![Len(results)].method = shutdown, ![Len(results)].profile = made]
    BY <1>15, Zenon DEF Closing
  <2> DEFINE last == Len(results)
             done == [results[last] EXCEPT
                        !.closed = IF EndpointOpen THEN "no" ELSE "yes",
                        !.method = shutdown, !.profile = made]
  <2>1. last = v /\ last \in 1..Len(results)
    BY <1>0, <1>15 DEF Closing, Outputs, Progress, Ending
  <2>2. results[last] \in Entries /\ results[last].variant = v
    BY <2>1 DEF Outputs, ListsOK, Progress
  <2>3. made \in {0} \cup Runs
    BY <1>15, FileType DEF FilesOK, Closing, Profiles
  <2>4. done \in Entries /\ done.variant = v
    BY <2>2, <2>3 DEF Entries, NotedOK
  <2>5. results' = [results EXCEPT ![last] = done]
    BY <2>0, <2>1, Zenon
  <2>6. results' \in Seq(Entries) /\ Len(results') = v
    BY <2>1, <2>4, <2>5 DEF Outputs, ListsOK
  <2>7. \A i \in 1..Len(results') : results'[i].variant = i
    BY <2>1, <2>4, <2>5, <2>6 DEF Outputs, ListsOK, Progress
  <2>8. ListsOK'
    BY <1>15, <2>6 DEF Closing, Outputs, ListsOK, files
  <2>9. Progress'
    BY <1>0, <1>15, <2>6, <2>7 DEF Closing, Outputs, Progress, BeforeLaunch, Started,
       Ending, files
  <2> QED BY <2>8, <2>9 DEF Outputs
<1>16. CASE Report \/ ProfileFails
  BY <1>3, <1>16 DEF Report, ProfileFails, files
<1>17. CASE WriteManifest
  <2>1. run \in {0} \cup Runs
    BY DEF PositionOK
  <2>2. manifest' \in [run : {0} \cup Runs, results : Seq(Entries),
                       report : SUBSET Variants]
    BY <1>17, <2>1 DEF WriteManifest, Outputs, ListsOK, Kinds
  <2> QED BY <1>17, <2>2 DEF WriteManifest, Outputs, ListsOK, Progress, BeforeLaunch,
             Started, Ending
<1>18. CASE DeadlinePasses \/ Crash \/ Request
  BY <1>3, <1>18 DEF DeadlinePasses, Crash, Request, driver, files
<1>19. ASSUME NEW s \in Servers, Container(s) PROVE Outputs'
  BY <1>3, <1>19 DEF Container, LauncherFails, DockerRun, Listen, Serve, Hang, Recover, ServerExits,
     Becomes, driver, files
<1>20. CASE UNCHANGED vars
  BY <1>3, <1>20 DEF vars, driver, files
<1>21. ASSUME NEW c \in strays, StrayAsks(c) \/ StrayEnds(c) PROVE Outputs'
  BY <1>3, <1>21, StrayStep DEF driver
<1> QED BY <1>4, <1>5, <1>6, <1>7, <1>8, <1>9, <1>10, <1>11, <1>12, <1>13, <1>14, <1>15,
           <1>16, <1>17, <1>18, <1>19, <1>20, <1>21 DEF Next, Driver

LEMMA TypedStep == ASSUME SweepAssumption, Typed, [Next]_vars PROVE Typed'
BY PositionStep, LateStep, HostStep, NotedStep, FilesStep, OutputsStep DEF Typed, Outputs

(* Every sweep keeps its variables within their types. *)
THEOREM TypeCorrect == ASSUME SweepAssumption PROVE Spec => []TypeOK
<1>1. Init => Typed
  BY TypedInit
<1>2. Typed /\ [Next]_vars => Typed'
  BY TypedStep
<1>3. Typed => TypeOK
  BY DEF Typed, TypeOK, PositionOK, LateOK, ListsOK, HostOK, NotedOK, FilesOK, Runs
<1> QED BY <1>1, <1>2, <1>3, PTL DEF Spec

(* A manifest has one entry per planned variant, in the order of the plan,  *)
(* whatever is skipped, fails or is killed.                                 *)
THEOREM ManifestFollowsPlan == ASSUME SweepAssumption PROVE Spec => []ResultsFollowPlan
<1>1. Init => Typed
  BY TypedInit
<1>2. Typed /\ [Next]_vars => Typed'
  BY TypedStep
<1>3. Typed => ResultsFollowPlan
  BY DEF Typed, Progress, ResultsFollowPlan
<1> QED BY <1>1, <1>2, <1>3, PTL DEF Spec

-----------------------------------------------------------------------------
(* A launcher is started once, and only a launched one loses its client.    *)
Unlaunched(r, w) ==
    \/ r > run
    \/ r = run /\ pc \notin Ended /\ (w > v \/ (w = v /\ pc \in BeforeLaunch))

Fresh == \A r \in Runs, w \in Variants :
            Unlaunched(r, w) => server[<<r, w>>] = "none"

DetachedLaunched == \A s \in detached : server[s] # "none"

(* The variant at hand loses its client when it is shut down, not before.   *)
StillAttached == pc \in Started \cup {"shutdown"} => me \notin detached
ShutMeansGone == pc = "closing" /\ shutdown # "kill_group" => server[me] \notin Alive

Gone(method) == method \in {"already_exited", "terminate_group"}
ClosedGone   == \A i \in 1..Len(results) :
                    Gone(results[i].method) => server[<<run, i>>] \notin Alive

Orphans == Fresh /\ DetachedLaunched /\ StillAttached /\ ShutMeansGone /\ ClosedGone

LEMMA OrphansInit == ASSUME SweepAssumption, Init PROVE Orphans
BY DEF SweepAssumption, Init, Orphans, Fresh, DetachedLaunched, StillAttached,
   ShutMeansGone, ClosedGone, Servers, Started

LEMMA ContainerStep ==
    ASSUME HostOK, NEW s \in Servers, Container(s)
    PROVE  /\ UNCHANGED <<driver, detached, strays, noted, files>>
           /\ server[s] \in Alive
           /\ server' \in [Servers -> Alive \cup {"none", "exited"}]
           /\ \A t \in Servers \ {s} : server'[t] = server[t]
           /\ server'[s] # "none"
BY DEF HostOK, Container, LauncherFails, DockerRun, Listen, Serve, Hang, Recover, ServerExits,
   Becomes, Alive, Holding, Listening, Mute

LEMMA FreshStep ==
    ASSUME SweepAssumption, PositionOK, HostOK, Fresh, [Next]_vars PROVE Fresh'
<1> USE DEF Fresh, Unlaunched, PositionOK, SweepAssumption, Variants, Runs, BeforeLaunch
<1>1. ASSUME UNCHANGED <<run, server>>, pc \notin Ended,
             \/ pc' \in Ended
             \/ v' = v /\ (pc' \in BeforeLaunch => pc \in BeforeLaunch)
             \/ v' = v + 1
      PROVE  Fresh'
  BY <1>1
<1>2. ASSUME NEW reason, Skip(reason), pc \notin Ended PROVE Fresh'
  BY <1>2, <1>1 DEF host
<1>3. CASE StartSweep
  <2>1. run' = run + 1 /\ UNCHANGED server /\ run \in Int
    BY <1>3 DEF StartSweep, host
  <2>2. \A r \in Runs, w \in Variants : Unlaunched(r, w)' => Unlaunched(r, w)
    BY <2>1
  <2> QED BY <2>1, <2>2
<1>4. CASE PrepareVariant
  <2>1. CASE Goto("preflight") /\ UNCHANGED host
    BY <1>1, <1>4, <2>1 DEF PrepareVariant, host
  <2> QED BY <1>4, <1>2, <2>1, Zenon DEF PrepareVariant
<1>5. CASE Preflight
  <2>1. CASE Goto("port_check") /\ UNCHANGED host
    BY <1>1, <1>5, <2>1 DEF Preflight, host
  <2> QED BY <1>5, <1>2, <2>1, Zenon DEF Preflight
<1>6. CASE PortBusy
  BY <1>6, <1>2, Zenon DEF PortBusy
<1>7. CASE Launch \/ Terminate
  <2>1. \A t \in Servers : t # me => server'[t] = server[t]
    BY <1>7 DEF Launch, Terminate, HostOK
  <2>2. \A r \in Runs, w \in Variants : <<r, w>> \in Servers
    BY DEF Servers
  <2>3. CASE Launch
    BY <2>1, <2>2, <2>3 DEF Launch
  <2>4. CASE Terminate
    BY <2>1, <2>2, <2>4 DEF Terminate
  <2> QED BY <1>7, <2>3, <2>4
<1>8. CASE NotReady \/ Poll \/ Probe \/ Record
  BY <1>8, <1>1 DEF NotReady, Poll, Probe, Record, host
<1>9. CASE CommandSucceeds \/ CommandFails
  BY <1>9, <1>1 DEF CommandSucceeds, CommandFails, AfterCommand, Kinds, host
<1>10. CASE AlreadyExited \/ KillGroup \/ ShutdownTimesOut
  BY <1>10, <1>1 DEF AlreadyExited, KillGroup, ShutdownTimesOut, host
<1>11. CASE Closing \/ ProfileFails
  BY <1>11, <1>1 DEF Closing, ProfileFails, host
<1>12. CASE Report \/ WriteManifest
  BY <1>12, <1>1 DEF Report, WriteManifest, host
<1>13. CASE Crash
  BY <1>13, <1>1 DEF Crash, host
<1>14. CASE DeadlinePasses \/ Request \/ UNCHANGED vars
  BY <1>14 DEF DeadlinePasses, Request, vars, driver, host
<1>15. ASSUME NEW s \in Servers, Container(s) PROVE Fresh'
  <2>1. \A r \in Runs, w \in Variants : <<r, w>> \in Servers
    BY DEF Servers
  <2> QED BY <1>15, <2>1, ContainerStep DEF driver, Alive, Holding, Listening, Mute
<1>16. ASSUME NEW c \in strays, StrayAsks(c) \/ StrayEnds(c) PROVE Fresh'
  BY <1>16, StrayStep DEF driver
<1> QED BY <1>3, <1>4, <1>5, <1>6, <1>7, <1>8, <1>9, <1>10, <1>11, <1>12, <1>13, <1>14, <1>15,
           <1>16 DEF Next, Driver

(* The current variant's server was never launched when its turn comes. *)
LEMMA FreshNow ==
    ASSUME SweepAssumption, PositionOK, Fresh, pc \in BeforeLaunch
    PROVE  me \in Servers /\ server[me] = "none"
BY FileType DEF Fresh, Unlaunched, PositionOK, BeforeLaunch

LEMMA DetachedStep ==
    ASSUME SweepAssumption, PositionOK, HostOK, DetachedLaunched, [Next]_vars
    PROVE  DetachedLaunched'
<1> USE DEF DetachedLaunched
<1>1. CASE Launch \/ Terminate
  BY <1>1 DEF Launch, Terminate, HostOK
<1>2. CASE KillGroup
  BY <1>2 DEF KillGroup, Exited, Alive, Holding, Mute, Listening
<1>3. ASSUME NEW s \in Servers, Container(s) PROVE DetachedLaunched'
  BY <1>3, ContainerStep DEF HostOK
<1>4. ASSUME UNCHANGED <<server, detached>> PROVE DetachedLaunched'
  BY <1>4
<1>5. ASSUME NEW c \in strays, StrayAsks(c) \/ StrayEnds(c) PROVE DetachedLaunched'
  BY <1>4, <1>5, StrayStep
<1> QED BY <1>1, <1>2, <1>3, <1>4, <1>5
        DEF Next, Driver, StartSweep, PrepareVariant, Preflight, PortBusy, NotReady, Poll,
            Probe, Request, CommandSucceeds, CommandFails, Record, AlreadyExited,
            ShutdownTimesOut, Closing, ProfileFails, Report, WriteManifest,
            DeadlinePasses, Crash, vars, host

LEMMA AttachedStep ==
    ASSUME SweepAssumption, PositionOK, HostOK, Fresh, DetachedLaunched, StillAttached,
           [Next]_vars
    PROVE  StillAttached'
<1> USE DEF StillAttached
<1>1. ASSUME pc' \notin Started \cup {"shutdown"} PROVE StillAttached'
  BY <1>1
<1>2. ASSUME UNCHANGED <<run, v, detached>>, pc \in Started \cup {"shutdown"}
      PROVE  StillAttached'
  BY <1>2
<1>3. CASE PrepareVariant \/ Preflight \/ PortBusy
  <2>1. pc' \in BeforeLaunch \cup {"report"}
    BY <1>3, Zenon DEF PrepareVariant, Preflight, PortBusy, BeforeLaunch
  <2> QED BY <1>1, <2>1 DEF BeforeLaunch, Started
<1>4. CASE Launch
  <2>1. me \notin detached
    BY <1>4, FreshNow DEF Launch, BeforeLaunch, DetachedLaunched
  <2> QED BY <1>4, <2>1 DEF Launch
<1>5. CASE StartSweep \/ AlreadyExited \/ Terminate \/ KillGroup \/ ShutdownTimesOut
  BY <1>1, <1>5 DEF StartSweep, AlreadyExited, Terminate, KillGroup, ShutdownTimesOut, Started
<1>6. CASE Closing \/ ProfileFails \/ Report \/ WriteManifest \/ Crash
  BY <1>1, <1>6 DEF Closing, ProfileFails, Report, WriteManifest, Crash, Started
<1>7. CASE NotReady \/ Poll \/ Probe \/ Record
  BY <1>2, <1>7 DEF NotReady, Poll, Probe, Record, Started, host
<1>8. CASE CommandSucceeds \/ CommandFails
  BY <1>2, <1>8 DEF CommandSucceeds, CommandFails, Started, Kinds, host
<1>9. CASE DeadlinePasses \/ Request \/ UNCHANGED vars
  BY <1>9 DEF DeadlinePasses, Request, vars, driver, host
<1>10. ASSUME NEW s \in Servers, Container(s) PROVE StillAttached'
  BY <1>10, ContainerStep DEF driver
<1>11. ASSUME NEW c \in strays, StrayAsks(c) \/ StrayEnds(c) PROVE StillAttached'
  BY <1>11, StrayStep DEF driver
<1> QED BY <1>3, <1>4, <1>5, <1>6, <1>7, <1>8, <1>9, <1>10, <1>11 DEF Next, Driver

LEMMA ShutStep ==
    ASSUME SweepAssumption, PositionOK, HostOK, StillAttached, ShutMeansGone, [Next]_vars
    PROVE  ShutMeansGone'
<1> USE DEF ShutMeansGone
<1>1. CASE AlreadyExited
  <2>1. server[me] \notin Alive
    BY <1>1 DEF AlreadyExited, Exited, StillAttached
  <2> QED BY <1>1, <2>1 DEF AlreadyExited
<1>2. CASE Terminate
  <2>1. me \in Servers
    BY <1>2, FileType DEF Terminate
  <2> QED BY <1>2, <2>1 DEF Terminate, HostOK, Alive, Holding, Listening, Mute
<1>3. CASE KillGroup
  BY <1>3 DEF KillGroup
<1>4. ASSUME NEW s \in Servers, Container(s) PROVE ShutMeansGone'
  <2>1. pc = "closing" => me \in Servers
    BY FileType
  <2> QED BY <1>4, <2>1, ContainerStep DEF driver, noted
<1>5. ASSUME pc' # "closing" PROVE ShutMeansGone'
  BY <1>5
<1>6. CASE DeadlinePasses \/ Request \/ UNCHANGED vars
  BY <1>6 DEF DeadlinePasses, Request, vars, driver, host, noted
<1>7. CASE PrepareVariant \/ PortBusy \/ Preflight
  <2>1. pc' # "closing"
    BY <1>7, Zenon DEF PrepareVariant, PortBusy, Preflight
  <2> QED BY <2>1
<1>8. CASE Launch \/ NotReady \/ Poll \/ Probe \/ Record \/ StartSweep \/ Crash
  BY <1>8 DEF Launch, NotReady, Poll, Probe, Record, StartSweep, Crash
<1>9. CASE CommandSucceeds \/ CommandFails
  BY <1>9 DEF CommandSucceeds, CommandFails, AfterCommand
<1>10. CASE ShutdownTimesOut \/ Closing \/ ProfileFails \/ Report \/ WriteManifest
  BY <1>10 DEF ShutdownTimesOut, Closing, ProfileFails, Report, WriteManifest
<1>11. ASSUME NEW c \in strays, StrayAsks(c) \/ StrayEnds(c) PROVE ShutMeansGone'
  BY <1>11, StrayStep DEF driver, noted
<1> QED BY <1>1, <1>2, <1>3, <1>4, <1>6, <1>7, <1>8, <1>9, <1>10, <1>11 DEF Next, Driver

LEMMA ClosedGoneStep ==
    ASSUME SweepAssumption, Typed, ShutMeansGone, ClosedGone, [Next]_vars
    PROVE  ClosedGone'
<1> USE DEF ClosedGone, Gone
<1>0. results \in Seq(Entries) /\ v \in Nat /\ PositionOK /\ HostOK
  BY DEF Typed, ListsOK, PositionOK, SweepAssumption, Variants
<1>1. ASSUME UNCHANGED <<run, server>>, NEW e, ~Gone(e.method),
             results' = Append(results, e)
      PROVE  ClosedGone'
  BY <1>0, <1>1
<1>2. ASSUME NEW reason, NEW ready, UNCHANGED <<run, host>>,
             results' = Append(results, Entry(reason, ready))
      PROVE  ClosedGone'
  <2>1. ~Gone(Entry(reason, ready).method)
    BY DEF Entry
  <2> QED BY <1>1, <1>2, <2>1 DEF host
<1>3. ASSUME UNCHANGED <<run, results>>,
             \A s \in Servers : server[s] \notin Alive => server'[s] \notin Alive,
             \A k \in 1..Len(results) : <<run, k>> \in Servers
      PROVE  ClosedGone'
  BY <1>3
<1>4. ASSUME UNCHANGED <<run, results, server>> PROVE ClosedGone'
  BY <1>4
<1>5. CASE StartSweep
  BY <1>5 DEF StartSweep
<1>6. CASE PrepareVariant
  <2>1. CASE Goto("preflight") /\ UNCHANGED host
    BY <1>4, <2>1 DEF host
  <2> QED BY <1>6, <1>2, <2>1, Zenon DEF PrepareVariant
<1>7. CASE Preflight
  <2>1. CASE Goto("port_check") /\ UNCHANGED host
    BY <1>4, <2>1 DEF host
  <2> QED BY <1>7, <1>2, <2>1, Zenon DEF Preflight
<1>8. CASE PortBusy
  BY <1>8, <1>2, Zenon DEF PortBusy
<1>9. CASE Launch
  <2>1. \A k \in 1..Len(results) : <<run, k>> # me
    BY <1>0, <1>9 DEF Launch, Typed, Progress, BeforeLaunch
  <2>2. \A s : s # me => server'[s] = server[s] \/ s \notin Servers
    BY <1>0, <1>9 DEF Launch, HostOK
  <2>3. \A k \in 1..Len(results) : <<run, k>> \in Servers
    BY <1>0, <1>9 DEF Launch, Typed, Progress, BeforeLaunch, PositionOK, Servers, Variants,
       SweepAssumption
  <2> QED BY <1>9, <2>1, <2>2, <2>3 DEF Launch
<1>10. CASE NotReady
  BY <1>10, <1>2, Zenon DEF NotReady
<1>11. CASE Record
  BY <1>11, <1>2, Zenon DEF Record
<1>12. CASE Terminate
  <2>1. me \in Servers /\ \A k \in 1..Len(results) : <<run, k>> \in Servers
    BY <1>0, <1>12, FileType DEF Terminate, Typed, Progress, Ending, PositionOK, Servers,
       Variants, SweepAssumption
  <2>2. \A s \in Servers : server[s] \notin Alive => server'[s] \notin Alive
    BY <1>0, <1>12, <2>1 DEF Terminate, HostOK, Alive, Holding, Listening, Mute
  <2> QED BY <1>3, <1>12, <2>1, <2>2 DEF Terminate
<1>13. CASE Closing
  <2>1. Len(results) = v /\ me \in Servers /\ v >= 1
    BY <1>0, <1>13, FileType DEF Closing, Typed, Progress, Ending, PositionOK, Variants,
       SweepAssumption
  <2>2. /\ Len(results') = v
        /\ \A k \in 1..v : k # v => results'[k] = results[k]
        /\ results'[v].method = shutdown
    BY <1>0, <1>13, <2>1 DEF Closing, Typed, ListsOK, Entries
  <2>3. Gone(shutdown) => server[me] \notin Alive
    BY <1>13 DEF ShutMeansGone, Closing
  <2>4. UNCHANGED <<run, server>>
    BY <1>13 DEF Closing, host
  <2> QED BY <2>1, <2>2, <2>3, <2>4
<1>14. CASE AlreadyExited \/ KillGroup \/ ShutdownTimesOut \/ ProfileFails
  BY <1>14, <1>4 DEF AlreadyExited, KillGroup, ShutdownTimesOut, ProfileFails, host
<1>15. CASE Poll \/ Probe \/ Report
  BY <1>15, <1>4 DEF Poll, Probe, Report, host
<1>16. CASE CommandSucceeds \/ CommandFails \/ WriteManifest
  BY <1>16, <1>4 DEF CommandSucceeds, CommandFails, WriteManifest, host
<1>17. CASE Crash \/ DeadlinePasses \/ Request \/ UNCHANGED vars
  BY <1>17, <1>4 DEF Crash, DeadlinePasses, Request, vars, driver, host
<1>18. ASSUME NEW s \in Servers, Container(s) PROVE ClosedGone'
  <2>1. UNCHANGED <<run, results>> /\ \A t : t # s => server'[t] = server[t] \/ t \notin Servers
    BY <1>0, <1>18, ContainerStep DEF driver
  <2>2. server[s] \in Alive /\ DOMAIN server' = DOMAIN server
    BY <1>0, <1>18, ContainerStep DEF HostOK
  <2>3. \E state : server' = [server EXCEPT ![s] = state]
    BY <1>18 DEF Container, LauncherFails, DockerRun, Listen, Serve, Hang, Recover,
       ServerExits, Becomes
  <2> QED BY <2>1, <2>2, <2>3
<1>19. ASSUME NEW c \in strays, StrayAsks(c) \/ StrayEnds(c) PROVE ClosedGone'
  BY <1>4, <1>19, StrayStep DEF driver
<1> QED BY <1>5, <1>6, <1>7, <1>8, <1>9, <1>10, <1>11, <1>12, <1>13, <1>14, <1>15, <1>16,
           <1>17, <1>18, <1>19 DEF Next, Driver

LEMMA OrphansStep ==
    ASSUME SweepAssumption, Typed, Orphans, [Next]_vars PROVE Orphans'
BY FreshStep, DetachedStep, AttachedStep, ShutStep, ClosedGoneStep DEF Typed, Orphans

(* Whatever hangs, is killed or crashes: an entry that does not say         *)
(* kill_group speaks of a container that is gone.                           *)
THEOREM ClosedMeansGone == ASSUME SweepAssumption PROVE Spec => []OrphansAreReported
<1>1. Init => Typed /\ Orphans
  BY TypedInit, OrphansInit
<1>2. Typed /\ Orphans /\ [Next]_vars => (Typed /\ Orphans)'
  BY TypedStep, OrphansStep
<1>3. Typed /\ Orphans => OrphansAreReported
  BY DEF Typed, Progress, Orphans, ClosedGone, Gone, OrphansAreReported
<1> QED BY <1>1, <1>2, <1>3, PTL DEF Spec


-----------------------------------------------------------------------------
(* What runs beside the variant at hand was not noticed at its launch, and  *)
(* is there because its own shutdown, or its own sweep, let it go.          *)
Overlooks == pc \in Started \cup {"shutdown"} =>
                \A s \in Servers \ {me} : server[s] \in Alive => s \in unseen

LetGo == \A s \in Servers : server[s] \in Alive =>
            \/ s = me /\ pc \in Started \cup {"shutdown"}
            \/ s \in detached \/ s[1] \in cut

StraysCut == \A c \in strays : c.run \in cut

Others == Overlooks /\ LetGo /\ StraysCut

LEMMA OthersInit == ASSUME SweepAssumption, Init PROVE Others
BY DEF Init, Others, Overlooks, LetGo, StraysCut, Started, Alive, Holding, Listening, Mute

LEMMA OverlooksStep ==
    ASSUME SweepAssumption, PositionOK, HostOK, Overlooks, [Next]_vars PROVE Overlooks'
<1> USE DEF Overlooks
<1>1. ASSUME UNCHANGED <<me, server, unseen>>, pc \in Started \cup {"shutdown"}
      PROVE  Overlooks'
  BY <1>1
<1>2. ASSUME pc' \notin Started \cup {"shutdown"} PROVE Overlooks'
  BY <1>2
<1>3. CASE PrepareVariant \/ Preflight \/ PortBusy
  <2>1. pc' \in BeforeLaunch \cup {"report"}
    BY <1>3, Zenon DEF PrepareVariant, Preflight, PortBusy, BeforeLaunch
  <2> QED BY <1>2, <2>1 DEF BeforeLaunch, Started
<1>4. CASE StartSweep \/ AlreadyExited \/ Terminate \/ KillGroup \/ ShutdownTimesOut
  BY <1>2, <1>4 DEF StartSweep, AlreadyExited, Terminate, KillGroup, ShutdownTimesOut,
     Started
<1>5. CASE Closing \/ ProfileFails \/ Report \/ WriteManifest \/ Crash
  BY <1>2, <1>5 DEF Closing, ProfileFails, Report, WriteManifest, Crash, Started
<1>6. CASE Launch
  BY <1>6 DEF Launch, Overlooked, EndpointOpen, HostOK
<1>7. CASE NotReady \/ Poll \/ Probe \/ Record
  BY <1>1, <1>7 DEF NotReady, Poll, Probe, Record, Started, host, noted
<1>8. CASE CommandSucceeds \/ CommandFails
  BY <1>1, <1>8 DEF CommandSucceeds, CommandFails, Started, Kinds, host, noted
<1>9. CASE DeadlinePasses \/ Request \/ UNCHANGED vars
  BY <1>9 DEF DeadlinePasses, Request, vars, driver, host, noted
<1>10. ASSUME NEW s \in Servers, Container(s) PROVE Overlooks'
  BY <1>10, ContainerStep DEF driver, noted
<1>11. ASSUME NEW c \in strays, StrayAsks(c) \/ StrayEnds(c) PROVE Overlooks'
  BY <1>11, StrayStep DEF driver, noted
<1> QED BY <1>3, <1>4, <1>5, <1>6, <1>7, <1>8, <1>9, <1>10, <1>11 DEF Next, Driver

LEMMA LetGoStep ==
    ASSUME SweepAssumption, PositionOK, HostOK, LetGo, [Next]_vars PROVE LetGo'
<1> USE DEF LetGo
<1>1. ASSUME UNCHANGED <<server, detached, cut>>,
             \/ pc \notin Started \cup {"shutdown"}
             \/ UNCHANGED me /\ pc' \in Started \cup {"shutdown"}
      PROVE  LetGo'
  BY <1>1
<1>2. CASE PrepareVariant \/ Preflight \/ PortBusy
  <2>1. pc \in BeforeLaunch /\ UNCHANGED <<host, noted>>
    BY <1>2, Zenon DEF PrepareVariant, Preflight, PortBusy, BeforeLaunch
  <2> QED BY <1>1, <2>1 DEF BeforeLaunch, Started, host, noted
<1>3. CASE Launch
  BY <1>3 DEF Launch, HostOK, Started
<1>4. CASE AlreadyExited
  BY <1>4 DEF AlreadyExited, Exited, noted
<1>5. CASE Terminate
  <2>1. server'[me] \notin Alive
    BY <1>5, FileType DEF Terminate, HostOK, Alive, Holding, Listening, Mute
  <2> QED BY <1>5, <2>1 DEF Terminate, HostOK
<1>6. CASE KillGroup
  BY <1>6 DEF KillGroup
<1>7. CASE ShutdownTimesOut \/ Crash
  BY <1>7 DEF ShutdownTimesOut, Crash, host
<1>8. CASE NotReady \/ Poll \/ Probe \/ Record
  BY <1>1, <1>8 DEF NotReady, Poll, Probe, Record, Started, host, noted
<1>9. CASE CommandSucceeds \/ CommandFails
  BY <1>1, <1>9 DEF CommandSucceeds, CommandFails, AfterCommand, Started, host, noted
<1>10. CASE StartSweep \/ Closing \/ ProfileFails \/ Report \/ WriteManifest
  BY <1>1, <1>10 DEF StartSweep, Closing, ProfileFails, Report, WriteManifest, Started,
     host, noted
<1>11. CASE DeadlinePasses \/ Request \/ UNCHANGED vars
  BY <1>11 DEF DeadlinePasses, Request, vars, driver, host, noted
<1>12. ASSUME NEW s \in Servers, Container(s) PROVE LetGo'
  BY <1>12, ContainerStep DEF driver, noted
<1>13. ASSUME NEW c \in strays, StrayAsks(c) \/ StrayEnds(c) PROVE LetGo'
  BY <1>13, StrayStep DEF driver, noted
<1> QED BY <1>2, <1>3, <1>4, <1>5, <1>6, <1>7, <1>8, <1>9, <1>10, <1>11, <1>12, <1>13
        DEF Next, Driver

LEMMA StraysStep == ASSUME StraysCut, [Next]_vars PROVE StraysCut'
<1> USE DEF StraysCut
<1>1. ASSUME UNCHANGED <<strays, cut>> PROVE StraysCut'
  BY <1>1
<1>2. CASE Crash
  BY <1>2 DEF Crash
<1>3. CASE ShutdownTimesOut
  BY <1>3 DEF ShutdownTimesOut, host
<1>4. ASSUME NEW c \in strays, StrayAsks(c) \/ StrayEnds(c) PROVE StraysCut'
  BY <1>4 DEF StrayAsks, StrayEnds, host, noted
<1>5. ASSUME NEW s \in Servers, Container(s) PROVE StraysCut'
  BY <1>1, <1>5 DEF Container, LauncherFails, DockerRun, Listen, Serve, Hang, Recover,
     ServerExits, Becomes, noted
<1> QED BY <1>1, <1>2, <1>3, <1>4, <1>5
        DEF Next, Driver, StartSweep, PrepareVariant, Preflight, PortBusy, Launch, NotReady,
            Poll, Probe, Request, CommandSucceeds, CommandFails, Record, AlreadyExited,
            Terminate, KillGroup, Closing, ProfileFails, Report, WriteManifest,
            DeadlinePasses, vars, host, noted

(* Which steps write records, and whose.                                    *)
LEMMA RecordsStep ==
    ASSUME [Next]_vars
    PROVE  \/ Request \/ UNCHANGED records \/ \E c \in strays : StrayAsks(c)
<1>1. ASSUME NEW s \in Servers, Container(s) PROVE UNCHANGED records
  BY <1>1 DEF Container, LauncherFails, DockerRun, Listen, Serve, Hang, Recover, ServerExits,
     Becomes, files
<1>2. ASSUME NEW c \in strays, StrayEnds(c) PROVE UNCHANGED records
  BY <1>2 DEF StrayEnds
<1> QED BY <1>1, <1>2, Zenon
        DEF Next, Driver, StartSweep, PrepareVariant, Preflight, PortBusy, Launch, NotReady,
            Poll, Probe, CommandSucceeds, CommandFails, Record, AlreadyExited, Terminate,
            KillGroup, ShutdownTimesOut, Closing, ProfileFails, Report, WriteManifest,
            DeadlinePasses, Crash, vars, files

LEMMA AskWrites ==
    ASSUME FilesOK, NEW kind \in Kinds, NEW r, NEW w, FileOf(r, w) \in Servers,
           Ask(kind, r, w), NEW k \in Kinds, NEW f \in Servers,
           NEW e \in records'[k][f] \ records[k][f]
    PROVE  f = FileOf(r, w) /\ e.run = r /\ e.by \in Answering \cup {None}
<1>1. PICK by \in Answering \cup {None} :
         records' = [records EXCEPT ![kind][FileOf(r, w)] = @ \cup {[run |-> r, by |-> by]}]
  BY DEF Ask
<1>2. e = [run |-> r, by |-> by] /\ f = FileOf(r, w)
  BY <1>1 DEF FilesOK
<1> QED BY <1>2

LEMMA AttributedStep ==
    ASSUME SweepAssumption, Typed, Others, [Next]_vars,
           NEW k \in Kinds, NEW f \in Servers, NEW e \in records'[k][f] \ records[k][f],
           e.run \notin cut
    PROVE  e.by \in {None, <<e.run, f[2]>>} \cup unseen
<1>1. CASE Request
  <2>1. pc \in Kinds /\ file \in Servers /\ Ask(pc, run, v)
    BY <1>1, FileType DEF Typed, Request, Kinds
  <2>2. f = file /\ e.run = run /\ e.by \in Answering \cup {None}
    BY <2>1, AskWrites DEF Typed
  <2>3. f[2] = v
    BY <2>2 DEF FileOf
  <2>4. \A s \in Answering : s = me \/ s \in unseen
    BY <2>1 DEF Answering, Others, Overlooks, Started, Kinds, Alive, Holding, Listening
  <2> QED BY <2>2, <2>3, <2>4
<1>2. ASSUME NEW c \in strays, StrayAsks(c) PROVE FALSE
  <2>1. c.kind \in Kinds /\ FileOf(c.run, c.variant) \in Servers /\ c.run \in cut
    BY DEF Typed, NotedOK, Commands, FileOf, Servers, Runs, Variants, SweepAssumption,
       Others, StraysCut
  <2>2. Ask(c.kind, c.run, c.variant)
    BY <1>2 DEF StrayAsks
  <2>3. e.run = c.run
    BY <2>1, <2>2, AskWrites DEF Typed
  <2> QED BY <2>1, <2>3
<1> QED BY <1>1, <1>2, RecordsStep

LEMMA OthersInvariant == ASSUME SweepAssumption PROVE Spec => [](Typed /\ Others)
<1>1. Init => Typed /\ Others
  BY TypedInit, OthersInit
<1>2. Typed /\ Others /\ [Next]_vars => (Typed /\ Others)'
  BY TypedStep, OverlooksStep, LetGoStep, StraysStep DEF Typed, Others
<1> QED BY <1>1, <1>2, PTL DEF Spec

(* Whatever hangs, is killed or outlives its sweep: what a sweep that is    *)
(* not cut off records comes from its own server, or from one that the port *)
(* check could not see.                                                     *)
THEOREM RecordsAreAttributed == ASSUME SweepAssumption PROVE Spec => AttributedRecords
<1>1. Typed /\ Others /\ [Next]_vars =>
        [\A k \in Kinds, f \in Servers : \A r \in records'[k][f] \ records[k][f] :
           r.run \notin cut => r.by \in {None, <<r.run, f[2]>>} \cup unseen]_vars
  BY AttributedStep
<1> QED BY <1>1, OthersInvariant, PTL DEF Spec, AttributedRecords

(* ... and a container that runs beside a variant's measurement escaped its *)
(* own shutdown as well as the port check.                                  *)
THEOREM VariantsRunAlone == ASSUME SweepAssumption PROVE Spec => []MeasuredAlone
<1>1. Typed /\ Others => MeasuredAlone
  BY DEF Others, Overlooks, LetGo, MeasuredAlone, Started, Kinds
<1> QED BY <1>1, OthersInvariant, PTL

-----------------------------------------------------------------------------
(* Sweeps that each have a run prefix of their own: of a variant whose      *)
(* benchmark has not begun there are no files.                              *)
Unmeasured(r, w) ==
    \/ r > run
    \/ r = run /\ pc \notin Ended
       /\ (w > v \/ (w = v /\ pc \in BeforeLaunch \cup {"poll", "probe"}))

NoFiles == \A r \in Runs, w \in Variants :
              Unmeasured(r, w) => records["benchmark"][<<r, w>>] = {} /\ meta[<<r, w>>] = 0

(* A benchmark manifest is one of its own run, which has records.           *)
Manifested == \A r \in Runs, w \in Variants : meta[<<r, w>>] # 0 =>
                 meta[<<r, w>>] = r /\ OwnRecords("benchmark", r, w) # {}

(* What outlives a sweep writes neither the files of a sweep that runs nor  *)
(* those that a sweep manifest speaks of.                                   *)
Apart == \A c \in strays : /\ c.run <= run /\ c.run # manifest.run
                           /\ c.run = run => pc \in Ended

(* Records are those of variants that were ready, in this sweep and in the  *)
(* one that wrote the manifest.                                             *)
OfReady(r, entries) ==
    \A i \in 1..Len(entries) : records["benchmark"][<<r, i>>] # {} => entries[i].ready

Rows == /\ pc \notin Ended => OfReady(run, results)
        /\ manifest.run # 0 => OfReady(manifest.run, manifest.results)

Latest == /\ manifest.run <= run
          /\ manifest.run = run => pc \in Ended
          /\ manifest.run = 0 => manifest.results = <<>>
          /\ \A i \in 1..Len(manifest.results) : manifest.results[i].variant = i

Filed == NoFiles /\ Manifested /\ Apart /\ Rows /\ Latest /\ ProfileOfOwnBenchmark

LEMMA FiledInit == ASSUME SweepAssumption, Init PROVE Filed
<1> USE DEF Init, SweepAssumption
<1>1. NoFiles /\ Manifested /\ Apart
  BY DEF NoFiles, Manifested, Apart, Servers, Kinds
<1>2. Rows /\ Latest /\ ProfileOfOwnBenchmark
  BY DEF Rows, OfReady, Latest, NoResults, ProfileOfOwnBenchmark
<1> QED BY <1>1, <1>2 DEF Filed

(* What a step can do to files, entries and manifest.                       *)
SkipReasons == {"pre_variant_command_failed", "lfb_free_blocks", "runtime_missing",
                "server_port_still_open_before_start"}

Skips == pc \in BeforeLaunch /\ \E reason \in SkipReasons : Skip(reason)

Onwards == \/ pc' = pc \/ pc' \in Ended
           \/ pc \in BeforeLaunch /\ pc' \in BeforeLaunch \cup {"poll"}
           \/ pc \in {"poll", "probe"} /\ pc' \in {"poll", "probe"}
           \/ pc = "probe" /\ pc' = "benchmark"
           \/ pc = "shutdown" /\ pc' = "closing"
           \/ pc = "report" /\ pc' = "manifest"

Moves == Onwards /\ UNCHANGED <<run, v, rc, results, reported, records, meta, manifest>>

StraySteps == \E c \in strays : StrayAsks(c) \/ StrayEnds(c)

LEMMA KindsOfSteps ==
    ASSUME [Next]_vars
    PROVE  \/ StartSweep \/ Skips \/ NotReady \/ Record \/ Closing \/ WriteManifest
           \/ CommandSucceeds \/ CommandFails \/ Request \/ StraySteps \/ Moves
<1>1. CASE PrepareVariant \/ Preflight
  <2>1. pc \in BeforeLaunch
    BY <1>1, Zenon DEF PrepareVariant, Preflight, BeforeLaunch
  <2>2. CASE \E step \in {"preflight", "port_check"} :
                Goto(step) /\ UNCHANGED <<host, noted, files>>
    BY <2>1, <2>2 DEF Moves, Onwards, BeforeLaunch, files
  <2>3. CASE \E reason \in SkipReasons : Skip(reason)
    BY <2>1, <2>3 DEF Skips
  <2>4. \/ \E step \in {"preflight", "port_check"} :
              Goto(step) /\ UNCHANGED <<host, noted, files>>
        \/ \E reason \in SkipReasons : Skip(reason)
    BY <1>1, Zenon DEF PrepareVariant, Preflight, SkipReasons
  <2> QED BY <2>2, <2>3, <2>4
<1>2. CASE PortBusy
  <2>1. pc \in BeforeLaunch /\ \E reason \in SkipReasons : Skip(reason)
    BY <1>2, Zenon DEF PortBusy, BeforeLaunch, SkipReasons
  <2> QED BY <2>1 DEF Skips
<1>3. CASE Launch \/ Poll \/ Probe
  BY <1>3 DEF Launch, Poll, Probe, Moves, Onwards, BeforeLaunch, files
<1>4. CASE AlreadyExited \/ Terminate \/ KillGroup \/ ShutdownTimesOut
  BY <1>4 DEF AlreadyExited, Terminate, KillGroup, ShutdownTimesOut, Moves, Onwards, files
<1>5. CASE ProfileFails \/ Report \/ Crash \/ DeadlinePasses \/ UNCHANGED vars
  BY <1>5 DEF ProfileFails, Report, Crash, Breaks, DeadlinePasses, vars, driver, files,
     Moves, Onwards
<1>6. ASSUME NEW s \in Servers, Container(s) PROVE Moves
  BY <1>6 DEF Container, LauncherFails, DockerRun, Listen, Serve, Hang, Recover, ServerExits,
     Becomes, driver, files, Moves, Onwards
<1> QED BY <1>1, <1>2, <1>3, <1>4, <1>5, <1>6 DEF Next, Driver, StraySteps

(* The variant at hand, its files, and where its entry goes.                *)
LEMMA AtVariant ==
    ASSUME SweepAssumption, FreshPrefix, Typed, pc \notin Ended
    PROVE  /\ file = <<run, v>> /\ run \in Runs /\ v \in Variants /\ <<run, v>> \in Servers
           /\ pc \in BeforeLaunch \cup Started => Len(results) = v - 1
           /\ pc \in Ending => Len(results) = v
BY DEF FileOf, Typed, PositionOK, Progress, Servers

(* A command at work: of the sweep that runs, or outliving its own.         *)
AtWork(kind, r, w) == \/ pc = kind /\ r = run /\ w = v
                      \/ [run |-> r, variant |-> w, kind |-> kind] \in strays

LEMMA WorkIsApart ==
    ASSUME SweepAssumption, Typed, Apart, Latest,
           NEW kind \in Kinds, NEW r \in Runs, NEW w \in Variants, AtWork(kind, r, w)
    PROVE  /\ ~Unmeasured(r, w) /\ r # manifest.run
           /\ pc \notin Ended /\ r = run => pc = kind /\ w = v
<1>1. run \in Int /\ r \in Int /\ v \in Int
  BY DEF Typed, PositionOK, Runs, Variants, SweepAssumption
<1>2. CASE pc = kind /\ r = run /\ w = v
  BY <1>1, <1>2 DEF Unmeasured, Latest, Kinds, BeforeLaunch
<1>3. CASE [run |-> r, variant |-> w, kind |-> kind] \in strays
  BY <1>1, <1>3 DEF Unmeasured, Apart
<1> QED BY <1>2, <1>3 DEF AtWork

Asks(kind, r, w) == Ask(kind, r, w) /\ UNCHANGED <<driver, meta, manifest>>
Ends(kind, r, w) == /\ Documents(kind, r, w) \/ Breaks(kind, r, w)
                    /\ UNCHANGED <<run, v, results, records, manifest>>

(* Only a command at work changes the files.                                *)
LEMMA WhoWrites ==
    ASSUME SweepAssumption, Typed, [Next]_vars
    PROVE  \/ UNCHANGED <<records, meta>>
           \/ \E kind \in Kinds, r \in Runs, w \in Variants :
                 AtWork(kind, r, w) /\ (Asks(kind, r, w) \/ Ends(kind, r, w))
<1>1. CASE Request \/ CommandSucceeds \/ CommandFails
  <2>1. pc \in Kinds /\ run \in Runs /\ v \in Variants /\ AtWork(pc, run, v)
    BY <1>1 DEF Typed, PositionOK, Request, CommandSucceeds, CommandFails, Kinds, AtWork
  <2>2. Asks(pc, run, v) \/ Ends(pc, run, v)
    BY <1>1, Zenon DEF Request, CommandSucceeds, CommandFails, Asks, Ends
  <2> QED BY <2>1, <2>2
<1>2. CASE StraySteps
  <2>1. PICK c \in strays : StrayAsks(c) \/ StrayEnds(c)
    BY <1>2 DEF StraySteps
  <2>2. /\ c.kind \in Kinds /\ c.run \in Runs /\ c.variant \in Variants
        /\ AtWork(c.kind, c.run, c.variant)
    BY DEF Typed, NotedOK, Commands, AtWork
  <2>3. Asks(c.kind, c.run, c.variant) \/ Ends(c.kind, c.run, c.variant)
    BY <2>1 DEF StrayAsks, StrayEnds, Asks, Ends, driver
  <2> QED BY <2>2, <2>3
<1>3. CASE StartSweep \/ Skips \/ NotReady \/ Record \/ Closing \/ WriteManifest \/ Moves
  BY <1>3 DEF StartSweep, Skips, NotReady, Record, Closing, WriteManifest, Moves, files
<1> QED BY <1>1, <1>2, <1>3, KindsOfSteps

(* It adds to its own file.                                                 *)
LEMMA WhatIsAsked ==
    ASSUME SweepAssumption, FreshPrefix, Typed,
           NEW kind \in Kinds, NEW r \in Runs, NEW w \in Variants, Asks(kind, r, w)
    PROVE  /\ \A k \in Kinds, f \in Servers : records[k][f] \subseteq records'[k][f]
           /\ \A k \in Kinds, f \in Servers :
                 f # <<r, w>> => records'[k][f] = records[k][f]
<1>1. PICK new : records' = [records EXCEPT ![kind][<<r, w>>] = @ \cup new]
  BY DEF Asks, Ask, FileOf
<1>2. <<r, w>> \in Servers /\ records \in [Kinds -> [Servers -> SUBSET Written]]
  BY DEF Servers, Typed, FilesOK
<1> QED BY <1>1, <1>2

LEMMA WhatIsEnded ==
    ASSUME SweepAssumption, FreshPrefix, Typed,
           NEW kind \in Kinds, NEW r \in Runs, NEW w \in Variants, Ends(kind, r, w),
           NEW f \in Servers, meta'[f] # meta[f]
    PROVE  f = <<r, w>> /\ meta'[f] = r /\ OwnRecords("benchmark", r, w) # {}
<1>1. meta \in [Servers -> {0} \cup Runs]
  BY DEF Typed, FilesOK
<1>2. \/ meta' = meta
      \/ meta' = [meta EXCEPT ![<<r, w>>] = r] /\ OwnRecords("benchmark", r, w) # {}
  BY Zenon DEF Ends, Documents, Breaks, FileOf
<1> QED BY <1>1, <1>2

LEMMA UnmeasuredBefore ==
    ASSUME SweepAssumption, Typed, [Next]_vars, NEW r \in Runs, NEW w \in Variants,
           Unmeasured(r, w)'
    PROVE  Unmeasured(r, w)
<1> USE DEF Unmeasured
<1>0. v \in Int /\ run \in Int /\ r \in Int /\ w \in Int
  BY DEF Typed, PositionOK, Runs, Variants, SweepAssumption
<1>1. ASSUME UNCHANGED run, pc \notin Ended,
             \/ pc' \in Ended
             \/ v' = v /\ (pc' \in BeforeLaunch \cup {"poll", "probe"} =>
                             pc \in BeforeLaunch \cup {"poll", "probe"})
             \/ v' = v + 1
      PROVE  Unmeasured(r, w)
  BY <1>0, <1>1
<1>2. CASE StartSweep
  BY <1>0, <1>2 DEF StartSweep
<1>3. CASE Skips
  BY <1>1, <1>3 DEF Skips, BeforeLaunch
<1>4. CASE NotReady \/ Record \/ CommandSucceeds \/ CommandFails
  BY <1>1, <1>4 DEF NotReady, Record, CommandSucceeds, CommandFails, AfterCommand, Kinds,
     BeforeLaunch
<1>5. CASE Closing \/ WriteManifest
  BY <1>1, <1>5 DEF Closing, WriteManifest, BeforeLaunch
<1>6. CASE Request \/ StraySteps
  BY <1>6, StrayStep DEF Request, StraySteps, driver
<1>7. CASE Moves
  <2>1. CASE pc \in Ended
    BY <1>7, <2>1 DEF Moves, Onwards, BeforeLaunch
  <2>2. CASE pc \notin Ended
    BY <1>1, <1>7, <2>2 DEF Moves, Onwards, BeforeLaunch
  <2> QED BY <2>1, <2>2
<1> QED BY <1>2, <1>3, <1>4, <1>5, <1>6, <1>7, KindsOfSteps

LEMMA NoFilesStep ==
    ASSUME SweepAssumption, FreshPrefix, Typed, Apart, Latest, NoFiles, [Next]_vars
    PROVE  NoFiles'
<1> SUFFICES ASSUME NEW r \in Runs, NEW w \in Variants, Unmeasured(r, w)'
             PROVE  records'["benchmark"][<<r, w>>] = {} /\ meta'[<<r, w>>] = 0
  BY DEF NoFiles
<1>1. /\ Unmeasured(r, w) /\ <<r, w>> \in Servers /\ "benchmark" \in Kinds
      /\ records["benchmark"][<<r, w>>] = {} /\ meta[<<r, w>>] = 0
  BY UnmeasuredBefore DEF NoFiles, Servers, Kinds
<1>2. ASSUME NEW kind \in Kinds, NEW q \in Runs, NEW x \in Variants, AtWork(kind, q, x),
             Asks(kind, q, x) \/ Ends(kind, q, x)
      PROVE  records'["benchmark"][<<r, w>>] = {} /\ meta'[<<r, w>>] = 0
  <2>1. <<r, w>> # <<q, x>>
    BY <1>1, <1>2, WorkIsApart
  <2>2. CASE Asks(kind, q, x)
    BY <1>1, <2>1, <2>2, WhatIsAsked DEF Asks
  <2>3. CASE Ends(kind, q, x)
    <3>1. meta'[<<r, w>>] = meta[<<r, w>>]
      BY <1>1, <2>1, <2>3, WhatIsEnded
    <3>2. UNCHANGED records
      BY <2>3 DEF Ends
    <3> QED BY <1>1, <2>1, <3>1, <3>2
  <2> QED BY <1>2, <2>2, <2>3
<1> QED BY <1>1, <1>2, WhoWrites

(* Own records stay.                                                        *)
LEMMA RecordsGrow ==
    ASSUME SweepAssumption, FreshPrefix, Typed, [Next]_vars, NEW r \in Runs, NEW w \in Variants
    PROVE  OwnRecords("benchmark", r, w) # {} =>
              \E e \in records'["benchmark"][<<r, w>>] : e.run = r
<1>1. <<r, w>> \in Servers /\ "benchmark" \in Kinds
  BY DEF Servers, Kinds
<1>2. records["benchmark"][<<r, w>>] \subseteq records'["benchmark"][<<r, w>>]
  BY <1>1, WhoWrites, WhatIsAsked DEF Ends
<1> QED BY <1>2 DEF OwnRecords, FileOf

LEMMA ManifestedStep ==
    ASSUME SweepAssumption, FreshPrefix, Typed, Manifested, [Next]_vars
    PROVE  Manifested'
<1> SUFFICES ASSUME NEW r \in Runs, NEW w \in Variants, meta'[<<r, w>>] # 0
             PROVE  /\ meta'[<<r, w>>] = r
                    /\ \E e \in records'["benchmark"][<<r, w>>] : e.run = r
  BY DEF Manifested, OwnRecords, FileOf
<1>0. <<r, w>> \in Servers
  BY DEF Servers
<1>1. CASE meta'[<<r, w>>] = meta[<<r, w>>]
  <2>1. meta[<<r, w>>] = r /\ OwnRecords("benchmark", r, w) # {}
    BY <1>1, Zenon DEF Manifested
  <2> QED BY <1>1, <2>1, RecordsGrow
<1>2. CASE meta'[<<r, w>>] # meta[<<r, w>>]
  <2>1. PICK kind \in Kinds, q \in Runs, x \in Variants : Ends(kind, q, x)
    BY <1>2, WhoWrites DEF Asks
  <2>2. /\ <<q, x>> = <<r, w>> /\ meta'[<<r, w>>] = q
        /\ OwnRecords("benchmark", q, x) # {}
    BY <1>0, <1>2, <2>1, WhatIsEnded
  <2>3. q = r /\ x = w
    BY <2>2
  <2> QED BY <2>2, <2>3, RecordsGrow
<1> QED BY <1>1, <1>2

LEMMA ApartStep ==
    ASSUME SweepAssumption, Typed, Apart, Latest, [Next]_vars PROVE Apart'
<1> USE DEF Apart
<1>0. /\ run \in Int /\ \A c \in strays : c.run \in Int
      /\ pc \notin Ended => manifest.run # run
  BY DEF Typed, PositionOK, NotedOK, Commands, Runs, SweepAssumption, Latest
<1>1. ASSUME UNCHANGED <<run, manifest>>, strays' \subseteq strays,
             pc \in Ended => pc' \in Ended
      PROVE  Apart'
  BY <1>1
<1>2. CASE StartSweep
  BY <1>0, <1>2 DEF StartSweep, host, files
<1>3. CASE Crash
  <2>1. pc \notin Ended /\ UNCHANGED <<run, manifest>> /\ pc' \in Ended
    BY <1>3 DEF Crash, SweepAssumption
  <2>2. strays' \subseteq strays \cup {[run |-> run, variant |-> v, kind |-> pc]}
    BY <1>3 DEF Crash
  <2> QED BY <1>0, <2>1, <2>2
<1>4. CASE WriteManifest
  BY <1>0, <1>4 DEF WriteManifest, host
<1>5. CASE StraySteps
  BY <1>1, <1>5, StrayStep DEF StraySteps, StrayAsks, StrayEnds, driver, host
<1>6. CASE PrepareVariant \/ Preflight \/ PortBusy
  <2>1. UNCHANGED <<run, host, files>> /\ pc \notin Ended
    BY <1>6, Zenon DEF PrepareVariant, Preflight, PortBusy
  <2> QED BY <1>1, <2>1 DEF host, files
<1>7. CASE Launch \/ NotReady \/ Poll \/ Probe \/ Record
  BY <1>1, <1>7 DEF Launch, NotReady, Poll, Probe, Record, host, files
<1>8. CASE Request \/ CommandSucceeds \/ CommandFails
  BY <1>1, <1>8 DEF Request, CommandSucceeds, CommandFails, Kinds, driver, host
<1>9. CASE AlreadyExited \/ Terminate \/ KillGroup \/ ShutdownTimesOut
  BY <1>1, <1>9 DEF AlreadyExited, Terminate, KillGroup, ShutdownTimesOut, host, files
<1>10. CASE Closing \/ ProfileFails \/ Report \/ DeadlinePasses \/ UNCHANGED vars
  BY <1>1, <1>10 DEF Closing, ProfileFails, Report, DeadlinePasses, vars, driver, host, files
<1>11. ASSUME NEW s \in Servers, Container(s) PROVE Apart'
  BY <1>1, <1>11 DEF Container, LauncherFails, DockerRun, Listen, Serve, Hang, Recover,
     ServerExits, Becomes, driver, files
<1> QED BY <1>2, <1>3, <1>4, <1>5, <1>6, <1>7, <1>8, <1>9, <1>10, <1>11
        DEF Next, Driver, StraySteps

LEMMA LatestStep ==
    ASSUME SweepAssumption, Typed, Latest, [Next]_vars PROVE Latest'
<1> USE DEF Latest
<1>0. PositionOK /\ ListsOK /\ run \in Nat /\ manifest.run \in Nat
  BY DEF Typed, PositionOK, ListsOK, Runs, SweepAssumption
<1>1. ASSUME UNCHANGED <<run, manifest>>, pc \in Ended => pc' \in Ended
      PROVE  Latest'
  BY <1>1
<1>2. CASE StartSweep
  BY <1>0, <1>2 DEF StartSweep, files
<1>3. CASE WriteManifest
  BY <1>0, <1>3 DEF WriteManifest, Typed, Progress, PositionOK, Runs, SweepAssumption
<1>4. CASE Skips \/ NotReady \/ Record \/ Closing
  BY <1>1, <1>4 DEF Skips, NotReady, Record, Closing, files, BeforeLaunch
<1>5. CASE CommandSucceeds \/ CommandFails \/ Request \/ StraySteps
  BY <1>1, <1>5, StrayStep
     DEF CommandSucceeds, CommandFails, Request, StraySteps, Kinds, driver
<1>6. CASE Moves
  BY <1>1, <1>6 DEF Moves, Onwards, BeforeLaunch
<1> QED BY <1>2, <1>3, <1>4, <1>5, <1>6, KindsOfSteps

LEMMA PlanBound ==
    ASSUME Typed, Latest
    PROVE  /\ \A i \in 1..Len(results) : i \in Variants
           /\ \A i \in 1..Len(manifest.results) : i \in Variants
<1>1. results \in Seq(Entries) /\ manifest.results \in Seq(Entries)
  BY DEF Typed, ListsOK
<1>2. \A e \in Entries : e.variant \in Variants
  BY DEF Entries
<1>3. \A s \in Seq(Entries), i \in 1..Len(results) \cup 1..Len(manifest.results) :
        i \in 1..Len(s) => s[i] \in Entries
  OBVIOUS
<1> QED BY <1>1, <1>2, <1>3 DEF Typed, Progress, Latest

LEMMA RowsStep ==
    ASSUME SweepAssumption, FreshPrefix, Typed, NoFiles, Apart, Rows, Latest, [Next]_vars
    PROVE  Rows'
<1> USE DEF Rows, OfReady
<1>0. /\ PositionOK /\ ListsOK /\ FilesOK /\ v \in Nat
      /\ results \in Seq(Entries) /\ manifest.results \in Seq(Entries)
  BY DEF Typed, PositionOK, ListsOK, Variants, SweepAssumption
<1>1. ASSUME UNCHANGED <<run, results, records, manifest>>, pc \in Ended => pc' \in Ended
      PROVE  Rows'
  BY <1>1
<1>2. ASSUME NEW e, results' = Append(results, e), UNCHANGED <<run, records, manifest>>,
             pc \notin Ended, Len(results) = v - 1,
             records["benchmark"][<<run, v>>] # {} => e.ready
      PROVE  Rows'
  <2>1. Len(results') = v /\ results'[v] = e /\ \A i \in 1..Len(results) : results'[i] = results[i]
    <3>1. v = Len(results) + 1
      BY <1>0, <1>2
    <3> QED BY <1>0, <1>2, <3>1
  <2>2. \A i \in 1..v : i = v \/ i \in 1..Len(results)
    BY <1>0, <1>2
  <2> QED BY <1>2, <2>1, <2>2
<1>3. CASE StartSweep
  BY <1>3 DEF StartSweep, files
<1>4. CASE Skips \/ NotReady
  <2>1. pc \in BeforeLaunch \cup {"poll"} /\ pc \notin Ended
    BY <1>4 DEF Skips, NotReady, BeforeLaunch
  <2>2. records["benchmark"][<<run, v>>] = {} /\ Len(results) = v - 1
    BY <1>0, <2>1, AtVariant DEF NoFiles, Unmeasured, PositionOK, Started
  <2>3. \E reason : results' = Append(results, Entry(reason, FALSE))
    BY <1>4, Zenon DEF Skips, NotReady
  <2>4. UNCHANGED <<run, records, manifest>>
    BY <1>4 DEF Skips, NotReady, files
  <2> QED BY <1>2, <2>1, <2>2, <2>3, <2>4
<1>5. CASE Record
  <2>1. Len(results) = v - 1
    BY <1>5, AtVariant DEF Record, Started
  <2>2. Entry("none", TRUE).ready
    BY DEF Entry
  <2> QED BY <1>2, <1>5, <2>1, <2>2 DEF Record, files
<1>6. CASE Closing
  <2>1. Len(results') = Len(results) /\ \A i \in 1..Len(results) : results'[i].ready = results[i].ready
    BY <1>0, <1>6 DEF Closing, Entries
  <2> QED BY <1>6, <2>1 DEF Closing, files
<1>7. CASE WriteManifest
  BY <1>7 DEF WriteManifest
<1>8. CASE Request \/ StraySteps
  <2>0. UNCHANGED <<driver, manifest>>
    BY <1>8, StrayStep DEF Request, StraySteps
  <2>1. CASE UNCHANGED records
    BY <1>1, <2>0, <2>1 DEF driver
  <2>2. ASSUME NEW kind \in Kinds, NEW r \in Runs, NEW w \in Variants, AtWork(kind, r, w),
               Asks(kind, r, w)
        PROVE  Rows'
    <3>1. r # manifest.run /\ (pc \notin Ended /\ r = run => pc = kind /\ w = v)
      BY <2>2, WorkIsApart
    <3>2. \A q, i : <<q, i>> \in Servers /\ <<q, i>> # <<r, w>> =>
             records'["benchmark"][<<q, i>>] = records["benchmark"][<<q, i>>]
      BY <2>2, WhatIsAsked DEF Kinds
    <3>3. pc \notin Ended => \A i \in 1..Len(results) :
             <<run, i>> \in Servers /\ (r = run => i # w)
      <4>1. \A i \in 1..Len(results) : i \in Variants
        BY <1>0, PlanBound
      <4>2. pc \notin Ended /\ r = run => Len(results) = v - 1 /\ w = v
        BY <3>1, AtVariant DEF Kinds, Started
      <4> QED BY <1>0, <4>1, <4>2 DEF Servers, PositionOK
    <3>4. manifest.run # 0 => \A i \in 1..Len(manifest.results) :
             <<manifest.run, i>> \in Servers
      BY <1>0, PlanBound DEF ListsOK, Servers
    <3> QED BY <2>0, <3>1, <3>2, <3>3, <3>4 DEF driver
  <2> QED BY <2>1, <2>2, WhoWrites DEF Ends
<1>9. CASE CommandSucceeds \/ CommandFails \/ Moves
  BY <1>1, <1>9 DEF CommandSucceeds, CommandFails, Kinds, Moves, Onwards, BeforeLaunch
<1> QED BY <1>3, <1>4, <1>5, <1>6, <1>7, <1>8, <1>9, KindsOfSteps

LEMMA ProfileStep ==
    ASSUME SweepAssumption, FreshPrefix, Typed, Manifested, ProfileOfOwnBenchmark, [Next]_vars
    PROVE  ProfileOfOwnBenchmark'
<1> DEFINE Recorded(w) == \E r \in records'["benchmark"][<<run, w>>] : r.run = run
           Own(e) == e.profile # 0 => e.profile = run /\ Recorded(e.variant)
<1>0. /\ results \in Seq(Entries) /\ v \in Nat /\ Len(results) \in Nat
      /\ \A i \in 1..Len(results) : /\ results[i].variant \in Variants
                                    /\ results[i].profile \in {0} \cup Runs
  <2>1. results \in Seq(Entries) /\ v \in Nat
    BY DEF Typed, ListsOK, PositionOK, Variants, SweepAssumption
  <2>2. \A e \in Entries : e.variant \in Variants /\ e.profile \in {0} \cup Runs
    BY DEF Entries
  <2> HIDE DEF Own, Recorded
  <2> QED BY <2>1, <2>2
<1>1. \A i \in 1..Len(results) : Own(results[i])
  <2> SUFFICES ASSUME NEW i \in 1..Len(results), results[i].profile # 0
               PROVE  Own(results[i])
    OBVIOUS
  <2>1. /\ results[i].profile = run
        /\ OwnRecords("benchmark", run, results[i].variant) # {}
    BY DEF ProfileOfOwnBenchmark
  <2>2. run \in Runs /\ results[i].variant \in Variants
    BY <1>0, <2>1
  <2>3. Recorded(results[i].variant)
    BY <2>1, <2>2, RecordsGrow
  <2> QED BY <2>1, <2>3
<1>2. ASSUME UNCHANGED run, \A i \in 1..Len(results') : Own(results'[i])
      PROVE  ProfileOfOwnBenchmark'
  <2>1. \A w : Recorded(w) => {e \in records'["benchmark"][<<run, w>>] : e.run = run} # {}
    OBVIOUS
  <2> HIDE DEF Recorded
  <2> QED BY <1>2, <2>1 DEF ProfileOfOwnBenchmark, OwnRecords, FileOf
<1> HIDE DEF Own, Recorded
<1>3. CASE StartSweep
  BY <1>3 DEF StartSweep, ProfileOfOwnBenchmark
<1>4. ASSUME NEW reason, NEW ready, UNCHANGED run,
             results' = Append(results, Entry(reason, ready))
      PROVE  ProfileOfOwnBenchmark'
  <2>1. Own(Entry(reason, ready))
    BY DEF Entry, Own
  <2>2. \A i \in 1..Len(results') : Own(results'[i])
    <3>1. /\ Len(results') = Len(results) + 1
          /\ results'[Len(results) + 1] = Entry(reason, ready)
          /\ \A i \in 1..Len(results) : results'[i] = results[i]
      <4> DEFINE e == Entry(reason, ready)
      <4> HIDE DEF e
      <4>1. results' = Append(results, e)
        BY <1>4 DEF e
      <4>2. /\ Len(results') = Len(results) + 1 /\ results'[Len(results) + 1] = e
            /\ \A i \in 1..Len(results) : results'[i] = results[i]
        BY <1>0, <4>1
      <4> QED BY <4>2 DEF e
    <3>2. \A i \in 1..Len(results') : i = Len(results) + 1 \/ i \in 1..Len(results)
      BY <1>0, <3>1
    <3> QED BY <1>1, <2>1, <3>1, <3>2
  <2> QED BY <1>2, <1>4, <2>2
<1>5. CASE Skips
  BY <1>4, <1>5 DEF Skips
<1>6. CASE NotReady \/ Record
  BY <1>4, <1>6 DEF NotReady, Record
<1>7. CASE Closing
  <2>1. /\ file = <<run, v>> /\ run \in Runs /\ v \in Variants /\ Len(results) = v
        /\ v >= 1 /\ run' = run
    BY <1>7, AtVariant DEF Closing, Ending, Variants
  <2>2. PICK made \in Profiles :
           results' = [results EXCEPT
                         ![v].closed = IF EndpointOpen THEN "no" ELSE "yes",
                         ![v].method = shutdown, ![v].profile = made]
    BY <1>7, <2>1, Zenon DEF Closing
  <2>3. /\ Len(results') = v
        /\ \A i \in 1..v : i # v => results'[i] = results[i]
        /\ results'[v].profile = made /\ results'[v].variant = v
    BY <1>0, <2>1, <2>2 DEF Entries, Typed, Progress
  <2>4. made \in {0, meta[<<run, v>>]}
    BY <2>1 DEF Profiles
  <2>5. made # 0 => made = run /\ Recorded(v)
    BY <2>1, <2>4, RecordsGrow DEF Manifested, Recorded
  <2>6. Own(results'[v])
    BY <2>3, <2>5 DEF Own
  <2>7. \A i \in 1..Len(results') : Own(results'[i])
    BY <1>1, <2>1, <2>3, <2>6
  <2> QED BY <1>2, <2>1, <2>7
<1>8. ASSUME UNCHANGED <<run, results>> PROVE ProfileOfOwnBenchmark'
  BY <1>1, <1>2, <1>8
<1>9. CASE WriteManifest \/ CommandSucceeds \/ CommandFails \/ Request \/ StraySteps \/ Moves
  BY <1>8, <1>9, StrayStep
     DEF WriteManifest, CommandSucceeds, CommandFails, Request, StraySteps, Moves, driver
<1> QED BY <1>3, <1>5, <1>6, <1>7, <1>9, KindsOfSteps

LEMMA FiledInvariant ==
    ASSUME SweepAssumption, FreshPrefix PROVE Spec => [](Typed /\ Filed)
<1>1. Init => Typed /\ Filed
  BY TypedInit, FiledInit
<1>2. Typed /\ Filed /\ [Next]_vars => (Typed /\ Filed)'
  BY TypedStep, NoFilesStep, ManifestedStep, ApartStep, LatestStep, RowsStep, ProfileStep
     DEF Filed
<1> QED BY <1>1, <1>2, PTL DEF Spec

(* Under every fault, the profile of an entry is made of a benchmark that   *)
(* this sweep ran, provided sweeps have run prefixes of their own.          *)
THEOREM ProfilesAreOwn ==
    ASSUME SweepAssumption, FreshPrefix PROVE Spec => []ProfileOfOwnBenchmark
<1>1. Typed /\ Filed => ProfileOfOwnBenchmark
  BY DEF Filed
<1> QED BY <1>1, FiledInvariant, PTL

(* ... and the files of a variant that failed hold no record that a report  *)
(* or a comparison could take for its own.                                  *)
THEOREM FailuresHaveNoRow ==
    ASSUME SweepAssumption, FreshPrefix PROVE Spec => []FailedVariantsHaveNoRow
<1>1. Typed /\ Filed => FailedVariantsHaveNoRow
  BY DEF Filed, Rows, OfReady, Latest, FailedVariantsHaveNoRow, RowHasRecords, FileOf
<1> QED BY <1>1, FiledInvariant, PTL

-----------------------------------------------------------------------------
(* The ledger: what the sweep knows of a variant before its entry is made.  *)
Codes    == {"ok", "failed"}
Streamed == rc["stream"] \in (IF v \in Images THEN Codes ELSE {"none"})

Coded ==
    /\ pc \in BeforeLaunch \cup {"poll", "probe", "benchmark"} => rc = NotRun
    /\ pc = "stream" => v \in Images /\ rc["benchmark"] \in Codes /\ rc["stream"] = "none"
    /\ pc = "record" => rc["benchmark"] \in Codes /\ Streamed

(* An entry that waits for the shutdown of its server.                      *)
Open(e) ==
    /\ Unsettled(e)
    /\ IF e.ready THEN /\ e.rc["benchmark"] \in Codes
                       /\ e.rc["stream"] \in (IF e.variant \in Images THEN Codes ELSE {"none"})
                  ELSE e.rc["benchmark"] = "none" /\ e.rc["stream"] = "none"

Opened ==
    /\ pc \in Ending => Open(results[v])
    /\ pc \notin Ending \cup Ended /\ results # <<>> => ~Unsettled(results[Len(results)])

Told == pc \notin Ended =>
           reported["benchmark"] =
              {i \in 1..Len(results) : results[i].rc["benchmark"] = "ok"}

Ledgered == Coded /\ Opened /\ Told /\ Latest

LEMMA LedgeredInit == ASSUME SweepAssumption, Init PROVE Ledgered
BY FiledInit DEF Init, Filed, Ledgered, Coded, Opened, Told, BeforeLaunch, Ending, Latest,
   NoResults

LEMMA CodedStep == ASSUME SweepAssumption, Typed, Coded, [Next]_vars PROVE Coded'
<1> USE DEF Coded, Streamed, BeforeLaunch
<1>0. PositionOK
  BY DEF Typed
<1>1. CASE StartSweep \/ Closing
  BY <1>1 DEF StartSweep, Closing
<1>2. CASE Skips
  BY <1>2 DEF Skips
<1>3. CASE NotReady \/ Record \/ WriteManifest
  BY <1>3 DEF NotReady, Record, WriteManifest
<1>4. CASE CommandSucceeds \/ CommandFails
  <2>1. PICK code \in Codes : rc' = [rc EXCEPT ![pc] = code]
    BY <1>4 DEF CommandSucceeds, CommandFails, Codes
  <2>2. pc \in Kinds /\ v' = v /\ AfterCommand
    BY <1>4 DEF CommandSucceeds, CommandFails
  <2>3. rc'[pc] \in Codes /\ \A k \in Kinds \ {pc} : rc'[k] = rc[k]
    BY <1>0, <2>1, <2>2 DEF PositionOK
  <2>4. CASE pc = "benchmark"
    BY <2>2, <2>3, <2>4 DEF AfterCommand, NotRun, Kinds
  <2>5. CASE pc = "stream"
    BY <2>2, <2>3, <2>5 DEF AfterCommand, Kinds
  <2> QED BY <2>2, <2>4, <2>5 DEF Kinds
<1>5. CASE Request \/ StraySteps
  BY <1>5, StrayStep DEF Request, StraySteps, driver
<1>6. CASE Moves
  BY <1>6 DEF Moves, Onwards
<1> QED BY <1>1, <1>2, <1>3, <1>4, <1>5, <1>6, KindsOfSteps

(* The entries before and after a step.                                     *)
LEMMA EntriesNow ==
    ASSUME SweepAssumption, Typed
    PROVE  /\ results \in Seq(Entries) /\ v \in Nat /\ v >= 1 /\ v <= Count /\ Count \in Nat
           /\ pc \in BeforeLaunch \cup Started => Len(results) = v - 1
           /\ pc \in Ending => Len(results) = v
           /\ rc \in [Kinds -> {"none", "ok", "failed"}]
           /\ manifest.results \in Seq(Entries)
           /\ reported["benchmark"] \subseteq Variants
BY DEF SweepAssumption, Typed, ListsOK, PositionOK, Progress, Variants, Kinds

LEMMA Appended ==
    ASSUME NEW s \in Seq(Entries), NEW e \in Entries
    PROVE  /\ Append(s, e) \in Seq(Entries) /\ Len(Append(s, e)) = Len(s) + 1
           /\ Append(s, e)[Len(s) + 1] = e /\ Append(s, e) # <<>>
           /\ \A i \in 1..Len(s) : Append(s, e)[i] = s[i]
OBVIOUS

(* A skipped variant's entry, and one of a variant that was launched.       *)
LEMMA SkippedEntry ==
    ASSUME SweepAssumption, Typed, Coded, Skips
    PROVE  \E e \in Entries : /\ results' = Append(results, e) /\ e.variant = v
                              /\ ~Unsettled(e) /\ e.rc["benchmark"] = "none"
                              /\ Line(e) \in Ledger!Skipped(v)
<1>1. PICK reason \in SkipReasons : results' = Append(results, Entry(reason, FALSE))
  BY DEF Skips
<1>2. Entry(reason, FALSE) \in Entries
  BY EntryType DEF Typed, SkipReasons
<1>3. rc = NotRun
  BY DEF Skips, Coded
<1> QED BY <1>1, <1>2, <1>3
        DEF Entry, Unsettled, SkipReasons, Line, NotRun, Kinds, Ledger!Skipped

LEMMA LaunchedEntry ==
    ASSUME SweepAssumption, Typed, Coded, NotReady \/ Record
    PROVE  \E e \in Entries : /\ results' = Append(results, e) /\ e.variant = v /\ Open(e)
                              /\ e.rc = rc
<1>1. PICK ready \in BOOLEAN : /\ results' = Append(results, Entry("none", ready))
                               /\ pc = IF ready THEN "record" ELSE "poll"
  BY Zenon DEF NotReady, Record
<1>2. Entry("none", ready) \in Entries
  BY EntryType DEF Typed
<1>3. Open(Entry("none", ready))
  BY <1>1 DEF Entry, Open, Unsettled, Coded, Streamed, NotRun, Kinds
<1> QED BY <1>1, <1>2, <1>3 DEF Entry

LEMMA ClosedEntry ==
    ASSUME SweepAssumption, Typed, Opened, Closing
    PROVE  /\ Len(results') = v /\ results' \in Seq(Entries)
           /\ \A i \in 1..v - 1 : results'[i] = results[i]
           /\ ~Unsettled(results'[v]) /\ results'[v].rc = results[v].rc
           /\ Line(results'[v]) \in Ledger!Unready(v) \cup Ledger!Measured(v)
<1> DEFINE shut == IF EndpointOpen THEN "no" ELSE "yes"
<1>0. PICK made \in Profiles :
         results' = [results EXCEPT ![Len(results)].closed = shut,
                       ![Len(results)].method = shutdown, ![Len(results)].profile = made]
  BY Zenon DEF Closing
<1> DEFINE done == [results[v] EXCEPT !.closed = shut, !.method = shutdown, !.profile = made]
<1>1. Len(results) = v /\ v \in Nat /\ v >= 1 /\ results \in Seq(Entries) /\ Open(results[v])
  BY EntriesNow DEF Closing, Ending, Opened
<1>2. results' = [results EXCEPT ![v] = done]
  BY <1>0, <1>1, Zenon
<1>3. results[v] \in Entries /\ results[v].variant = v /\ shut \in {"yes", "no"}
  BY <1>1 DEF Typed, Progress
<1>4. /\ done.rc = results[v].rc /\ done.variant = v /\ done.closed = shut
      /\ done.reason = "none" /\ done.ready = results[v].ready
  BY <1>1, <1>3 DEF Entries, Open, Unsettled
<1>5. Typed' 
  BY TypedStep DEF Next, Driver
<1>6. results' \in Seq(Entries)
  BY <1>5 DEF Typed, ListsOK
<1> HIDE DEF done, shut
<1>7. Len(results') = v /\ results'[v] = done /\ \A i \in 1..v - 1 : results'[i] = results[i]
  BY <1>1, <1>2
<1>8. Line(done) \in Ledger!Unready(v) \cup Ledger!Measured(v)
  BY <1>1, <1>3, <1>4
     DEF Line, Open, Ledger!Unready, Ledger!Measured, Ledger!Codes, Codes, Entries
<1> QED BY <1>3, <1>4, <1>6, <1>7, <1>8 DEF Unsettled

LEMMA OpenedStep == ASSUME SweepAssumption, Typed, Coded, Opened, [Next]_vars PROVE Opened'
<1> USE DEF Opened
<1>1. CASE StartSweep
  BY <1>1 DEF StartSweep, Ending
<1>2. CASE Skips
  <2>1. pc' \in {"prepare", "report"}
    BY <1>2 DEF Skips
  <2>2. PICK e \in Entries : results' = Append(results, e) /\ ~Unsettled(e)
    BY <1>2, SkippedEntry
  <2>3. results'[Len(results')] = e
    BY <2>2, EntriesNow, Appended
  <2> QED BY <2>1, <2>2, <2>3 DEF Ending
<1>3. CASE NotReady \/ Record
  <2>1. pc' = "shutdown" /\ v' = v /\ Len(results) = v - 1
    BY <1>3, EntriesNow DEF NotReady, Record, Started
  <2>2. PICK e \in Entries : results' = Append(results, e) /\ Open(e)
    BY <1>3, LaunchedEntry
  <2>3. results'[v] = e
    <3>1. v = Len(results) + 1
      BY <2>1, EntriesNow
    <3> QED BY <2>2, <3>1, EntriesNow, Appended
  <2> QED BY <2>1, <2>2, <2>3 DEF Ending
<1>4. CASE Closing
  <2>1. pc' \in {"prepare", "report"}
    BY <1>4 DEF Closing
  <2> QED BY <1>4, <2>1, ClosedEntry DEF Ending
<1>5. CASE WriteManifest
  BY <1>5 DEF WriteManifest, Ending
<1>6. CASE CommandSucceeds \/ CommandFails
  BY <1>6 DEF CommandSucceeds, CommandFails, AfterCommand, Kinds, Ending
<1>7. CASE Request \/ StraySteps
  BY <1>7, StrayStep DEF Request, StraySteps, driver
<1>8. CASE Moves
  BY <1>8 DEF Moves, Onwards, BeforeLaunch, Ending
<1> QED BY <1>1, <1>2, <1>3, <1>4, <1>5, <1>6, <1>7, <1>8, KindsOfSteps

LEMMA ToldStep == ASSUME SweepAssumption, Typed, Coded, Opened, Told, [Next]_vars PROVE Told'
<1> USE DEF Told
<1> DEFINE Good(s) == {i \in 1..Len(s) : s[i].rc["benchmark"] = "ok"}
<1>a. ASSUME NEW e \in Entries, results' = Append(results, e)
      PROVE  Good(results') = Good(results) \cup
               (IF e.rc["benchmark"] = "ok" THEN {Len(results) + 1} ELSE {})
  <2>1. /\ Len(results) \in Nat /\ Len(results') = Len(results) + 1
        /\ results'[Len(results) + 1] = e
        /\ \A i \in 1..Len(results) : results'[i] = results[i]
    BY <1>a, EntriesNow, Appended
  <2>2. 1..Len(results') = (1..Len(results)) \cup {Len(results) + 1}
    BY <2>1
  <2> QED BY <2>1, <2>2
<1>1. CASE StartSweep
  <2>1. results' = <<>> /\ reported'["benchmark"] = {}
    BY <1>1 DEF StartSweep, NoPaths, Kinds
  <2> QED BY <2>1
<1>2. CASE Skips
  <2>1. pc \notin Ended /\ reported' = reported
    BY <1>2 DEF Skips, BeforeLaunch
  <2>2. PICK e \in Entries : results' = Append(results, e) /\ e.rc["benchmark"] = "none"
    BY <1>2, SkippedEntry
  <2>3. Good(results') = Good(results)
    BY <1>a, <2>2
  <2> QED BY <2>1, <2>3
<1>3. CASE NotReady
  <2>1. pc = "poll" /\ reported' = reported /\ rc = NotRun
    BY <1>3 DEF NotReady, Coded
  <2>2. PICK e \in Entries : results' = Append(results, e) /\ e.rc = rc
    BY <1>3, LaunchedEntry
  <2>3. Good(results') = Good(results)
    BY <1>a, <2>1, <2>2 DEF NotRun, Kinds
  <2> QED BY <2>1, <2>3
<1>4. CASE Record
  <2>1. /\ pc = "record" /\ Len(results) + 1 = v
        /\ reported'["benchmark"] = reported["benchmark"] \cup
              (IF rc["benchmark"] = "ok" THEN {v} ELSE {})
    BY <1>4, EntriesNow DEF Record, Started, Kinds
  <2>2. PICK e \in Entries : results' = Append(results, e) /\ e.rc = rc
    BY <1>4, LaunchedEntry
  <2>3. Good(results') = Good(results) \cup (IF rc["benchmark"] = "ok" THEN {v} ELSE {})
    BY <1>a, <2>1, <2>2
  <2> HIDE DEF Good
  <2>4. reported["benchmark"] = Good(results)
    BY <2>1 DEF Good
  <2>5. reported'["benchmark"] = Good(results')
    BY <2>1, <2>3, <2>4
  <2> QED BY <2>5 DEF Good
<1>5. CASE Closing
  <2>1. /\ pc \notin Ended /\ reported' = reported /\ v \in Nat /\ v >= 1 /\ Len(results) = v
        /\ Len(results') = v /\ \A i \in 1..v : results'[i].rc = results[i].rc
    <3>1. \A i \in 1..v : i = v \/ i \in 1..v - 1
      BY EntriesNow
    <3> QED BY <1>5, <3>1, EntriesNow, ClosedEntry DEF Closing, Ending
  <2> QED BY <2>1
<1>6. CASE WriteManifest
  BY <1>6 DEF WriteManifest
<1>7. CASE CommandSucceeds \/ CommandFails
  BY <1>7 DEF CommandSucceeds, CommandFails, Kinds
<1>8. CASE Request \/ StraySteps
  BY <1>8, StrayStep DEF Request, StraySteps, driver
<1>9. CASE Moves
  BY <1>9 DEF Moves, Onwards, BeforeLaunch
<1> QED BY <1>1, <1>2, <1>3, <1>4, <1>5, <1>6, <1>7, <1>8, <1>9, KindsOfSteps
LEMMA LedgeredStep == ASSUME SweepAssumption, Typed, Ledgered, [Next]_vars PROVE Ledgered'
BY CodedStep, OpenedStep, ToldStep, LatestStep DEF Ledgered

(* How many entries are made, wherever the sweep is.                        *)
LEMMA SettledNow ==
    ASSUME SweepAssumption, Typed, Opened, pc \notin Ended
    PROVE  /\ pc \in {"report", "manifest"} => Settled = Count /\ Len(results) = Count
           /\ pc \notin {"report", "manifest"} => Settled = v - 1
           /\ pc \notin Ending => Settled = Len(results)
<1>0. results \in Seq(Entries) /\ Len(results) \in Nat /\ v \in Nat /\ v >= 1
  BY EntriesNow
<1>1. CASE pc \in Ending
  <2>1. Len(results) = v /\ Unsettled(results[v])
    BY <1>1, EntriesNow DEF Opened, Open
  <2> QED BY <1>0, <1>1, <2>1 DEF Settled, Ending
<1>2. CASE pc \notin Ending
  <2>1. Settled = Len(results)
    <3>1. results # <<>> <=> Len(results) > 0
      BY <1>0
    <3> QED BY <1>0, <1>2, <3>1 DEF Settled, Opened
  <2>2. pc \in {"report", "manifest"} => Len(results) = Count
    BY DEF Typed, Progress
  <2>3. pc \notin {"report", "manifest"} => Len(results) = v - 1
    <3>1. pc \in Steps
      BY DEF Typed, PositionOK
    <3>2. pc \notin {"report", "manifest"} => pc \in BeforeLaunch \cup Started
      BY <1>2, <3>1 DEF Steps, BeforeLaunch, Started, Ending
    <3> QED BY <3>2, EntriesNow
  <2> QED BY <1>2, <2>1, <2>2, <2>3
<1> QED BY <1>1, <1>2

LedgerOf(s, n) == [i \in 1..n |-> Line(s[i])]

LEMMA OneLonger ==
    ASSUME NEW S, NEW q \in Seq(S), NEW e
    PROVE  /\ Append(q, e) = [i \in 1..Len(q) + 1 |-> Append(q, e)[i]]
           /\ Append(q, e)[Len(q) + 1] = e
           /\ \A i \in 1..Len(q) : Append(q, e)[i] = q[i]
<1> DEFINE T == S \cup {e}
           long == Append(q, e)
<1>1. q \in Seq(T) /\ e \in T
  OBVIOUS
<1> HIDE DEF T
<1>2. /\ long \in Seq(T) /\ Len(long) = Len(q) + 1 /\ long[Len(q) + 1] = e
      /\ \A i \in 1..Len(q) : long[i] = q[i]
  BY <1>1, AppendProperties
<1>3. long \in [1..Len(q) + 1 -> T]
  <2> HIDE DEF long
  <2> QED BY <1>2
<1> QED BY <1>2, <1>3

LEMMA LedgerLength ==
    ASSUME NEW n \in Nat, NEW s
    PROVE  /\ LedgerOf(s, n) \in Seq({Line(s[i]) : i \in 1..n})
           /\ Len(LedgerOf(s, n)) = n
BY DEF LedgerOf

LEMMA LedgerStays ==
    ASSUME NEW n, NEW s, NEW t, \A i \in 1..n : t[i] = s[i]
    PROVE  LedgerOf(t, n) = LedgerOf(s, n)
BY DEF LedgerOf

LEMMA LedgerGrows ==
    ASSUME NEW n \in Nat, NEW s
    PROVE  LedgerOf(s, n + 1) = Append(LedgerOf(s, n), Line(s[n + 1]))
<1> DEFINE q == LedgerOf(s, n)
           S == {Line(s[i]) : i \in 1..n}
           e == Line(s[n + 1])
           longer == Append(q, e)
<1>1. q \in Seq(S) /\ Len(q) = n /\ \A i \in 1..n : q[i] = Line(s[i])
  BY LedgerLength DEF LedgerOf
<1> HIDE DEF q, S
<1>2. /\ longer = [i \in 1..n + 1 |-> longer[i]] /\ longer[n + 1] = e
      /\ \A i \in 1..n : longer[i] = q[i]
  <2> HIDE DEF e
  <2> QED BY <1>1, OneLonger
<1> HIDE DEF longer
<1>3. \A i \in 1..n + 1 : longer[i] = Line(s[i])
  <2>1. \A i \in 1..n + 1 : i \in 1..n \/ i = n + 1
    OBVIOUS
  <2> QED BY <1>1, <1>2, <2>1
<1>4. longer = LedgerOf(s, n + 1)
  BY <1>2, <1>3 DEF LedgerOf
<1> QED BY <1>4 DEF longer, q

(* An entry is made: the variant was skipped, or its server is shut down.   *)
LEMMA EntryIsEntered ==
    ASSUME SweepAssumption, Typed, Ledgered, Typed', Ledgered', Skips \/ Closing
    PROVE  Ledger!Enter
<1> USE DEF Ledgered
<1>1. /\ pc \notin Ended \cup {"report", "manifest"} /\ pc' \in {"prepare", "report"}
      /\ v \in Nat /\ v >= 1 /\ v <= Count /\ Count \in Nat
      /\ results \in Seq(Entries) /\ results' \in Seq(Entries)
  BY EntriesNow DEF Skips, Closing, BeforeLaunch, Typed, ListsOK
<1>2. Settled = v - 1
  BY <1>1, SettledNow
<1>3. /\ Len(results') = v /\ ~Unsettled(results'[v])
      /\ \A i \in 1..v - 1 : results'[i] = results[i]
      /\ Line(results'[v]) \in Ledger!Lines(v)
  <2>1. CASE Skips
    <3>1. Len(results) = v - 1
      BY <2>1, EntriesNow DEF Skips
    <3>2. PICK e \in Entries : /\ results' = Append(results, e) /\ ~Unsettled(e)
                               /\ Line(e) \in Ledger!Skipped(v)
      BY <2>1, SkippedEntry
    <3>3. /\ Len(results') = Len(results) + 1 /\ results'[Len(results) + 1] = e
          /\ \A i \in 1..Len(results) : results'[i] = results[i]
      BY <1>1, <3>2, Appended
    <3>4. Len(results) + 1 = v
      BY <1>1, <3>1
    <3> QED BY <3>1, <3>2, <3>3, <3>4 DEF Ledger!Lines
  <2>2. CASE Closing
    BY <2>2, ClosedEntry DEF Ledger!Lines
  <2> QED BY <2>1, <2>2
<1>4. Settled' = v
  BY <1>1, <1>3 DEF Settled
<1>5. /\ LedgerOf(results', v) = Append(LedgerOf(results, v - 1), Line(results'[v]))
      /\ Len(LedgerOf(results, v - 1)) = v - 1
  <2> DEFINE n == v - 1
  <2>1. n \in Nat /\ v = n + 1 /\ \A i \in 1..n : results'[i] = results[i]
    BY <1>1, <1>3
  <2> HIDE DEF n
  <2>2. LedgerOf(results', n) = LedgerOf(results, n)
    BY <2>1, LedgerStays
  <2>3. LedgerOf(results', n + 1) = Append(LedgerOf(results', n), Line(results'[n + 1]))
    BY <2>1, LedgerGrows
  <2>4. Len(LedgerOf(results, n)) = n
    BY <2>1, LedgerLength
  <2> QED BY <2>1, <2>2, <2>3, <2>4 DEF n
<1>6. UNCHANGED <<run, manifest>>
  BY DEF Skips, Closing, files
<1>7. (v - 1) + 1 = v /\ v - 1 < Count
  BY <1>1
<1> QED BY <1>2, <1>3, <1>4, <1>5, <1>6, <1>7 DEF Ledger!Enter, LedgerOf

(* An entry is begun: nothing is entered before the shutdown.               *)
LEMMA OpenEntryStutters ==
    ASSUME SweepAssumption, Typed, Ledgered, Typed', Ledgered', NotReady \/ Record
    PROVE  UNCHANGED Ledger!ledgerVars
<1> USE DEF Ledgered
<1>1. /\ pc \notin Ended \cup {"report", "manifest"} /\ pc' = "shutdown" /\ v' = v
      /\ v \in Nat /\ v >= 1 /\ Len(results) = v - 1
      /\ results \in Seq(Entries) /\ results' \in Seq(Entries)
  BY EntriesNow DEF NotReady, Record, Started, Typed, ListsOK
<1>2. Settled = v - 1
  BY <1>1, SettledNow
<1>4. PICK e \in Entries : results' = Append(results, e) /\ Open(e)
  BY LaunchedEntry
<1>5. Settled' = v - 1
  <2>1. results'[Len(results) + 1] = e /\ Len(results') = Len(results) + 1
    BY <1>1, <1>4, Appended
  <2>2. Len(results') = v /\ results'[v] = e
    BY <1>1, <2>1
  <2> QED BY <1>1, <1>4, <2>2 DEF Settled, Open
<1>6. LedgerOf(results', v - 1) = LedgerOf(results, v - 1)
  <2>1. \A i \in 1..v - 1 : results'[i] = results[i]
    BY <1>1, <1>4, Appended
  <2> QED BY <2>1, LedgerStays
<1>7. UNCHANGED <<run, manifest>>
  BY DEF NotReady, Record, files
<1> QED BY <1>2, <1>5, <1>6, <1>7 DEF Ledger!ledgerVars, LedgerOf

LEMMA ManifestIsPublished ==
    ASSUME SweepAssumption, Typed, Ledgered, WriteManifest PROVE Ledger!Publish
<1> USE DEF Ledgered
<1>1. /\ pc = "manifest" /\ UNCHANGED <<run, results>> /\ Settled = Count /\ Len(results) = Count
      /\ Settled' = Settled /\ results \in Seq(Entries) /\ Count \in Nat
  BY SettledNow, EntriesNow DEF WriteManifest, Settled
<1>2. manifest' = [run |-> run, results |-> results, report |-> reported["benchmark"]]
  BY DEF WriteManifest
<1>3. manifest.run # run
  BY <1>1 DEF Latest
<1>4. reported["benchmark"] = {w \in 1..Count : results[w].rc["benchmark"] = "ok"}
  BY <1>1 DEF Told
<1>5. \A w \in 1..Count : LedgerOf(results, Count)[w].benchmark = results[w].rc["benchmark"]
  BY DEF LedgerOf, Line
<1>6. reported["benchmark"] = {w \in 1..Count : LedgerOf(results, Count)[w].benchmark = "ok"}
  BY <1>4, <1>5
<1>7. Len(LedgerOf(results, Count)) = Count
  BY <1>1, LedgerLength
<1> QED BY <1>1, <1>2, <1>3, <1>6, <1>7 DEF Ledger!Publish, LedgerOf

LEMMA SweepBegins == ASSUME StartSweep PROVE Ledger!Begin
<1>1. results' = <<>> /\ run' = run + 1 /\ manifest' = manifest
  BY DEF StartSweep, files
<1>2. Settled' = 0
  BY <1>1 DEF Settled
<1>3. LedgerOf(results', 0) = <<>>
  BY DEF LedgerOf
<1> QED BY <1>1, <1>2, <1>3 DEF Ledger!Begin, LedgerOf

LEMMA OthersStutter ==
    ASSUME CommandSucceeds \/ CommandFails \/ Request \/ StraySteps \/ Moves
    PROVE  UNCHANGED Ledger!ledgerVars
<1>1. UNCHANGED <<run, results, manifest>>
  BY StrayStep DEF CommandSucceeds, CommandFails, Request, StraySteps, Moves, driver
<1> QED BY <1>1 DEF Ledger!ledgerVars, Settled

(* Under every fault, for every plan and every number of sweeps: an entry   *)
(* that is made stays as it is, and says what was run and what was found of *)
(* its variant and of no other; a manifest is published once per sweep,     *)
(* from all entries, and reports exactly the benchmarks that succeeded.     *)
THEOREM SweepImplementsLedger == ASSUME SweepAssumption PROVE Spec => Implements
<1>1. Init => Typed /\ Ledgered /\ Ledger!LedgerInit
  <2>1. ASSUME Init PROVE Ledger!LedgerInit
    <3>1. run = 0 /\ results = <<>> /\ manifest = NoResults
      BY <2>1 DEF Init
    <3>2. Settled = 0 /\ manifest.run = 0 /\ manifest.results = <<>> /\ manifest.report = {}
      BY <3>1 DEF Settled, NoResults
    <3> QED BY <3>1, <3>2 DEF Ledger!LedgerInit
  <2> QED BY <2>1, TypedInit, LedgeredInit
<1>2. Typed /\ Ledgered /\ [Next]_vars => (Typed /\ Ledgered)'
  BY TypedStep, LedgeredStep
<1>3. Typed /\ Ledgered /\ [Next]_vars => [Ledger!LedgerNext]_(Ledger!ledgerVars)
  BY <1>2, KindsOfSteps, EntryIsEntered, OpenEntryStutters, ManifestIsPublished, SweepBegins,
     OthersStutter
     DEF Ledger!LedgerNext
<1> QED BY <1>1, <1>2, <1>3, PTL DEF Spec, Implements, Ledger!LedgerSpec
=============================================================================
