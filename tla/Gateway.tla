------------------------------ MODULE Gateway -------------------------------
(***************************************************************************)
(* The process and an ext_proc stream of its ext_proc server: the stream   *)
(* exists only while that server listens, which the config of the start    *)
(* decides and no reload changes, and it is cut when the process ends.     *)
(***************************************************************************)
EXTENDS Startup, ExtProc

vars == <<startupVars, extProcVars>>

Init == StartupInit /\ ExtProcInit

\* The tasks and channels of the process are gone; so is its side of the stream.
CutStream ==
  /\ task' = "none" /\ inbound' = <<>> /\ writing' = "closed"
  /\ message' = NoMessage /\ channel' = <<>> /\ receiver' = FALSE
  /\ answers' = <<>> /\ written' = <<>>

\* A step of the process; when it ends, and only then, it takes the stream along.
ProcessStep(step) ==
  /\ step
  /\ IF exit = None /\ exit' # None THEN CutStream ELSE UNCHANGED extProcVars

\* A step of the stream; a new one needs the server.
StreamStep(step) ==
  /\ step
  /\ UNCHANGED startupVars

Next ==
  \/ ProcessStep(StartupNext)
  \/ "ext_proc" \in listening /\ StreamStep(OpenStream)
  \/ StreamStep(TaskStep \/ Deliver \/ CloseStream)
  \/ \E m \in Messages : StreamStep(EnvoyWrites(m))
  \/ \E how \in {"closed", "failed"} : StreamStep(EnvoyStopsWriting(how))
  \/ StreamStep(DropReceiver)

\* run's own steps end, except that a fetch may hang; the tasks of the stream
\* are scheduled, and Envoy reads what it is sent or drops the stream.
Spec ==
  /\ Init /\ [][Next]_vars
  /\ WF_vars(ProcessStep(StartStep))
  /\ WF_vars(ProcessStep(\E server \in Servers : BindSpawned(server)))
  /\ WF_vars(StreamStep(TaskStep))
  /\ WF_vars(StreamStep(Deliver))
  /\ WF_vars(StreamStep(CloseStream))
=============================================================================
