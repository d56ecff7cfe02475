------------------------------ MODULE MCTasks ------------------------------
(***************************************************************************)
(* The tasks beside the main loop and the render task, for TLC: the start  *)
(* of the page turner's radio and the dictionary's worker.  They share no  *)
(* variable: `task` says which one a behaviour is about, and the other     *)
(* stands still.  BleRadio is the S3 profile, which also starts at Home.   *)
(***************************************************************************)
EXTENDS BleRadio, LookupWorker

VARIABLE task

TasksInit ==
  /\ task \in {"radio", "lookup"}
  /\ Init /\ LookupInit
  /\ task = "lookup" => ~enabled

TasksNext ==
  /\ UNCHANGED task
  /\ \/ task = "radio" /\ Next /\ UNCHANGED lookupVars
     \/ task = "lookup" /\ LookupNext /\ UNCHANGED vars

\* The fairness each module states, of the one that runs.
Radio(A) == task = "radio" /\ A
TasksSpec ==
  /\ TasksInit /\ [][TasksNext]_<<task, vars, lookupVars>>
  /\ WF_vars(Radio(MainLoop)) /\ WF_vars(Radio(StartTask)) /\ WF_vars(Radio(RenderSteps))
  /\ WF_vars(Radio(StopDone)) /\ WF_vars(Radio(RefuseBuild)) /\ SF_vars(Radio(SwapScreens))
  /\ LookupFair

TaskTypesOK == BleTypeOK /\ LookupTypeOK
=============================================================================
