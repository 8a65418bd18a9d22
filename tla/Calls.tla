------------------------------- MODULE Calls -------------------------------
(***************************************************************************)
(* The calls of one environment outside the inside of a step: Create and   *)
(* the Job it plans, the end of Start, file copies, and the steps' traces  *)
(* in the pod and on the wire.  The environment's lock serialises its      *)
(* calls, so a behaviour looks at one kind of call at a time; what earlier *)
(* calls left running in the pod is part of each component.                *)
(***************************************************************************)
EXTENDS JobPlan, PodPrepare, FileCopy, StepDirs, StepWire

callsVars == <<planVars, prepareVars, copyVars, dirsVars, wireVars>>

NoPlan == /\ phase = "off" /\ flags = Nothing /\ req = Nothing
          /\ in = Nothing /\ job = Nothing /\ sentTo = ""

NoPrepare == /\ box = CHOOSE b \in Boxes : TRUE
             /\ tool = (IF box.mounted THEN "dir" ELSE "none")
             /\ script = [a \in Attempts |-> "none"]
             /\ start = "idle" /\ attempt = 0 /\ expired = FALSE
             /\ broken = 0 /\ why = "none" /\ cache = "default" /\ imageEnv = "none"

NoCopy == /\ way = "idle" /\ archive = 0 /\ mark = 0 /\ badChunk = 0
          /\ client = "none" /\ handler = "none" /\ CopyStart

NoSteps == helper = TRUE /\ exec = "off" /\ DirsStart

NoWire == log = <<>> /\ DecoderStart /\ hop = "off" /\ call = NoCall /\ argv = <<>>

CallsInit ==
    \/ PlanInit /\ NoPrepare /\ NoCopy /\ NoSteps /\ NoWire
    \/ NoPlan /\ PrepareInit /\ NoCopy /\ NoSteps /\ NoWire
    \/ NoPlan /\ NoPrepare /\ CopyInit /\ NoSteps /\ NoWire
    \/ NoPlan /\ NoPrepare /\ NoCopy /\ DirsInit /\ NoWire
    \/ NoPlan /\ NoPrepare /\ NoCopy /\ NoSteps /\ WireInit

CallsNext ==
    \/ PlanNext /\ UNCHANGED <<prepareVars, copyVars, dirsVars, wireVars>>
    \/ PrepareNext /\ UNCHANGED <<planVars, copyVars, dirsVars, wireVars>>
    \/ CopyNext /\ UNCHANGED <<planVars, prepareVars, dirsVars, wireVars>>
    \/ DirsNext /\ UNCHANGED <<planVars, prepareVars, copyVars, wireVars>>
    \/ WireNext /\ UNCHANGED <<planVars, prepareVars, copyVars, dirsVars>>

CallsSpec == CallsInit /\ [][CallsNext]_callsVars /\ PrepareFairness /\ CopyFairness

\* Every component's variables stay in their types.
CallsTypeOK == PlanTypeOK /\ PrepareTypeOK /\ CopyTypeOK /\ DirsTypeOK /\ WireTypeOK

\* The specifications of the runs that look at one component only.
PlanOnly == PlanInit /\ NoPrepare /\ NoCopy /\ NoSteps /\ NoWire
            /\ [][CallsNext]_callsVars
StepsOnly == NoPlan /\ NoPrepare /\ NoCopy /\ DirsInit /\ NoWire
             /\ [][CallsNext]_callsVars

===========================================================================
