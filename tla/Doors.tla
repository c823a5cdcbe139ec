-------------------------------- MODULE Doors --------------------------------
(***************************************************************************)
(* What a request passes on its way in: the limits in front of a new job   *)
(* (JobAdmission), an upload on its way to the disk, a call of the API or  *)
(* of MCP from its credential to its answer, the rate limiter, and the     *)
(* gate of an agent's tools.  They share no row and no memory, so a step   *)
(* of one commutes with every step of another: one moves in each part of   *)
(* the state space, with the others at rest.                               *)
(***************************************************************************)
EXTENDS JobAdmission, UploadIntake, McpCalls, RateLimiter, PolicyGate

VARIABLE door   \* the module that moves

doorVars == <<door, vars, intakeVars, callVars, limiterVars, policyVars>>

Doors == {"admission", "intake", "calls", "limiter", "policy"}

DoorInit ==
    /\ door \in Doors
    /\ Init /\ IntakeInit /\ CallsInit /\ LimiterInit /\ PolicyInit

DoorNext ==
    /\ UNCHANGED door
    /\ \/ /\ door = "admission" /\ Next
          /\ UNCHANGED <<intakeVars, callVars, limiterVars, policyVars>>
       \/ /\ door = "intake" /\ IntakeNext
          /\ UNCHANGED <<vars, callVars, limiterVars, policyVars>>
       \/ /\ door = "calls" /\ CallsNext
          /\ UNCHANGED <<vars, intakeVars, limiterVars, policyVars>>
       \/ /\ door = "limiter" /\ LimiterNext
          /\ UNCHANGED <<vars, intakeVars, callVars, policyVars>>
       \/ /\ door = "policy" /\ PolicyNext
          /\ UNCHANGED <<vars, intakeVars, callVars, limiterVars>>

DoorSpec == DoorInit /\ [][DoorNext]_doorVars

DoorTypeOK ==
    /\ TypeOK
    /\ IntakeTypeOK /\ CallsTypeOK /\ LimiterTypeOK /\ PolicyTypeOK
=============================================================================
