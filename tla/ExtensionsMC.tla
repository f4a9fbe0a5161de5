---------------------------- MODULE ExtensionsMC -----------------------------
(***************************************************************************)
(* WiFiManager, BtAdapter, BtAgent and Activity side by side.  They share  *)
(* no state, so that their interleavings show nothing: subject is the one  *)
(* that runs, the others rest in an initial state.                         *)
(***************************************************************************)
EXTENDS WiFiManager, BtAdapter, BtAgent, Activity

VARIABLE subject

sumVars == <<subject, wifiVars, adapterVars, agentVars, activityVars>>

SumInit ==
    /\ subject \in {"wifi", "adapter", "agent", "activity"}
    /\ WifiInit    /\ (subject # "wifi" => wifi = "absent")
    /\ AdapterInit /\ (subject # "adapter" => present = {})
    /\ AgentInit   /\ (subject # "agent" => ~available)
    /\ ActivityInit

SumNext ==
    /\ UNCHANGED subject
    /\ \/ subject = "wifi"     /\ WifiNext     /\ UNCHANGED <<adapterVars, agentVars, activityVars>>
       \/ subject = "adapter"  /\ AdapterNext  /\ UNCHANGED <<wifiVars, agentVars, activityVars>>
       \/ subject = "agent"    /\ AgentNext    /\ UNCHANGED <<wifiVars, adapterVars, activityVars>>
       \/ subject = "activity" /\ ActivityNext /\ UNCHANGED <<wifiVars, adapterVars, agentVars>>

\* AdapterFairness, for the time that the adapter is the subject.
SumFairness ==
    /\ WF_adapterVars(subject = "adapter" /\ HandleSignal)
    /\ WF_adapterVars(subject = "adapter" /\ Timeout)

SumSpec == SumInit /\ [][SumNext]_sumVars /\ SumFairness
=============================================================================
