--------------------------- MODULE MCMiniKvmSetup ---------------------------
(***************************************************************************)
(* The two halves of mini-kvm's set-up for TLC: the CPUs of a machine      *)
(* (MiniKvmLoad), and the VMCS fields of a vCPU on any processor           *)
(* (MiniKvmFields).  They share no variable, so a behaviour is of one half *)
(* while the other stands still.                                           *)
(***************************************************************************)
EXTENDS MiniKvmLoad, MiniKvmFields

VARIABLE half

setupVars == <<half, loadVars, vars>>

\* The state in which the CPUs, or the vCPU, stand still.
LoadRests ==
  /\ LoadInit
  /\ online = CPUs
FieldsRest ==
  /\ Init
  /\ hw = CHOOSE h \in Hardware : TRUE
  /\ cpu = CHOOSE c \in Cpus : TRUE
  /\ task = CHOOSE t \in Tasks : TRUE
  /\ asid = CHOOSE a \in Asids : TRUE

SetupInit ==
  \/ half = "load" /\ LoadInit /\ FieldsRest
  \/ half = "fields" /\ LoadRests /\ Init

\* insmod refuses a processor for good.
Refused == pc = "unloaded" /\ UNCHANGED vars

SetupNext ==
  /\ UNCHANGED half
  /\ \/ half = "load" /\ LoadNext /\ UNCHANGED vars
     \/ half = "fields" /\ (Next \/ Refused) /\ UNCHANGED loadVars

SetupSpec == SetupInit /\ [][SetupNext]_setupVars
=============================================================================
