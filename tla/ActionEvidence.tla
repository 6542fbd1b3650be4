----------------------------- MODULE ActionEvidence -----------------------------
(***************************************************************************)
(* What stands between a fixed action and the machine in production: the   *)
(* start of runtime_bridge/apps/live_machine_behavior_server.py, which     *)
(* reads runtime.json, the machine profile, the profile of the fixed       *)
(* actions, the report of the field experiments and the URDF, one after    *)
(* the other (runtime_config.py, fixed_actions.py), while people edit      *)
(* these files.                                                            *)
(*                                                                         *)
(* The SHA256 of a file stands for its contents.  Files that are missing   *)
(* or malformed only make a start fail.                                    *)
(***************************************************************************)
EXTENDS Naturals

CONSTANTS
  Commissioning, \* starts of the server with control_stage "commissioning"
  Production,    \* and with "production"
  Profiles,      \* versions of the machine profile
  Urdfs,         \* versions of the URDF
  Powers,        \* values of controller.max_action
  Postures,      \* where a fixed action may start
  Contracts,     \* action contracts anybody writes
  MaxEdits       \* bound: edits of the files

Starts == Commissioning \cup Production

\* _ACTION_CONTRACT_FIELDS: what is bound, how strong it moves, from where it starts.
Contract == [machine : Profiles, urdf : Urdfs, power : Powers, envelope : SUBSET Postures]

ASSUME EvidenceAssumption ==
  /\ Commissioning \cap Production = {}
  /\ Powers \subseteq Nat /\ Contracts \subseteq Contract /\ MaxEdits \in Nat

\* validation_evidence: null, or one record.
Evidence == [contract : Contract, report : SUBSET Contract, power : Powers]
Template ==
  [machine : Profiles, urdf : Urdfs, power : Powers, envelope : SUBSET Postures,
   status : {"candidate", "field_validated"}, evidence : SUBSET Evidence]

WithContract(c, status, evidence) ==
  [machine |-> c.machine, urdf |-> c.urdf, power |-> c.power, envelope |-> c.envelope,
   status |-> status, evidence |-> evidence]

VARIABLES
  disk,      \* the files: the expected profile SHA of runtime.json, the machine
             \* profile, the URDF, the fixed actions, and the contracts the report names
  stage,     \* what a start of the server has read so far; "armed", "over"
  held,      \* what it keeps of that
  touched,   \* history: the machine profile was edited between its two reads
  fixedRuns, \* history: the fixed actions that were carried out
  edits

evidenceVars == <<disk, stage, held, touched, fixedRuns, edits>>

Kept == [pin : Template, machine : Profiles, template : Template]

\* A candidate, pinned, and nothing reported.
EvidenceInit ==
  /\ \E c \in Contracts :
       LET template == WithContract(c, "candidate", {}) IN
       /\ disk = [pin |-> template, machine |-> c.machine, urdf |-> c.urdf,
                  template |-> template, report |-> {}]
       /\ held = [s \in Starts |-> [pin |-> template, machine |-> c.machine, template |-> template]]
  /\ stage = [s \in Starts |-> "off"] /\ touched = [s \in Starts |-> FALSE]
  /\ fixedRuns = {} /\ edits = 0

-----------------------------------------------------------------------------
(* The start of a server *)

Reads(s, from, to, kept) ==
  /\ stage[s] = from /\ stage' = [stage EXCEPT ![s] = to]
  /\ held' = [held EXCEPT ![s] = kept]
  /\ UNCHANGED <<disk, touched, fixedRuns, edits>>

\* load_runtime_config()
ReadsConfig(s) == Reads(s, "off", "config", [held[s] EXCEPT !.pin = disk.pin])

\* load_machine_profile(): what the server converts positions and speeds with.
ReadsMachineProfile(s) == Reads(s, "config", "machine", [held[s] EXCEPT !.machine = disk.machine])

\* MUTANT: the SHA leaves start_envelopes out.
ContractShaOfMotion(template) ==
  [machine |-> template.machine, urdf |-> template.urdf, power |-> template.power, envelope |-> {}]

\* fixed_action_contract_sha256(): of the contract, whatever status and evidence are.
ContractSha(template) ==
  [machine |-> template.machine, urdf |-> template.urdf, power |-> template.power,
   envelope |-> template.envelope]

\* _validate_evidence() before it opens the report
EvidenceNamesContract(template) ==
  IF template.status = "candidate" THEN template.evidence = {}
  ELSE \E e \in template.evidence : e.contract = ContractSha(template)

\* load_fixed_action_profile() reads its file once.
ReadsTemplate(s) ==
  /\ EvidenceNamesContract(disk.template)
  /\ Reads(s, "machine", "template", [held[s] EXCEPT !.template = disk.template])

\* The report is the one the evidence was given with, and has a line for the contract.
ReportBinds(template, report) ==
  \E e \in template.evidence : e.report = report /\ ContractSha(template) \in report

ReadsReport(s) ==
  /\ held[s].template.status = "candidate" \/ ReportBinds(held[s].template, disk.report)
  /\ Reads(s, "template", "report", held[s])

\* The machine profile again, now only for its SHA.
ChecksMachineProfile(s) ==
  /\ disk.machine = held[s].template.machine
  /\ Reads(s, "report", "machine_again", held[s])

\* No more power than was validated.
PowerValidated(template) == \A e \in template.evidence : template.power <= e.power

\* The URDF and, without another file, the pin; then the state socket, which only one has.
Arms(s) ==
  /\ disk.urdf = held[s].template.urdf
  /\ held[s].pin = held[s].template /\ PowerValidated(held[s].template)
  /\ \A t \in Starts : stage[t] # "armed"
  /\ Reads(s, "machine_again", "armed", held[s])

\* Any of this refused, or anything else that __init__() raises; or the server is stopped.
Ends(s) == stage[s] # "over" /\ Reads(s, stage[s], "over", held[s])

-----------------------------------------------------------------------------
(* A fixed action on an armed server *)

\* evaluate_start()
StartAllowed(s, posture) == posture \in held[s].template.envelope

\* _on_fixed_goal() and _run_fixed(): in commissioning a candidate from anywhere.
CarriesOut(s, posture) ==
  /\ stage[s] = "armed"
  /\ s \in Production =>
       held[s].template.status = "field_validated" /\ StartAllowed(s, posture)
  /\ fixedRuns' = fixedRuns \cup
       {[production |-> s \in Production, template |-> held[s].template,
         machine |-> held[s].machine, touched |-> touched[s], posture |-> posture]}
  /\ UNCHANGED <<disk, stage, held, touched, edits>>

ServerStep(s) ==
  \/ ReadsConfig(s) \/ ReadsMachineProfile(s) \/ ReadsTemplate(s) \/ ReadsReport(s)
  \/ ChecksMachineProfile(s) \/ Arms(s) \/ Ends(s)
  \/ \E posture \in Postures : CarriesOut(s, posture)

-----------------------------------------------------------------------------
(* People *)

Edits(files) ==
  /\ edits < MaxEdits /\ edits' = edits + 1 /\ disk' = files /\ files # disk
  /\ touched' = [s \in Starts |-> touched[s] \/
                   (stage[s] \in {"machine", "template", "report"} /\ files.machine # disk.machine)]
  /\ UNCHANGED <<stage, held, fixedRuns>>

\* A report names what was carried out; it may also be started again.
Reports ==
  \E r \in fixedRuns : \E kept \in {disk.report, {}} :
    Edits([disk EXCEPT !.report = kept \cup {ContractSha(r.template)}])

\* Evidence for any contract, with the SHA of the report as it is.
Validates ==
  \E c \in Contracts, power \in Powers :
    Edits([disk EXCEPT !.template.status = "field_validated",
                       !.template.evidence =
                         {[contract |-> ContractSha(c), report |-> disk.report, power |-> power]}])

\* The template is edited and its status and evidence are left; or only its status is.
EditsTemplate ==
  \/ \E c \in Contracts :
       Edits([disk EXCEPT !.template = WithContract(c, disk.template.status, disk.template.evidence)])
  \/ \E status \in {"candidate", "field_validated"} : Edits([disk EXCEPT !.template.status = status])

Pins == Edits([disk EXCEPT !.pin = disk.template])

ChangesMachine ==
  \/ \E machine \in Profiles : Edits([disk EXCEPT !.machine = machine])
  \/ \E urdf \in Urdfs : Edits([disk EXCEPT !.urdf = urdf])

EvidenceNext ==
  \/ \E s \in Starts : ServerStep(s)
  \/ Reports \/ Validates \/ EditsTemplate \/ Pins \/ ChangesMachine

EvidenceSpec == EvidenceInit /\ [][EvidenceNext]_evidenceVars

-----------------------------------------------------------------------------

Files ==
  [pin : Template, machine : Profiles, urdf : Urdfs, template : Template, report : SUBSET Contract]
Stages == {"off", "config", "machine", "template", "report", "machine_again", "armed", "over"}
FixedRun ==
  [production : BOOLEAN, template : Template, machine : Profiles, touched : BOOLEAN, posture : Postures]

\* Types.
EvidenceTypeOK ==
  /\ disk \in Files
  /\ stage \in [Starts -> Stages] /\ held \in [Starts -> Kept]
  /\ touched \in [Starts -> BOOLEAN] /\ fixedRuns \subseteq FixedRun /\ edits \in 0 .. MaxEdits

\* Every field of the contract is the same.
SameAction(t, u) == 
  t.machine = u.machine /\ t.urdf = u.urdf /\ t.power = u.power /\ t.envelope = u.envelope

Exercised(template) == \E r \in fixedRuns : ~r.production /\ SameAction(r.template, template)

\* Whatever people edit and whenever, production carries out only what was carried out in
\* commissioning, to the last field of the action contract, starts it where it may start,
\* and converts with the machine profile it is bound to, unless that was edited between
\* the two reads of one start.
RunsAsExercised ==
  \A r \in fixedRuns : r.production =>
    /\ Exercised(r.template)
    /\ r.posture \in r.template.envelope
    /\ r.touched \/ r.machine = r.template.machine
================================================================================
