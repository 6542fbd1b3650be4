------------------------------ MODULE OperatorLog ------------------------------
(***************************************************************************)
(* The panel's table of warnings and errors from /rosout:                  *)
(* append_operator_log() in airy_mission_panel/src/panel_state.cpp, the    *)
(* subscription that calls it and the Clear button.                        *)
(***************************************************************************)
EXTENDS SequencesExt

CONSTANTS
  Texts,      \* a module and what it says
  MaxEntries, \* kMaxOperatorLogEntries
  MaxRepeat   \* bound: repetitions of one entry

ASSUME LogAssumption == MaxEntries \in Nat \ {0} /\ MaxRepeat \in Nat

VARIABLE logs

Severities == {"warning", "error", "fatal"}
Entry == [severity : Severities, text : Texts, count : Nat]

LogInit == logs = << >>

Warnings(entries) == {i \in DOMAIN entries : entries[i].severity = "warning"}

\* MUTANT: the oldest entry makes room, whatever it is.
RoomInAny(entries, severity) == IF Len(entries) < MaxEntries THEN entries ELSE Tail(entries)

\* A full table gives up its oldest warning; without one, its oldest entry for an
\* error, and nothing for a warning.
RoomIn(entries, severity) ==
  IF Len(entries) < MaxEntries THEN entries
  ELSE IF Warnings(entries) # {}
       THEN RemoveAt(entries, CHOOSE i \in Warnings(entries) : \A j \in Warnings(entries) : i <= j)
       ELSE IF severity = "warning" THEN entries ELSE Tail(entries)

\* Its first loop, for a table longer than the limit, has nothing to do: the limit is
\* the same at every call.
AppendOperatorLog(entries, severity, text) ==
  IF entries # << >> /\ Last(entries).severity = severity /\ Last(entries).text = text
  THEN [entries EXCEPT ![Len(entries)].count = @ + 1]
  ELSE IF Len(RoomIn(entries, severity)) = MaxEntries THEN entries
       ELSE Append(RoomIn(entries, severity), [severity |-> severity, text |-> text, count |-> 1])

\* Lower levels than WARN are dropped by the subscription.
OnRosout ==
  \E severity \in Severities, text \in Texts :
    /\ logs' = AppendOperatorLog(logs, severity, text)
    /\ \A i \in DOMAIN logs' : logs'[i].count <= MaxRepeat

ClearLogs == logs # << >> /\ logs' = << >>

LogNext == OnRosout \/ ClearLogs

LogSpec == LogInit /\ [][LogNext]_logs

Severe(entries) == {i \in DOMAIN entries : entries[i].severity # "warning"}
SameKind(e, f) == e.severity = f.severity /\ e.text = f.text

\* The errors of one table are in another, in their order, and those it has besides
\* come after them.
ErrorsStay(old, new) ==
  \E at \in [Severe(old) -> Severe(new)] :
    /\ \A i \in Severe(old) : SameKind(old[i], new[at[i]])
    /\ \A i, j \in Severe(old) : i < j => at[i] < at[j]
    /\ \A k \in Severe(new) : (\E i \in Severe(old) : at[i] = k) \/ (\A i \in Severe(old) : at[i] < k)

\* The oldest entry is gone and the others have moved up.
MovedUp(old, new) ==
  /\ Len(new) >= Len(old) - 1
  /\ \A i \in 2 .. Len(old) : SameKind(old[i], new[i - 1])

\* However warnings flood the table, an error stays in it, in its place among the errors,
\* until the operator clears the table or an error comes that finds nothing but errors,
\* of which it replaces the oldest; and the table never holds more than its limit.
SevereKept ==
  [][ /\ Len(logs') <= MaxEntries
      /\ logs' # << >> =>
           \/ ErrorsStay(logs, logs')
           \/ /\ Severe(logs) = DOMAIN logs /\ Len(logs) = MaxEntries
              /\ MovedUp(logs, logs') ]_logs
================================================================================
