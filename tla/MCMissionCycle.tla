---------------------------- MODULE MCMissionCycle -----------------------------
(***************************************************************************)
(* Two instances of MissionCycle for TLC: one mission with everything that *)
(* can happen to it, or two that compete for the reservation.  And the     *)
(* replay of a mission, which is run twice with the same output.           *)
(***************************************************************************)
EXTENDS MissionCycle, MissionReplay

CONSTANTS m1, m2

VARIABLE scenario

MCSnapshots == {[dig |-> "p", dump |-> "q"], [dig |-> "p", dump |-> "p"]}

\* Good for the first mission; its dump begins or ends elsewhere; one or two bad stages.
Good == [digTo |-> "p", tip |-> "p", dumpFrom |-> "p", dumpTo |-> "q", bad |-> {}]
MCRecordings ==
  { Good, [Good EXCEPT !.dumpFrom = "q"], [Good EXCEPT !.dumpTo = "p"],
    [Good EXCEPT !.bad = {"tracking_to_dig", "digging"}],
    [Good EXCEPT !.bad = {"settling_after_dump_track", "returning_home"}],
    [Good EXCEPT !.bad = {"returning_home"}] }

\* What the other scenarios leave alone is as it is first.
MCInit ==
  /\ Init /\ ReplayInit /\ scenario \in {"one", "pair", "replay"}
  /\ mission.dump = "q" /\ recording = [r \in Replays |-> Good]

\* Two at once do without heartbeats: their Follow stages are refused.
MCNext ==
  /\ \/ scenario # "replay" /\ Next /\ UNCHANGED replayVars
     \/ scenario = "replay" /\ ReplayNext /\ UNCHANGED vars
  /\ UNCHANGED scenario
  /\ scenario = "one" => phase'[m2] = "idle"
  /\ scenario = "pair" => heartbeat' = Nobody

MCVars == <<vars, replayVars, scenario>>

OneOf(A) == scenario # "replay" /\ A /\ UNCHANGED <<replayVars, scenario>>

MCSpec ==
  /\ MCInit /\ [][MCNext]_MCVars
  /\ \A m \in Missions : WF_MCVars(OneOf(Mission(m))) /\ WF_MCVars(OneOf(Serve(m)))
================================================================================
