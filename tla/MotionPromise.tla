----------------------------- MODULE MotionPromise -----------------------------
(***************************************************************************)
(* What the one PC-to-Orin command sink promises to everyone who calls it, *)
(* and to the machine at the other end of the wire, with the locks, the    *)
(* audit queue and the writer thread left out: a numbered stream of        *)
(* datagrams in which a motion command is only ever computed from a        *)
(* Machine State whose safety gate is open, never from a state older than  *)
(* the one behind an earlier motion command, and never after a disarm.     *)
(*                                                                         *)
(* CommandSink is the implementation (runtime_bridge/live_control.py and   *)
(* runtime_bridge/action_journal.py).                                      *)
(***************************************************************************)
EXTENDS Naturals, Sequences

CONSTANTS
  States,        \* sequence numbers of the Machine States (packet.seq)
  OpenStates     \* those whose safety fields open the motion gate

VARIABLES
  disarmed,      \* MotionCommandSink._disarmed
  wire           \* every datagram handed to the network, oldest first

promiseVars == <<disarmed, wire>>

\* A datagram: its action sequence number and either the state behind a motion
\* command or 0 for a zero command.
Datagram == [seq : Nat, state : States \cup {0}]

\* The three ways the stream evolves.
EmitMotion(s) ==
  /\ ~disarmed
  /\ s \in OpenStates
  /\ \A i \in DOMAIN wire : wire[i].state <= s
  /\ wire' = Append(wire, [seq |-> Len(wire), state |-> s])
  /\ UNCHANGED disarmed

EmitZero ==
  /\ wire' = Append(wire, [seq |-> Len(wire), state |-> 0])
  /\ UNCHANGED disarmed

Disarm == disarmed' = TRUE /\ UNCHANGED wire

PromiseInit == disarmed = FALSE /\ wire = << >>

PromiseNext == \/ \E s \in States : EmitMotion(s)
               \/ EmitZero
               \/ Disarm

PromiseSpec == PromiseInit /\ [][PromiseNext]_promiseVars
================================================================================
