--------------------------- MODULE ActiveOutputs ---------------------------
(***************************************************************************)
(* miral::ActiveOutputsMonitor and miral::Output (miral/active_outputs.cpp *)
(* and output.cpp): a configuration of the outputs comes from Mir, and the *)
(* listeners hear what it changes, one output at a time.                   *)
(*                                                                         *)
(* An output is a record [id, area, connected, on]: area stands for all    *)
(* equivalent_display_area() compares, "on" for used and powered.  All of  *)
(* a configuration is told under the monitor's mutex, not under that of    *)
(* the window manager, whose requests run in between the steps.  The       *)
(* listeners are there from the start.                                     *)
(***************************************************************************)
EXTENDS Rectangles

CONSTANT Configs    \* the configurations tried: sequences of outputs

Outputs == [id : Nat, area : Rects, connected : BOOLEAN, on : BOOLEAN]

\* A configuration has no output twice.
ASSUME ConfigsAssumption ==
    \A c \in Configs :
        /\ c \in Seq(Outputs)
        /\ \A i, j \in DOMAIN c : c[i].id = c[j].id => i = j

VARIABLES
    applied,    \* Self::outputs
    config,     \* the configuration that is being told, or was told last
    step        \* which call is next: 0 when nothing is being told

monitor_vars == <<applied, config, step>>

\* The extents of a configuration's outputs, as a multiset.
ExtentsOf(outs) == {[area |-> outs[i].area,
                     times |-> Cardinality({j \in DOMAIN outs : outs[j].area = outs[i].area})] :
                    i \in DOMAIN outs}

Connected(outs) == Remaining(outs, {i \in DOMAIN outs : outs[i].connected})

Find(outs, id) == {outs[i] : i \in {j \in DOMAIN outs : outs[j].id = id}}

\* Two outputs neither of which can be seen count as equivalent.
equivalent_display_area(a, b) ==
    IF a.on /\ b.on THEN a.area = b.area ELSE a.on = b.on

-----------------------------------------------------------------------------

\* What the listeners are told of an output of the new configuration, ...
ToldOfNew(o) ==
    IF ~o.connected THEN [call |-> "none"]
    ELSE IF Find(applied, o.id) = {} THEN [call |-> "create", output |-> o]
    ELSE LET was == CHOOSE x \in Find(applied, o.id) : TRUE
         IN  IF equivalent_display_area(o, was) THEN [call |-> "none"]
             ELSE [call |-> "update", output |-> o, original |-> was]

\* ... and of one of the old.
ToldOfOld(o) ==
    IF Find(Connected(config), o.id) = {} THEN [call |-> "delete", output |-> o]
    ELSE [call |-> "none"]

Told == IF step <= Len(config) THEN ToldOfNew(config[step])
        ELSE ToldOfOld(applied[step - Len(config)])

Telling == step \in 1..(Len(config) + Len(applied))
Ending  == step = Len(config) + Len(applied) + 1

\* initial_configuration() and configuration_applied(): the mutex is taken.  (A
\* configuration that changes nothing is left out.)
configuration_applied ==
    /\ step = 0
    /\ config' \in Configs \ {config}
    /\ step' = 1
    /\ UNCHANGED applied

NextOutput == /\ Telling
              /\ step' = step + 1
              /\ UNCHANGED <<applied, config>>

\* The listeners hear advise_output_end(); then the mutex is released.
Applied == /\ Ending
           /\ applied' = Connected(config)
           /\ step' = 0
           /\ UNCHANGED config
=============================================================================
