----------------------------- MODULE FmiInstance -----------------------------
(***************************************************************************)
(* An FMI 3.0 instance as src/fmi/instance.rs drives it: the mode it is    *)
(* in, and which of the calls the two FMU blocks make it answers there.    *)
(* The FMU is foreign code; what it allows is modelled from the calls the  *)
(* blocks make and what src/blocks/fmu.rs says of them.                    *)
(*                                                                         *)
(* An FMU that answers a call with an error is left out: every caller      *)
(* drops the error and goes on as if nothing had been called.              *)
(***************************************************************************)
EXTENDS Integers

CONSTANTS
    Structural,     \* the variables that decide the shapes of arrays
    Overridden      \* the ones given a start value by the user

\* The modes a call is answered in.
Allowed ==
    [enter_configuration_mode   |-> {"instantiated"},
     exit_configuration_mode    |-> {"configuration"},
     enter_initialization_mode  |-> {"instantiated"},
     exit_initialization_mode   |-> {"initialization"},
     set_structural             |-> {"configuration"},
     set_start                  |-> {"initialization"},
     update_discrete_states     |-> {"event"},
     enter_continuous_time_mode |-> {"event"},
     enter_event_mode           |-> {"continuous", "step"},
     completed_integrator_step  |-> {"continuous"},
     set_time                   |-> {"event", "continuous"},
     set_continuous_states      |-> {"continuous"},
     get_event_indicators       |-> {"event", "continuous"},
     enter_step_mode            |-> {"event"},
     do_step                    |-> {"step"},
     get_set_variables          |-> {"event", "continuous", "step"}]

\* legal remembers whether every call so far was made where it is allowed.
Called(f, call) == [f EXCEPT !.legal = @ /\ f.mode \in Allowed[call]]
Moved(f, call, mode) == [Called(f, call) EXCEPT !.mode = mode]

EnterConfigurationMode(f) == Moved(f, "enter_configuration_mode", "configuration")
ExitConfigurationMode(f) == Moved(f, "exit_configuration_mode", "instantiated")
EnterInitializationMode(f) == Moved(f, "enter_initialization_mode", "initialization")
EnterEventMode(f) == Moved(f, "enter_event_mode", "event")
EnterContinuousTimeMode(f) == Moved(f, "enter_continuous_time_mode", "continuous")
EnterStepMode(f) == Moved(f, "enter_step_mode", "step")

\* events: Model Exchange, or Co-Simulation with eventModeUsed.
ExitInitializationMode(f, events) ==
    Moved(f, "exit_initialization_mode", IF events THEN "event" ELSE "step")

\* Once an FMU has asked for the end of the simulation it answers nothing.
Ended(f) == [f EXCEPT !.mode = "done"]

\* Structural parameters first, in Configuration Mode if there are any ...
ApplyStructuralOverrides(f) ==
    IF Overridden \cap Structural = {} THEN f
    ELSE ExitConfigurationMode(Called(EnterConfigurationMode(f), "set_structural"))

\* ... and in Initialization Mode what has not been applied yet.
Remaining == Overridden \ Structural

SetStart(f) ==
    IF Remaining = {} THEN f
    ELSE IF Remaining \cap Structural # {} THEN Called(Called(f, "set_start"), "set_structural")
    ELSE Called(f, "set_start")

\* run_initialization up to the drain of the discrete states.
Initialized(f, events) ==
    ExitInitializationMode(SetStart(EnterInitializationMode(f)), events)
=============================================================================
