SPECIFICATION Spec
CONSTANTS
    Names = {"EUF", "EUB", "SSPRK22", "RK4", "SSPRK33", "SSPRK34", "RKF21", "RKBS32", "RKF45", "RKCK54",
             "RKDP54", "RKV65", "RKF78", "DIRK2", "DIRK3", "ESDIRK4", "ESDIRK32", "GEAR52A"}
    Forms = {"ode", "semi", "mass", "implicit"}
    Widths = {2, 5}
    MaxAttempts = 2
    MaxGearSteps = 7
INVARIANTS
    StepsHaveTheirOrder
    DenseOutputIsExact
    GeneratedStepsAgree
CHECK_DEADLOCK FALSE
