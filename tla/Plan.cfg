SPECIFICATION Spec
CONSTANTS
    None = none
    none = none
    Desired <- AllStates
    Views <- AllViews
INVARIANTS TypeOK PlanReaches Undisturbed QuietPlan DeviceCap
PROPERTIES RefusedOnHandover
