\* Databases of every age, up and down through every migration.
SPECIFICATION Spec
INVARIANTS
    HeadIsOneShape
    KeyNeverGapped
    IsolationOn
    TypeMatchesRules
PROPERTIES
    DowngradeRestores
    OnlyDisposableRowsGo
