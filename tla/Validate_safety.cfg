\* One process over many projects; two processes over one.
SPECIFICATION Spec
CONSTANTS
    early = early
    late = late
    main = main
    extra = extra
    Run = {early, late}
    Schema = {main, extra}
    Projects <- MCProjects
    MaxAge = 1
    MaxTime = 2
INVARIANTS
    TypeOK
    OneErrorDoesNotCascade
    VerdictsAgree
    EveryNodeIsJudged
    NothingIsLeftBehind
    YoungShadowsStay
CHECK_DEADLOCK FALSE
