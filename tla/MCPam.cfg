SPECIFICATION Spec
CONSTANTS
    PromptWords = {{}, {"password"}, {"password", "current"}, {"password", "new"}, {"password", "new", "again"}}
    InfoWords = {{}, {"changing"}}
    Texts = {t1, t2}
    MaxBatch = 2
    MaxRounds = 3
INVARIANTS
    TypeOK
    LoginPromptsAnswered
    OneAnswerOneUse
CHECK_DEADLOCK FALSE
