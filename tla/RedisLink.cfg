SPECIFICATION FairSpec
CONSTANTS
    Commands = {c1, c2, c3}
    Password = TRUE
    Null = Null
INVARIANTS TypeOK OwnReplyAlone AnswerOutstanding
PROPERTIES NothingPassesAnError SettledUnlessSilent
CHECK_DEADLOCK FALSE
