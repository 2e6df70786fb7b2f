\* What must happen in the end, under the fairness of each part.
SPECIFICATION FairSpec
CONSTANT NoObj = NoObj
PROPERTY WorkEnds
PROPERTY MailLetsGo
CHECK_DEADLOCK FALSE
