\* Two tabs with one pull request: the second is refused.
CONSTANTS
    Tabs = {t1, t2}
    MaxVersion = 4
SPECIFICATION Spec
INVARIANT ScreenShowsAReview
CHECK_DEADLOCK FALSE
