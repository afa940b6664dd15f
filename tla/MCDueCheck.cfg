CONSTANT Moments <- MCMoments
SPECIFICATION Spec
INVARIANT DueIsNeverEarly
INVARIANT ExactOnTheDay
PROPERTY DueUntilMidnight
