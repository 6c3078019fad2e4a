CONSTANTS
  Soundtracks <- MCSoundtracks
  Stories <- MCStories
  Questions <- MCQuestions
  Budgets <- MCBudgets
SPECIFICATION Spec
CHECK_DEADLOCK FALSE
INVARIANT EventsAreWhatWasHeard
INVARIANT CardsTrue
INVARIANT FusionFair
INVARIANT BudgetKept
