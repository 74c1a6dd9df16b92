SPECIFICATION Spec
CONSTANTS
  Slots = 3
  EventRoom = 2
  Budgets <- MCBudgets
INVARIANTS
  SessionIsReal
  StateIsNotForgotten
  EventsNotLost
PROPERTIES
  ImplementsCommandChannel
