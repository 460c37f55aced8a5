\* Pure functions: one question each.
CONSTANTS
  DayLength = 8
  NoDay = NoDay
  NoTime = NoTime
  Width = 8
  DefaultBase = 3
  DefaultMax = 100
  NoId = NoId
  MinDigits = 2
  MaxDigits = 3
  NoQuestion = NoQuestion
  Days = {0, 1, 2, 3, 4, 5, 6}
  Reports = 4
  Letters = 4
  Words = 6
  Braces = 6
  Refused = Refused
  NoLimit = NoLimit
  NoZone = NoZone
  Year = 20
  TriggerDelay = 1
INIT Init
NEXT Next
CHECK_DEADLOCK FALSE
INVARIANTS
  CalendarIsExact
  DelaysAreSane
  StatusesAddUp
  SpellingDoesNotMatter
  MatchesWholeWords
  RenderIsClean
  ChecklistIsComplete
  WhatIsTypedIsSent
