SPECIFICATION Spec
CONSTANTS
  NoValue = NoValue
  TodoStatuses <- MCTodoStatuses
  EventStatuses <- MCEventStatuses
  JournalStatuses <- MCJournalStatuses
  Classes <- MCClasses
  Transps <- MCTransps
  UnknownWords <- MCUnknownWords
  Instants = {0, 1}
  Priorities <- MCPriorities
  Percents <- MCPercents
  Revisions <- MCRevisions
  WireRevisions = {2}
  MaxInt = 127
  l1 = l1
  l2 = l2
  Labels = {l1, l2}
  Values <- MCValues
  Uids = {u1}
  Others = {o1}
  Types = {"VTODO", "VEVENT", "VJOURNAL", "VFREEBUSY"}
  MaxRevision = 1
  MaxLines <- MCMaxLines
  MaxLabels = 2
INVARIANTS InDomain CategoriesAccumulate
PROPERTIES NothingOrStamped RevisionAdvances AlarmChangeShowsInParent
